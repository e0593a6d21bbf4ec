------------------------- MODULE AsyncLoggerProofs -------------------------
(***************************************************************************)
(* Proofs about AsyncLogger, for any finite set of producers and any bound *)
(* of the queue: what the counter, the wake-ups and flush() rely on, that  *)
(* the logger implements LogChannel, that with it records come out in the  *)
(* order of their pushes and none is lost while there is room, and that no *)
(* call waits for something that cannot come.                              *)
(***************************************************************************)
EXTENDS AsyncLogger, FiniteSetTheorems, SequenceTheorems, TLAPS

USE ProducersAssumption, MaxQueueSizeAssumption, MaxPushesAssumption
USE DEF ProducersAssumption, MaxQueueSizeAssumption, MaxPushesAssumption

(***************************************************************************)
(* The inductive strengthening of the type invariant: rQueue is empty      *)
(* whenever it is swapped in, because sendToSinks() leaves records behind  *)
(* only when the worker is about to stop; and the logger is destroyed only *)
(* while no call is in progress.                                           *)
(***************************************************************************)
BatchInv ==
    /\ worker \in {"idle", "asleep", "swap"} => rQueue = <<>>
    /\ worker \in {"announce", "loop", "done"} /\ rQueue # <<>> => stop
    /\ stop => \A p \in Producers : pc[p] = "ready"

TypeInv == TypeOK /\ BatchInv

\* What is left of a sequence without its first n elements.
LEMMA DropFront ==
    ASSUME NEW S, NEW q \in Seq(S), NEW n \in Nat, n <= Len(q)
    PROVE  /\ SubSeq(q, n + 1, Len(q)) \in Seq(S)
           /\ Len(SubSeq(q, n + 1, Len(q))) = Len(q) - n
           /\ \A i \in 1..(Len(q) - n) : SubSeq(q, n + 1, Len(q))[i] = q[n + i]
<1>1. Len(q) \in Nat /\ n + 1 \in Int /\ Len(q) \in Int
  BY LenProperties
<1>2. \A i \in (n + 1)..Len(q) : q[i] \in S
  BY <1>1, ElementOfSeq
<1>3. /\ SubSeq(q, n + 1, Len(q)) \in Seq(S)
      /\ Len(SubSeq(q, n + 1, Len(q))) =
            IF n + 1 <= Len(q) THEN Len(q) - (n + 1) + 1 ELSE 0
      /\ \A i \in 1..(Len(q) - (n + 1) + 1) :
            SubSeq(q, n + 1, Len(q))[i] = q[(n + 1) + i - 1]
  BY <1>1, <1>2, SubSeqProperties
<1> DEFINE r == SubSeq(q, n + 1, Len(q))
<1> HIDE DEF r
<1> QED
  BY <1>1, <1>3 DEF r

\* What Enqueue() makes of wQueue.
LEMMA EnqueueType ==
    ASSUME wQueue \in Seq(Items), Len(wQueue) <= MaxQueueSize, NEW item \in Items
    PROVE  /\ Excess \in {0, 1}
           /\ Excess <= Len(wQueue)
           /\ Enqueue(item) \in Seq(Items)
           /\ Len(Enqueue(item)) = Len(wQueue) + 1 - Excess
           /\ Len(Enqueue(item)) <= MaxQueueSize
           /\ \A i \in DOMAIN Enqueue(item) :
                 \/ Enqueue(item)[i] = item
                 \/ \E j \in DOMAIN wQueue : Enqueue(item)[i] = wQueue[j]
           /\ \A i \in 1..(Len(wQueue) - Excess) : Enqueue(item)[i] = wQueue[Excess + i]
           /\ Enqueue(item)[Len(wQueue) + 1 - Excess] = item
<1>1. Len(wQueue) \in Nat /\ DOMAIN wQueue = 1..Len(wQueue)
  BY LenProperties
<1>2. /\ Excess \in {0, 1}
      /\ Excess <= Len(wQueue)
      /\ Len(wQueue) + 1 - Excess <= MaxQueueSize
  BY <1>1 DEF Excess
<1> DEFINE rest == SubSeq(wQueue, Excess + 1, Len(wQueue))
<1>3. /\ rest \in Seq(Items)
      /\ Len(rest) = Len(wQueue) - Excess
      /\ \A i \in 1..(Len(wQueue) - Excess) : rest[i] = wQueue[Excess + i]
  BY <1>2, DropFront
<1>4. Enqueue(item) = Append(rest, item)
  BY DEF Enqueue
<1> HIDE DEF rest
<1>5. /\ Append(rest, item) \in Seq(Items)
      /\ Len(Append(rest, item)) = Len(rest) + 1
      /\ \A i \in 1..Len(rest) : Append(rest, item)[i] = rest[i]
      /\ Append(rest, item)[Len(rest) + 1] = item
      /\ DOMAIN Append(rest, item) = 1..(Len(rest) + 1)
  BY <1>3, AppendProperties, LenProperties
<1>6. ASSUME NEW i \in 1..(Len(rest) + 1)
      PROVE  \/ Append(rest, item)[i] = item
             \/ \E j \in DOMAIN wQueue : Append(rest, item)[i] = wQueue[j]
  <2>1. CASE i = Len(rest) + 1
    BY <2>1, <1>5
  <2>2. CASE i # Len(rest) + 1
    <3>1. i \in 1..Len(rest) /\ Excess + i \in 1..Len(wQueue)
      BY <1>1, <1>2, <1>3, <2>2
    <3>2. Append(rest, item)[i] = wQueue[Excess + i]
      BY <3>1, <1>3, <1>5
    <3> QED
      BY <3>1, <3>2, <1>1
  <2> QED
    BY <2>1, <2>2
<1>7. \A i \in 1..(Len(wQueue) - Excess) : Append(rest, item)[i] = wQueue[Excess + i]
  BY <1>1, <1>2, <1>3, <1>5
<1>8. Append(rest, item)[Len(wQueue) + 1 - Excess] = item
  <2>1. Len(wQueue) + 1 - Excess = Len(rest) + 1
    BY <1>1, <1>2, <1>3
  <2> QED
    BY <1>5, <2>1
<1>9. /\ \A i \in 1..(Len(wQueue) - Excess) : Enqueue(item)[i] = wQueue[Excess + i]
      /\ Enqueue(item)[Len(wQueue) + 1 - Excess] = item
  BY <1>4, <1>7, <1>8
<1>10. \A i \in DOMAIN Enqueue(item) :
          \/ Enqueue(item)[i] = item
          \/ \E j \in DOMAIN wQueue : Enqueue(item)[i] = wQueue[j]
  BY <1>4, <1>5, <1>6
<1>11. /\ Enqueue(item) \in Seq(Items)
       /\ Len(Enqueue(item)) = Len(wQueue) + 1 - Excess
       /\ Len(Enqueue(item)) <= MaxQueueSize
  BY <1>1, <1>2, <1>3, <1>4, <1>5
<1> QED
  BY <1>2, <1>9, <1>10, <1>11

-----------------------------------------------------------------------------
(***************************************************************************)
(* Type correctness.                                                       *)
(***************************************************************************)
LEMMA TypeInit == Init => TypeInv
<1> SUFFICES ASSUME Init PROVE TypeInv
  OBVIOUS
<1>1. <<>> \in Seq(Items) /\ Len(<<>>) = 0
  BY EmptySeq
<1>2. 0 \in 0..MaxQueueSize /\ 0 \in 0..MaxPushes /\ 0 <= MaxQueueSize
  OBVIOUS
<1>3. /\ pc \in [Producers -> ProducerStates]
      /\ call \in [Producers -> Kinds]
      /\ discarded \in [Producers -> {0, 1}]
      /\ ticket \in [Producers -> Nat]
      /\ answer \in [Producers -> {"none", "true", "false"}]
  BY DEF Init, ProducerStates, Kinds
<1>4. worker \in WorkerStates /\ stop \in BOOLEAN /\ BatchInv
  BY DEF Init, WorkerStates, BatchInv
<1> QED
  BY <1>1, <1>2, <1>3, <1>4 DEF Init, TypeInv, TypeOK

LEMMA TypeStep == TypeInv /\ [Next]_vars => TypeInv'
<1> SUFFICES ASSUME TypeInv, [Next]_vars
             PROVE  TypeInv'
  OBVIOUS
<1> USE DEF TypeInv, TypeOK, BatchInv, ProducerStates, WorkerStates, queues, history
<1>0. /\ Len(wQueue) \in Nat /\ Len(rQueue) \in Nat
      /\ <<>> \in Seq(Items)
      /\ \A q \in Seq(Items) : Len(q) = 0 => q = <<>>
  BY LenProperties, EmptySeq
<1>1. ASSUME NEW p \in Producers, NEW kind \in Kinds, Push(p, kind)
      PROVE  TypeInv'
  <2> DEFINE item == [what |-> kind, id |-> pushed + 1]
  <2>1. item \in Items
    BY DEF Items
  <2>2. /\ Excess \in {0, 1}
        /\ wQueue' \in Seq(Items) /\ Len(wQueue') <= MaxQueueSize
    BY <1>1, <2>1, EnqueueType DEF Push
  <2>3. pushed' \in 0..MaxPushes
    BY <1>1 DEF Push
  <2>4. BatchInv'
    BY <1>1 DEF Push
  <2> QED
    BY <1>1, <2>2, <2>3, <2>4 DEF Push
<1>2. ASSUME NEW p \in Producers, Count(p)
      PROVE  TypeInv'
  <2>1. discarded[p] \in Int
    OBVIOUS
  <2>2. pending' \in Int
    BY <1>2, <2>1 DEF Count, Counted
  <2>3. pc' \in [Producers -> ProducerStates] /\ ~stop
    BY <1>2 DEF Count
  <2> QED
    BY <1>2, <2>2, <2>3 DEF Count
<1>3. ASSUME NEW p \in Producers, Notify(p)
      PROVE  TypeInv'
  BY <1>3 DEF Notify
<1>4. ASSUME NEW p \in Producers, FlushCheck(p)
      PROVE  TypeInv'
  BY <1>4 DEF FlushCheck, Return
<1>5. ASSUME NEW p \in Producers, FlushTimeout(p)
      PROVE  TypeInv'
  BY <1>5 DEF FlushTimeout, Return
<1>6. CASE Destroy
  BY <1>6 DEF Destroy
<1>7. CASE WorkerCheck
  BY <1>7 DEF WorkerCheck
<1>8. CASE WorkerTimeout
  BY <1>8 DEF WorkerTimeout
<1>9. CASE WorkerSwap
  BY <1>0, <1>9 DEF WorkerSwap, Swap
<1>10. CASE WorkerLock
  BY <1>0, <1>10 DEF WorkerLock
<1>11. CASE WorkerSend
  <2> DEFINE rest == Tail(rQueue)
  <2>0. /\ Head(rQueue) \in Items
        /\ rest \in Seq(Items)
        /\ Len(rest) = Len(rQueue) - 1
    BY <1>11, HeadTailProperties DEF WorkerSend
  <2>1. rQueue' = rest
    BY <1>11 DEF WorkerSend
  <2> HIDE DEF rest
  <2>6. Len(rQueue) = 1 => rQueue' = <<>>
    BY <1>0, <2>0, <2>1
  <2>2. delivered' \in Seq(Items)
    BY <1>11, <2>0, AppendProperties DEF WorkerSend
  <2>3. rQueue' \in Seq(Items) /\ Len(rQueue') <= MaxQueueSize
    BY <1>0, <2>0, <2>1
  <2>4. pending' \in Int /\ worker' \in WorkerStates
    BY <1>11 DEF WorkerSend
  <2>5. BatchInv'
    BY <1>11, <2>6 DEF WorkerSend, BatchEnds
  <2> QED
    BY <1>11, <2>2, <2>3, <2>4, <2>5 DEF WorkerSend
<1>12. CASE WorkerAnnounce
  BY <1>12 DEF WorkerAnnounce
<1>13. CASE WorkerLoop
  BY <1>13 DEF WorkerLoop
<1>14. CASE UNCHANGED vars
  BY <1>14 DEF vars
<1> QED
  BY <1>1, <1>2, <1>3, <1>4, <1>5, <1>6, <1>7, <1>8, <1>9, <1>10, <1>11, <1>12,
     <1>13, <1>14 DEF Next, ProducerStep, WorkerStep, Terminated

\* Every variable keeps its type in every reachable state, and wQueue never
\* holds more than MaxQueueSize items.
THEOREM TypeCorrect == Spec => []TypeOK
<1>1. Spec => []TypeInv
  BY TypeInit, TypeStep, PTL DEF Spec
<1>2. TypeInv => TypeOK
  BY DEF TypeInv
<1> QED
  BY <1>1, <1>2, PTL

-----------------------------------------------------------------------------
(***************************************************************************)
(* The counter of pending records.                                         *)
(***************************************************************************)

\* What a step leaves alone leaves the set of uncounted calls alone.
LEMMA UncountedStable ==
    ASSUME UNCHANGED discarded,
           \A p \in Producers : pc'[p] = "count" <=> pc[p] = "count"
    PROVE  Uncounted' = Uncounted
BY DEF Uncounted

LEMMA UncountedFinite == IsFiniteSet(Uncounted) /\ Cardinality(Uncounted) \in Nat
<1>1. IsFiniteSet(Uncounted)
  BY FS_Subset DEF Uncounted
<1> QED
  BY <1>1, FS_CardinalityType

LEMMA AccountingInit == Init => PendingAccounting
<1> SUFFICES ASSUME Init PROVE PendingAccounting
  OBVIOUS
<1>1. Uncounted = {}
  BY DEF Init, Uncounted
<1>2. Cardinality({}) = 0 /\ Len(<<>>) = 0
  BY FS_EmptySet, EmptySeq
<1> QED
  BY <1>1, <1>2 DEF Init, PendingAccounting, InBatch

LEMMA AccountingStep == TypeInv /\ PendingAccounting /\ [Next]_vars => PendingAccounting'
<1> SUFFICES ASSUME TypeInv, PendingAccounting, [Next]_vars
             PROVE  PendingAccounting'
  OBVIOUS
<1> USE DEF PendingAccounting, queues, history
<1>0. /\ wQueue \in Seq(Items) /\ rQueue \in Seq(Items)
      /\ Len(wQueue) \in Nat /\ Len(rQueue) \in Nat /\ Len(<<>>) = 0
      /\ pending \in Int /\ count \in Int
      /\ Len(wQueue) <= MaxQueueSize
      /\ pc \in [Producers -> ProducerStates]
      /\ discarded \in [Producers -> {0, 1}]
      /\ IsFiniteSet(Uncounted) /\ Cardinality(Uncounted) \in Nat
      /\ InBatch \in Int
  BY LenProperties, EmptySeq, UncountedFinite DEF TypeInv, TypeOK, InBatch
<1>1. ASSUME NEW p \in Producers, NEW kind \in Kinds, Push(p, kind)
      PROVE  PendingAccounting'
  <2> DEFINE item == [what |-> kind, id |-> pushed + 1]
  <2>1. item \in Items
    BY DEF Items, TypeInv, TypeOK
  <2>2. Excess \in {0, 1} /\ Len(wQueue') = Len(wQueue) + 1 - Excess
    BY <1>0, <1>1, <2>1, EnqueueType DEF Push
  <2>8. pending' = pending
    BY <1>1 DEF Push
  <2>3. InBatch' = InBatch
    BY <1>1 DEF Push, InBatch
  <2>4. p \notin Uncounted /\ pc'[p] = "count" /\ discarded'[p] = Excess
    BY <1>0, <1>1 DEF Push, Uncounted
  <2>5. \A q \in Producers \ {p} : pc'[q] = pc[q] /\ discarded'[q] = discarded[q]
    BY <1>0, <1>1 DEF Push
  <2>6. CASE Excess = 0
    <3>1. Uncounted' = Uncounted \union {p}
      BY <2>4, <2>5, <2>6 DEF Uncounted
    <3>2. Cardinality(Uncounted') = Cardinality(Uncounted) + 1
      BY <1>0, <2>4, <3>1, FS_AddElement
    <3> QED
      BY <1>0, <2>8, <2>2, <2>3, <2>6, <3>2
  <2>7. CASE Excess = 1
    <3>1. Uncounted' = Uncounted
      BY <2>4, <2>5, <2>7 DEF Uncounted
    <3> QED
      BY <1>0, <2>8, <2>2, <2>3, <2>7, <3>1
  <2> QED
    BY <2>2, <2>6, <2>7
<1>2. ASSUME NEW p \in Producers, Count(p)
      PROVE  PendingAccounting'
  <2>1. UNCHANGED <<wQueue, rQueue, worker, count, discarded>>
    BY <1>2 DEF Count
  <2>2. InBatch' = InBatch
    BY <2>1 DEF InBatch
  <2>3. \A q \in Producers : pc'[q] = "count" <=> pc[q] = "count" /\ q # p
    BY <1>0, <1>2 DEF Count
  <2>4. Uncounted' = Uncounted \ {p}
    BY <2>1, <2>3 DEF Uncounted
  <2>5. pending' = pending + 1 - discarded[p]
    BY <1>0, <1>2 DEF Count, Counted
  <2>6. CASE discarded[p] = 0
    <3>1. p \in Uncounted
      BY <1>2, <2>6 DEF Uncounted, Count
    <3>2. Cardinality(Uncounted') = Cardinality(Uncounted) - 1
      BY <1>0, <2>4, <3>1, FS_RemoveElement
    <3> QED
      BY <1>0, <2>1, <2>2, <2>5, <2>6, <3>2
  <2>7. CASE discarded[p] = 1
    <3>1. Uncounted' = Uncounted
      BY <2>4, <2>7 DEF Uncounted
    <3> QED
      BY <1>0, <2>1, <2>2, <2>5, <2>7, <3>1
  <2> QED
    BY <1>0, <2>6, <2>7
<1>3. ASSUME UNCHANGED <<wQueue, rQueue, pending, count, discarded>>,
             worker' = worker \/ {worker, worker'} \intersect {"lock", "send"} = {},
             \A p \in Producers : pc'[p] = "count" <=> pc[p] = "count"
      PROVE  PendingAccounting'
  <2>1. InBatch' = InBatch
    BY <1>3 DEF InBatch
  <2>2. Uncounted' = Uncounted
    BY <1>3, UncountedStable
  <2> QED
    BY <1>3, <2>1, <2>2
<1>4. ASSUME NEW p \in Producers, Notify(p)
      PROVE  PendingAccounting'
  <2>1. \A q \in Producers : pc'[q] = "count" <=> pc[q] = "count"
    BY <1>0, <1>4 DEF Notify
  <2>2. worker' = worker \/ {worker, worker'} \intersect {"lock", "send"} = {}
    BY <1>4 DEF Notify
  <2> QED
    BY <1>3, <1>4, <2>1, <2>2 DEF Notify
<1>5. ASSUME NEW p \in Producers, FlushCheck(p) \/ FlushTimeout(p)
      PROVE  PendingAccounting'
  <2>1. \A q \in Producers : pc'[q] = "count" <=> pc[q] = "count"
    BY <1>0, <1>5 DEF FlushCheck, FlushTimeout, Return
  <2> QED
    BY <1>3, <1>5, <2>1 DEF FlushCheck, FlushTimeout
<1>6. CASE Destroy
  BY <1>3, <1>6 DEF Destroy
<1>7. CASE WorkerCheck \/ WorkerTimeout \/ WorkerLoop
  BY <1>3, <1>7 DEF WorkerCheck, WorkerTimeout, WorkerLoop
<1>8. CASE WorkerAnnounce
  <2>1. \A q \in Producers : pc'[q] = "count" <=> pc[q] = "count"
    BY <1>0, <1>8 DEF WorkerAnnounce
  <2> QED
    BY <1>3, <1>8, <2>1 DEF WorkerAnnounce
<1>9. CASE WorkerSwap
  <2>1. Uncounted' = Uncounted
    BY <1>9, UncountedStable DEF WorkerSwap
  <2>2. rQueue = <<>>
    BY <1>9 DEF WorkerSwap, TypeInv, BatchInv
  <2> QED
    BY <1>0, <1>9, <2>1, <2>2 DEF WorkerSwap, Swap, InBatch
<1>10. CASE WorkerLock
  <2>1. Uncounted' = Uncounted
    BY <1>10, UncountedStable DEF WorkerLock
  <2> QED
    BY <1>0, <1>10, <2>1 DEF WorkerLock, InBatch
<1>11. CASE WorkerSend
  <2>1. Uncounted' = Uncounted
    BY <1>11, UncountedStable DEF WorkerSend
  <2>2. CASE BatchEnds
    BY <1>0, <1>11, <2>1, <2>2 DEF WorkerSend, InBatch
  <2>3. CASE ~BatchEnds
    BY <1>0, <1>11, <2>1, <2>3 DEF WorkerSend, InBatch
  <2> QED
    BY <2>2, <2>3
<1>12. CASE UNCHANGED vars
  BY <1>3, <1>12 DEF vars
<1> QED
  BY <1>1, <1>2, <1>4, <1>5, <1>6, <1>7, <1>8, <1>9, <1>10, <1>11, <1>12
     DEF Next, ProducerStep, WorkerStep, Terminated, vars

\* The counter of pending records is exactly the number of items queued or
\* in the batch being sent, short of the pushes not counted yet.
THEOREM AccountingCorrect == Spec => []PendingAccounting
<1>1. TypeInv /\ PendingAccounting /\ [Next]_vars => (TypeInv /\ PendingAccounting)'
  BY TypeStep, AccountingStep
<1>2. Spec => [](TypeInv /\ PendingAccounting)
  BY TypeInit, AccountingInit, <1>1, PTL DEF Spec
<1> QED
  BY <1>2, PTL

-----------------------------------------------------------------------------
(***************************************************************************)
(* Lost wake-ups.                                                          *)
(***************************************************************************)
LEMMA NoSleepInit == Init => NoSleepOnUrgent
  BY DEF Init, NoSleepOnUrgent

LEMMA NoSleepStep == TypeInv /\ NoSleepOnUrgent /\ [Next]_vars => NoSleepOnUrgent'
<1> SUFFICES ASSUME TypeInv, NoSleepOnUrgent, [Next]_vars
             PROVE  NoSleepOnUrgent'
  OBVIOUS
<1> USE DEF NoSleepOnUrgent, queues, history
<1>0. /\ wQueue \in Seq(Items) /\ Len(wQueue) <= MaxQueueSize
      /\ pc \in [Producers -> ProducerStates]
      /\ call \in [Producers -> Kinds]
  BY DEF TypeInv, TypeOK
<1>1. ASSUME NEW p \in Producers, NEW kind \in Kinds, Push(p, kind)
      PROVE  NoSleepOnUrgent'
  <2> DEFINE item == [what |-> kind, id |-> pushed + 1]
  <2> SUFFICES ASSUME worker = "asleep",
                      NEW i \in DOMAIN wQueue', wQueue'[i].what # "record"
               PROVE  \E q \in Producers : pc'[q] \in {"count", "notify"} /\ call'[q] # "record"
    BY <1>1 DEF Push
  <2>1. item \in Items
    BY DEF Items, TypeInv, TypeOK
  <2>2. wQueue' = Enqueue(item)
    BY <1>1 DEF Push
  <2>3. wQueue'[i] = item \/ \E j \in DOMAIN wQueue : wQueue'[i] = wQueue[j]
    BY <1>0, <2>1, <2>2, EnqueueType
  <2>4. CASE wQueue'[i] = item
    <3>1. pc'[p] = "count" /\ call'[p] = kind
      BY <1>0, <1>1 DEF Push
    <3> QED
      BY <2>4, <3>1
  <2>5. CASE \E j \in DOMAIN wQueue : wQueue'[i] = wQueue[j]
    <3>1. PICK q \in Producers : pc[q] \in {"count", "notify"} /\ call[q] # "record"
      BY <2>5
    <3>2. q # p
      BY <1>1, <3>1 DEF Push
    <3>3. pc'[q] = pc[q] /\ call'[q] = call[q]
      BY <1>0, <1>1, <3>2 DEF Push
    <3> QED
      BY <3>1, <3>3
  <2> QED
    BY <2>3, <2>4, <2>5
<1>2. ASSUME NEW p \in Producers, Count(p)
      PROVE  NoSleepOnUrgent'
  <2>1. call[p] # "record" => pc'[p] = "notify"
    BY <1>0, <1>2 DEF Count, Urgent
  <2>2. \A q \in Producers \ {p} : pc'[q] = pc[q]
    BY <1>0, <1>2 DEF Count
  <2> QED
    BY <1>2, <2>1, <2>2 DEF Count
<1>3. ASSUME NEW p \in Producers, Notify(p)
      PROVE  NoSleepOnUrgent'
  BY <1>3 DEF Notify
<1>4. ASSUME UNCHANGED <<wQueue, worker, call>>,
             \A p \in Producers : pc[p] \in {"count", "notify"} => pc'[p] = pc[p]
      PROVE  NoSleepOnUrgent'
  BY <1>4
<1>5. ASSUME NEW p \in Producers, FlushCheck(p) \/ FlushTimeout(p)
      PROVE  NoSleepOnUrgent'
  <2>1. \A q \in Producers : pc[q] \in {"count", "notify"} => pc'[q] = pc[q]
    BY <1>0, <1>5 DEF FlushCheck, FlushTimeout, Return
  <2> QED
    BY <1>4, <1>5, <2>1 DEF FlushCheck, FlushTimeout
<1>6. CASE Destroy
  BY <1>6 DEF Destroy
<1>7. CASE WorkerCheck
  BY <1>7 DEF WorkerCheck
<1>8. CASE WorkerTimeout \/ WorkerLoop
  BY <1>8 DEF WorkerTimeout, WorkerLoop
<1>9. CASE WorkerSwap \/ WorkerLock \/ WorkerAnnounce
  BY <1>9 DEF WorkerSwap, WorkerLock, WorkerAnnounce
<1>10. CASE WorkerSend
  BY <1>10 DEF WorkerSend
<1>11. CASE UNCHANGED vars
  BY <1>4, <1>11 DEF vars
<1> QED
  BY <1>1, <1>2, <1>3, <1>5, <1>6, <1>7, <1>8, <1>9, <1>10, <1>11
     DEF Next, ProducerStep, WorkerStep, Terminated, vars

\* The worker never sleeps on an atomic group or a flush request whose
\* notification has been sent already.
THEOREM NoLostWakeup == Spec => []NoSleepOnUrgent
<1>1. TypeInv /\ NoSleepOnUrgent /\ [Next]_vars => (TypeInv /\ NoSleepOnUrgent)'
  BY TypeStep, NoSleepStep
<1>2. Spec => [](TypeInv /\ NoSleepOnUrgent)
  BY TypeInit, NoSleepInit, <1>1, PTL DEF Spec
<1> QED
  BY <1>2, PTL

-----------------------------------------------------------------------------
(***************************************************************************)
(* What an answer of flush() means.                                        *)
(***************************************************************************)

\* When no call is between its two critical sections, a counter of zero means
\* that nothing is queued.
LEMMA NothingPending ==
    ASSUME TypeInv, PendingAccounting, ~stop, RFree, pending = 0,
           \A q \in Producers : pc[q] # "count"
    PROVE  wQueue = <<>> /\ rQueue = <<>>
<1>1. /\ wQueue \in Seq(Items) /\ rQueue \in Seq(Items)
      /\ Len(wQueue) \in Nat /\ Len(rQueue) \in Nat
      /\ \A q \in Seq(Items) : Len(q) = 0 => q = <<>>
  BY LenProperties, EmptySeq DEF TypeInv, TypeOK
<1>2. Uncounted = {} /\ Cardinality({}) = 0
  BY FS_EmptySet DEF Uncounted
<1>3. InBatch = IF worker = "lock" THEN Len(rQueue) ELSE 0
  BY DEF InBatch, RFree
<1>4. Len(wQueue) = 0 /\ InBatch = 0
  <2>1. InBatch \in Nat
    BY <1>1, <1>3
  <2>2. Len(wQueue) + InBatch = 0
    BY <1>1, <1>2, <2>1 DEF PendingAccounting
  <2> QED
    BY <1>1, <2>1, <2>2
<1>5. wQueue = <<>>
  BY <1>1, <1>4
<1>6. CASE worker = "lock"
  BY <1>1, <1>3, <1>4, <1>5, <1>6
<1>7. CASE worker # "lock"
  <2>1. worker \in {"idle", "asleep", "swap", "announce", "loop", "done"}
    BY <1>7 DEF RFree, TypeInv, TypeOK, WorkerStates
  <2> QED
    BY <1>5, <2>1 DEF TypeInv, BatchInv
<1> QED
  BY <1>6, <1>7

\* What was pushed is given to the sinks, queued, or has MaxQueueSize newer items behind
\* it: wQueue holds the names that were given out last, without a gap, so that an
\* overflow takes one that is MaxQueueSize behind the new one.
ItemsKept ==
    /\ \A i \in 1..Len(wQueue) : wQueue[i].id = pushed - Len(wQueue) + i
    /\ \A id \in 1..pushed : \/ GivenOrOverrun(id)
                             \/ \E i \in 1..Len(rQueue) : rQueue[i].id = id
                             \/ \E i \in 1..Len(wQueue) : wQueue[i].id = id

\* Nothing has been pushed at the start.
LEMMA KeptInit == Init => ItemsKept
  BY EmptySeq DEF Init, ItemsKept

\* An item leaves a queue for the other one, for the sinks, or because of an overflow.
LEMMA KeptStep == TypeInv /\ ItemsKept /\ [Next]_vars => ItemsKept'
<1> SUFFICES ASSUME TypeInv, ItemsKept, [Next]_vars PROVE ItemsKept'
  OBVIOUS
<1> USE DEF queues, history
<1>0. /\ wQueue \in Seq(Items) /\ rQueue \in Seq(Items) /\ delivered \in Seq(Items)
      /\ Len(wQueue) \in Nat /\ Len(rQueue) \in Nat /\ Len(delivered) \in Nat
      /\ Len(wQueue) <= MaxQueueSize /\ pushed \in Nat
  BY LenProperties DEF TypeInv, TypeOK
<1>1. ASSUME NEW p \in Producers, NEW kind \in Kinds, Push(p, kind)
      PROVE  ItemsKept'
  <2> DEFINE item == [what |-> kind, id |-> pushed + 1]
  <2>1. item \in Items /\ item.id = pushed + 1
    BY <1>0 DEF Items
  <2>2. wQueue' = Enqueue(item) /\ rQueue' = rQueue /\ delivered' = delivered /\ pushed' = pushed + 1
    BY <1>1 DEF Push
  <2> HIDE DEF item
  <2>3. /\ Excess \in {0, 1} /\ Excess <= Len(wQueue)
        /\ Len(wQueue') = Len(wQueue) + 1 - Excess
        /\ \A i \in 1..(Len(wQueue) - Excess) : wQueue'[i] = wQueue[Excess + i]
        /\ wQueue'[Len(wQueue) + 1 - Excess] = item
    BY <1>0, <2>1, <2>2, EnqueueType
  <2>4. Excess = 1 => Len(wQueue) = MaxQueueSize
    BY <1>0 DEF Excess
  <2> HIDE DEF Excess
  <2>5. ASSUME NEW i \in 1..Len(wQueue')
        PROVE  wQueue'[i].id = pushed' - Len(wQueue') + i
    <3>1. CASE i = Len(wQueue) + 1 - Excess
      BY <1>0, <2>1, <2>2, <2>3, <3>1
    <3>2. CASE i \in 1..(Len(wQueue) - Excess)
      <4>1. Excess + i \in 1..Len(wQueue) /\ wQueue'[i] = wQueue[Excess + i]
        BY <1>0, <2>3, <3>2
      <4>2. wQueue[Excess + i].id = pushed - Len(wQueue) + (Excess + i)
        BY <4>1 DEF ItemsKept
      <4>3. pushed - Len(wQueue) + (Excess + i) = (pushed + 1) - (Len(wQueue) + 1 - Excess) + i
        BY <1>0, <2>3, <3>2
      <4> QED
        BY <2>2, <2>3, <4>1, <4>2, <4>3
    <3> QED
      BY <1>0, <2>3, <3>1, <3>2
  <2>6. ASSUME NEW id \in 1..pushed'
        PROVE  \/ GivenOrOverrun(id)'
               \/ \E i \in 1..Len(rQueue') : rQueue'[i].id = id
               \/ \E i \in 1..Len(wQueue') : wQueue'[i].id = id
    <3>1. CASE id = pushed + 1
      <4>1. Len(wQueue) + 1 - Excess \in 1..Len(wQueue')
        BY <1>0, <2>3
      <4> QED
        BY <2>1, <2>3, <3>1, <4>1
    <3>2. CASE id \in 1..pushed /\ GivenOrOverrun(id)
      <4>1. id + MaxQueueSize <= pushed => id + MaxQueueSize <= pushed + 1
        BY <1>0, <3>2
      <4> QED
        BY <2>2, <3>2, <4>1 DEF GivenOrOverrun, Ids
    <3>3. CASE \E i \in 1..Len(rQueue) : rQueue[i].id = id
      BY <2>2, <3>3
    <3>4. CASE \E i \in 1..Len(wQueue) : wQueue[i].id = id
      <4>1. PICK i \in 1..Len(wQueue) : wQueue[i].id = id
        BY <3>4
      <4>2. CASE i > Excess
        <5>1. i - Excess \in 1..(Len(wQueue) - Excess) /\ i - Excess \in 1..Len(wQueue')
          BY <1>0, <2>3, <4>2
        <5>2. wQueue'[i - Excess] = wQueue[Excess + (i - Excess)]
          BY <2>3, <5>1
        <5>3. Excess + (i - Excess) = i
          BY <1>0, <2>3
        <5> QED
          BY <4>1, <5>1, <5>2, <5>3
      <4>3. CASE ~(i > Excess)
        <5>1. Excess = 1 /\ i = 1
          BY <1>0, <2>3, <4>3
        <5>2. id = pushed - MaxQueueSize + 1
          BY <2>4, <4>1, <5>1 DEF ItemsKept
        <5>3. id + MaxQueueSize <= pushed + 1
          BY <1>0, <5>2
        <5> QED
          BY <2>2, <5>3 DEF GivenOrOverrun
      <4> QED
        BY <4>2, <4>3
    <3> QED
      BY <1>0, <2>2, <3>1, <3>2, <3>3, <3>4 DEF ItemsKept
  <2> QED
    BY <2>5, <2>6 DEF ItemsKept
<1>2. ASSUME UNCHANGED <<wQueue, rQueue, delivered, pushed>>
      PROVE  ItemsKept'
  BY <1>2 DEF ItemsKept, GivenOrOverrun
<1>3. ASSUME NEW p \in Producers, ProducerStep(p)
      PROVE  ItemsKept'
  BY <1>2, <1>3 DEF ProducerStep, Count, Notify, FlushCheck, FlushTimeout
<1>4. CASE Destroy \/ UNCHANGED vars
  BY <1>2, <1>4 DEF Destroy, vars
<1>5. CASE WorkerCheck \/ WorkerTimeout \/ WorkerLock \/ WorkerAnnounce \/ WorkerLoop
  BY <1>2, <1>5 DEF WorkerCheck, WorkerTimeout, WorkerLock, WorkerAnnounce, WorkerLoop
<1>6. CASE WorkerSwap
  <2>1. rQueue = <<>> /\ rQueue' = wQueue /\ wQueue' = <<>> /\ UNCHANGED <<delivered, pushed>>
    BY <1>6 DEF WorkerSwap, Swap, TypeInv, BatchInv
  <2>2. Len(<<>>) = 0
    BY EmptySeq
  <2> QED
    BY <2>1, <2>2 DEF ItemsKept, GivenOrOverrun
<1>7. CASE WorkerSend
  <2>1. /\ rQueue # <<>> /\ rQueue' = Tail(rQueue) /\ delivered' = Append(delivered, Head(rQueue))
        /\ UNCHANGED <<wQueue, pushed>>
    BY <1>7 DEF WorkerSend
  <2>2. /\ Len(rQueue) >= 1 /\ Head(rQueue) = rQueue[1] /\ Head(rQueue) \in Items
        /\ Len(rQueue') = Len(rQueue) - 1 /\ \A j \in 1..Len(rQueue') : rQueue'[j] = rQueue[j + 1]
    BY <1>0, <2>1, EmptySeq, HeadTailProperties, ElementOfSeq
  <2>3. /\ Len(delivered') = Len(delivered) + 1 /\ delivered'[Len(delivered) + 1] = Head(rQueue)
        /\ \A i \in 1..Len(delivered) : delivered'[i] = delivered[i]
        /\ DOMAIN delivered = 1..Len(delivered) /\ DOMAIN delivered' = 1..Len(delivered')
    BY <1>0, <2>1, <2>2, AppendProperties
  <2>4. Ids(delivered) \subseteq Ids(delivered') /\ Head(rQueue).id \in Ids(delivered')
    BY <1>0, <2>3 DEF Ids
  <2>5. ASSUME NEW id \in 1..pushed
        PROVE  \/ GivenOrOverrun(id)'
               \/ \E i \in 1..Len(rQueue') : rQueue'[i].id = id
               \/ \E i \in 1..Len(wQueue) : wQueue[i].id = id
    <3>1. CASE GivenOrOverrun(id)
      BY <2>1, <2>4, <3>1 DEF GivenOrOverrun, Ids
    <3>2. CASE \E i \in 1..Len(rQueue) : rQueue[i].id = id
      <4>1. PICK i \in 1..Len(rQueue) : rQueue[i].id = id
        BY <3>2
      <4>2. CASE i = 1
        BY <2>2, <2>4, <4>1, <4>2 DEF GivenOrOverrun, Ids
      <4>3. CASE i # 1
        <5>1. i - 1 \in 1..Len(rQueue') /\ rQueue'[i - 1] = rQueue[(i - 1) + 1] /\ (i - 1) + 1 = i
          BY <1>0, <2>2, <4>3
        <5> QED
          BY <4>1, <5>1
      <4> QED
        BY <4>2, <4>3
    <3> QED
      BY <3>1, <3>2 DEF ItemsKept
  <2> QED
    BY <2>1, <2>5 DEF ItemsKept
<1> QED
  BY <1>1, <1>3, <1>4, <1>5, <1>6, <1>7 DEF Next, WorkerStep, Terminated

\* When flush() answers true and no other call is between its two critical sections, all
\* that was pushed has been given to the sinks, save what an overflow has discarded.
THEOREM FlushDrainsCorrect == Spec => FlushDrains
<1>1. ASSUME TypeInv, PendingAccounting, ItemsKept, Next, NEW p \in Producers,
             answer[p] = "none", answer'[p] = "true",
             \A q \in Producers : pc[q] # "count"
      PROVE  /\ wQueue = <<>> /\ rQueue = <<>>
             /\ \A id \in 1..pushed : GivenOrOverrun(id)
  <2>1. answer \in [Producers -> {"none", "true", "false"}]
    BY <1>1 DEF TypeInv, TypeOK
  <2>2. PICK q \in Producers : FlushCheck(q) \/ FlushTimeout(q)
    <3>1. CASE \E q \in Producers, kind \in Kinds : Push(q, kind)
      BY <1>1, <2>1, <3>1 DEF Push
    <3>2. CASE \E q \in Producers : ProducerStep(q)
      BY <1>1, <3>2 DEF ProducerStep, Count, Notify, history
    <3>3. CASE Destroy \/ WorkerStep \/ Terminated
      BY <1>1, <3>3 DEF Destroy, WorkerStep, Terminated, WorkerCheck, WorkerTimeout,
         WorkerSwap, WorkerLock, WorkerSend, WorkerAnnounce, WorkerLoop, history, vars
    <3> QED
      BY <1>1, <3>1, <3>2, <3>3 DEF Next
  <2>3. RFree /\ ~stop
    BY <1>1, <2>2 DEF FlushCheck, FlushTimeout, TypeInv, BatchInv
  <2>4. pending = 0
    BY <1>1, <2>1, <2>2 DEF FlushCheck, FlushTimeout, Return
  <2>5. wQueue = <<>> /\ rQueue = <<>>
    BY <1>1, <2>3, <2>4, NothingPending
  <2> QED
    BY <1>1, <2>5, EmptySeq DEF ItemsKept
<1>2. TypeInv /\ PendingAccounting /\ ItemsKept /\ [Next]_vars
        => [\A p \in Producers :
              answer[p] = "none" /\ answer'[p] = "true"
                  /\ (\A q \in Producers : pc[q] # "count")
              => /\ wQueue = <<>> /\ rQueue = <<>>
                 /\ \A id \in 1..pushed : GivenOrOverrun(id)]_vars
  BY <1>1
<1>3. TypeInv /\ PendingAccounting /\ ItemsKept /\ [Next]_vars
        => (TypeInv /\ PendingAccounting /\ ItemsKept)'
  BY TypeStep, AccountingStep, KeptStep
<1> QED
  BY TypeInit, AccountingInit, KeptInit, <1>2, <1>3, PTL DEF Spec, FlushDrains

-----------------------------------------------------------------------------
(***************************************************************************)
(* The logger implements the channel (safety).                             *)
(***************************************************************************)
LEMMA ConcatAppend ==
    ASSUME NEW S, NEW a \in Seq(S), NEW b \in Seq(S), NEW x \in S
    PROVE  a \o Append(b, x) = Append(a \o b, x)
<1>1. Append(b, x) = b \o <<x>> /\ <<x>> \in Seq(S)
  BY AppendIsConcat
<1>2. a \o b \in Seq(S)
  BY ConcatProperties
<1>3. Append(a \o b, x) = (a \o b) \o <<x>>
  BY <1>2, AppendIsConcat
<1> QED
  BY <1>1, <1>3, ConcatAssociative

LEMMA ConcatTail ==
    ASSUME NEW S, NEW a \in Seq(S), NEW b \in Seq(S), a # <<>>
    PROVE  /\ a \o b # <<>>
           /\ Head(a \o b) = Head(a)
           /\ Tail(a \o b) = Tail(a) \o b
<1> DEFINE ab == a \o b
           t == Tail(a)
<1>1. /\ Len(a) \in Nat \ {0} /\ Len(b) \in Nat
      /\ t \in Seq(S) /\ Len(t) = Len(a) - 1
      /\ \A i \in 1..Len(t) : t[i] = a[i + 1]
  BY LenProperties, EmptySeq, HeadTailProperties
<1>2. /\ ab \in Seq(S) /\ Len(ab) = Len(a) + Len(b)
      /\ \A i \in 1..(Len(a) + Len(b)) :
            ab[i] = IF i <= Len(a) THEN a[i] ELSE b[i - Len(a)]
  BY ConcatProperties
<1>3. /\ t \o b \in Seq(S) /\ Len(t \o b) = Len(t) + Len(b)
      /\ \A i \in 1..(Len(t) + Len(b)) :
            (t \o b)[i] = IF i <= Len(t) THEN t[i] ELSE b[i - Len(t)]
  BY <1>1, ConcatProperties
<1> HIDE DEF ab, t
<1>4. ab # <<>>
  BY <1>1, <1>2, EmptySeq
<1>5. /\ Tail(ab) \in Seq(S) /\ Len(Tail(ab)) = Len(ab) - 1
      /\ \A i \in 1..Len(Tail(ab)) : Tail(ab)[i] = ab[i + 1]
  BY <1>2, <1>4, HeadTailProperties
<1>6. \A i \in 1..Len(Tail(ab)) : Tail(ab)[i] = (t \o b)[i]
  BY <1>1, <1>2, <1>3, <1>5
<1>7. Tail(ab) = t \o b
  BY <1>1, <1>2, <1>3, <1>5, <1>6, SeqEqual
<1>8. Head(ab) = ab[1] /\ Head(a) = a[1]
  OBVIOUS
<1>9. ab[1] = a[1]
  BY <1>1, <1>2
<1> QED
  BY <1>4, <1>7, <1>8, <1>9 DEF ab, t

LEMMA ConcatDropFront ==
    ASSUME NEW S, NEW a \in Seq(S), NEW b \in Seq(S), b # <<>>
    PROVE  SubSeq(a \o b, 1, Len(a)) \o SubSeq(a \o b, Len(a) + 2, Len(a \o b))
              = a \o SubSeq(b, 2, Len(b))
<1> DEFINE ab == a \o b
           rest == SubSeq(b, 2, Len(b))
           left == SubSeq(ab, 1, Len(a))
           right == SubSeq(ab, Len(a) + 2, Len(ab))
<1>1. Len(a) \in Nat /\ Len(b) \in Nat \ {0}
  BY LenProperties, EmptySeq
<1>2. /\ ab \in Seq(S) /\ Len(ab) = Len(a) + Len(b)
      /\ \A i \in 1..(Len(a) + Len(b)) :
            ab[i] = IF i <= Len(a) THEN a[i] ELSE b[i - Len(a)]
  BY ConcatProperties
<1> HIDE DEF ab
<1>3. /\ rest \in Seq(S) /\ Len(rest) = Len(b) - 1
      /\ \A i \in 1..(Len(b) - 1) : rest[i] = b[1 + i]
  <2>1. /\ SubSeq(b, 1 + 1, Len(b)) \in Seq(S)
        /\ Len(SubSeq(b, 1 + 1, Len(b))) = Len(b) - 1
        /\ \A i \in 1..(Len(b) - 1) : SubSeq(b, 1 + 1, Len(b))[i] = b[1 + i]
    <3>1. 1 \in Nat /\ 1 <= Len(b)
      BY <1>1
    <3> QED
      BY <3>1, DropFront, Zenon
  <2> QED
    BY <2>1
<1>4. /\ right \in Seq(S) /\ Len(right) = Len(b) - 1
      /\ \A i \in 1..(Len(b) - 1) : right[i] = ab[Len(a) + 1 + i]
  <2>1. Len(a) + 1 \in Nat /\ Len(a) + 1 <= Len(ab) /\ (Len(a) + 1) + 1 = Len(a) + 2
    BY <1>1, <1>2
  <2>2. /\ SubSeq(ab, (Len(a) + 1) + 1, Len(ab)) \in Seq(S)
        /\ Len(SubSeq(ab, (Len(a) + 1) + 1, Len(ab))) = Len(ab) - (Len(a) + 1)
        /\ \A i \in 1..(Len(ab) - (Len(a) + 1)) :
              SubSeq(ab, (Len(a) + 1) + 1, Len(ab))[i] = ab[(Len(a) + 1) + i]
    BY <1>2, <2>1, DropFront
  <2> QED
    BY <1>1, <1>2, <2>1, <2>2
<1> HIDE DEF rest, right
<1>5. right = rest
  <2>1. ASSUME NEW i \in 1..Len(right)
        PROVE  right[i] = rest[i]
    <3>1. i \in 1..(Len(b) - 1) /\ Len(a) + 1 + i \in 1..(Len(a) + Len(b))
      BY <1>1, <1>4
    <3>2. ab[Len(a) + 1 + i] = b[Len(a) + 1 + i - Len(a)]
      BY <1>1, <1>2, <3>1
    <3>3. Len(a) + 1 + i - Len(a) = 1 + i
      BY <1>1, <3>1
    <3> QED
      BY <1>3, <1>4, <3>1, <3>2, <3>3
  <2> QED
    BY <1>3, <1>4, <2>1, SeqEqual
<1>6. left = a
  <2>1. \A i \in 1..Len(a) : ab[i] \in S /\ ab[i] = a[i]
    BY <1>1, <1>2, ElementOfSeq
  <2>2. /\ left \in Seq(S)
        /\ Len(left) = IF 1 <= Len(a) THEN Len(a) - 1 + 1 ELSE 0
        /\ \A i \in 1..(Len(a) - 1 + 1) : left[i] = ab[1 + i - 1]
    BY <1>1, <2>1, SubSeqProperties
  <2> HIDE DEF left
  <2>3. Len(left) = Len(a) /\ \A i \in 1..Len(left) : left[i] = a[i]
    BY <1>1, <2>1, <2>2
  <2> QED
    BY <2>2, <2>3, SeqEqual
<1> QED
  BY <1>5, <1>6 DEF ab, rest, left, right

LEMMA ChannelInit == Init => Channel!Init
<1> SUFFICES ASSUME Init PROVE Channel!Init
  OBVIOUS
<1>1. <<>> \o <<>> = <<>>
  BY EmptySeq, ConcatEmptySeq
<1> QED
  BY <1>1 DEF Init, Channel!Init

LEMMA ChannelStep == TypeInv /\ [Next]_vars => [Channel!Next]_(Channel!chanVars)
<1> SUFFICES ASSUME TypeInv, [Next]_vars
             PROVE  Channel!Next \/ UNCHANGED Channel!chanVars
  OBVIOUS
<1> USE DEF queues, history
<1>0. /\ wQueue \in Seq(Items) /\ rQueue \in Seq(Items)
      /\ Len(wQueue) \in Nat /\ Len(rQueue) \in Nat
      /\ Len(wQueue) <= MaxQueueSize
      /\ rQueue \o wQueue \in Seq(Items)
      /\ Len(rQueue \o wQueue) = Len(rQueue) + Len(wQueue)
  BY LenProperties, ConcatProperties DEF TypeInv, TypeOK
<1>1. ASSUME NEW p \in Producers, NEW kind \in Kinds, Push(p, kind)
      PROVE  Channel!Next
  <2> DEFINE item == [what |-> kind, id |-> pushed + 1]
  <2>1. item \in Items
    BY DEF Items, TypeInv, TypeOK
  <2>2. Excess \in {0, 1} /\ Excess <= Len(wQueue)
    BY <1>0, <2>1, EnqueueType
  <2>3. /\ ~stop /\ UNCHANGED <<delivered, stop, rQueue>>
        /\ pushed' = pushed + 1
        /\ wQueue' = Append(SubSeq(wQueue, Excess + 1, Len(wQueue)), item)
    BY <1>1 DEF Push, Enqueue
  <2>4. item = Channel!Item(kind)
    BY DEF Channel!Item
  <2> HIDE DEF item
  <2>5. CASE Excess = 0
    <3>1. wQueue' = Append(wQueue, item)
      <4>1. SubSeq(wQueue, 1, Len(wQueue)) = wQueue
        BY <1>0, SubSeqFull
      <4> QED
        BY <2>3, <2>5, <4>1
    <3>2. rQueue' \o wQueue' = Append(rQueue \o wQueue, item)
      <4>1. rQueue \o Append(wQueue, item) = Append(rQueue \o wQueue, item)
        BY <1>0, <2>1, ConcatAppend
      <4>2. rQueue' = rQueue
        BY <2>3
      <4> QED
        BY <3>1, <4>1, <4>2
    <3>3. Channel!Send(kind)
      BY <2>3, <2>4, <3>2 DEF Channel!Send
    <3> QED
      BY <3>3 DEF Channel!Next
  <2>6. CASE Excess = 1
    <3> DEFINE rest == SubSeq(wQueue, 2, Len(wQueue))
               i == Len(rQueue) + 1
    <3>1. Len(wQueue) >= MaxQueueSize /\ wQueue # <<>>
      BY <1>0, <2>6 DEF Excess
    <3>2. rest \in Seq(Items)
      <4>1. SubSeq(wQueue, 1 + 1, Len(wQueue)) \in Seq(Items)
        BY <1>0, <2>2, <2>6, DropFront
      <4> QED
        BY <4>1
    <3>3. wQueue' = Append(rest, item)
      BY <2>3, <2>6
    <3>4. rQueue \o rest = SubSeq(rQueue \o wQueue, 1, Len(rQueue))
                             \o SubSeq(rQueue \o wQueue, Len(rQueue) + 2, Len(rQueue \o wQueue))
      BY <1>0, <3>1, ConcatDropFront
    <3> HIDE DEF rest
    <3>5. rQueue' \o wQueue' = Append(rQueue \o rest, item)
      <4>1. rQueue \o Append(rest, item) = Append(rQueue \o rest, item)
        BY <1>0, <2>1, <3>2, ConcatAppend
      <4>2. rQueue' = rQueue
        BY <2>3
      <4> QED
        BY <3>3, <4>1, <4>2
    <3>6. i \in 1..Len(rQueue \o wQueue) /\ Len(rQueue \o wQueue) >= MaxQueueSize
      BY <1>0, <2>2, <2>6, <3>1
    <3>7. i - 1 = Len(rQueue) /\ i + 1 = Len(rQueue) + 2
      BY <1>0
    <3> HIDE DEF i
    <3>8. Channel!SendAndLose(kind, i)
      BY <2>3, <2>4, <3>4, <3>5, <3>6, <3>7 DEF Channel!SendAndLose
    <3> QED
      BY <3>6, <3>8 DEF Channel!Next
  <2> QED
    BY <2>2, <2>5, <2>6
<1>2. ASSUME UNCHANGED <<wQueue, rQueue, delivered, pushed, stop>>
      PROVE  UNCHANGED Channel!chanVars
  BY <1>2 DEF Channel!chanVars
<1>3. ASSUME NEW p \in Producers, ProducerStep(p)
      PROVE  UNCHANGED Channel!chanVars
  BY <1>2, <1>3 DEF ProducerStep, Count, Notify, FlushCheck, FlushTimeout
<1>4. CASE Destroy
  BY <1>4 DEF Destroy, Channel!Next, Channel!Close
<1>5. CASE WorkerCheck \/ WorkerTimeout \/ WorkerLock \/ WorkerAnnounce \/ WorkerLoop
  BY <1>2, <1>5 DEF WorkerCheck, WorkerTimeout, WorkerLock, WorkerAnnounce, WorkerLoop
<1>6. CASE WorkerSwap
  <2>1. rQueue = <<>> /\ rQueue' = wQueue /\ wQueue' = <<>>
    BY <1>6 DEF WorkerSwap, Swap, TypeInv, BatchInv
  <2>2. rQueue' \o wQueue' = rQueue \o wQueue
    BY <1>0, <2>1, ConcatEmptySeq
  <2> QED
    BY <1>6, <2>2 DEF WorkerSwap, Channel!chanVars
<1>7. CASE WorkerSend
  <2>1. /\ rQueue # <<>> /\ rQueue' = Tail(rQueue) /\ wQueue' = wQueue
        /\ delivered' = Append(delivered, Head(rQueue))
        /\ UNCHANGED <<pushed, stop>>
    BY <1>7 DEF WorkerSend
  <2>2. /\ rQueue \o wQueue # <<>>
        /\ Head(rQueue \o wQueue) = Head(rQueue)
        /\ Tail(rQueue \o wQueue) = Tail(rQueue) \o wQueue
    BY <1>0, <2>1, ConcatTail
  <2>3. Channel!Deliver
    BY <2>1, <2>2 DEF Channel!Deliver
  <2> QED
    BY <2>3 DEF Channel!Next
<1>8. CASE UNCHANGED vars
  BY <1>2, <1>8 DEF vars
<1> QED
  BY <1>1, <1>3, <1>4, <1>5, <1>6, <1>7, <1>8 DEF Next, WorkerStep, Terminated, vars

\* The two queues together are a bounded channel that keeps the order of the
\* records: every step of the logger is a step of LogChannel or none.
THEOREM ChannelImplemented == Spec => Channel!Spec
<1>1. Spec => []TypeInv
  BY TypeInit, TypeStep, PTL DEF Spec
<1> QED
  BY ChannelInit, ChannelStep, <1>1, PTL DEF Spec, Channel!Spec

-----------------------------------------------------------------------------
(***************************************************************************)
(* What the refinement is for: the order of the records and their number   *)
(* are proved of the channel, and hold of the logger because it is one.    *)
(***************************************************************************)
Queued == rQueue \o wQueue

Ascending(q) == \A i, j \in 1..Len(q) : i < j => q[i].id < q[j].id

\* What has reached the sinks was pushed before what waits, and each of the two is in
\* the order of the pushes.
PushOrder ==
    /\ Ascending(delivered)
    /\ Ascending(Queued)
    /\ \A i \in 1..Len(delivered), j \in 1..Len(Queued) : delivered[i].id < Queued[j].id
    /\ \A i \in 1..Len(delivered) : delivered[i].id <= pushed
    /\ \A j \in 1..Len(Queued) : Queued[j].id <= pushed

\* What was pushed is queued or has reached the sinks, as long as it has always fitted
\* into one queue.
NothingLostWithRoom == pushed <= MaxQueueSize => Len(delivered) + Len(Queued) = pushed

OrderInv == PushOrder /\ NothingLostWithRoom

ChannelTypes == delivered \in Seq(Items) /\ Queued \in Seq(Items) /\ pushed \in Nat

LEMMA TypesOfChannel == TypeOK => ChannelTypes
<1> SUFFICES ASSUME TypeOK PROVE ChannelTypes
  OBVIOUS
<1>1. rQueue \in Seq(Items) /\ wQueue \in Seq(Items) /\ delivered \in Seq(Items) /\ pushed \in Nat
  BY DEF TypeOK
<1> QED
  BY <1>1, ConcatProperties DEF ChannelTypes, Queued

LEMMA IdsAreNumbers ==
    ASSUME ChannelTypes
    PROVE  /\ \A i \in 1..Len(delivered) : delivered[i].id \in Nat
           /\ \A j \in 1..Len(Queued) : Queued[j].id \in Nat
<1>1. \A item \in Items : item.id \in Nat
  BY DEF Items
<1>2. \A i \in 1..Len(delivered) : delivered[i] \in Items
  BY ElementOfSeq DEF ChannelTypes
<1>3. \A j \in 1..Len(Queued) : Queued[j] \in Items
  BY ElementOfSeq DEF ChannelTypes
<1> QED
  BY <1>1, <1>2, <1>3

LEMMA OrderInit == Channel!Init => OrderInv
<1> SUFFICES ASSUME Channel!Init PROVE OrderInv
  OBVIOUS
<1>1. Queued = <<>> /\ delivered = <<>> /\ pushed = 0
  BY DEF Channel!Init, Queued
<1>2. Len(Queued) = 0 /\ Len(delivered) = 0
  BY <1>1
<1> QED
  BY <1>1, <1>2 DEF OrderInv, PushOrder, Ascending, NothingLostWithRoom

\* One item is added behind those that wait, of which some may go.
LEMMA OrderSend ==
    ASSUME ChannelTypes, PushOrder, pushed' = pushed + 1, delivered' = delivered,
           NEW rest \in Seq(Items), NEW kind \in Kinds,
           Queued' = Append(rest, Channel!Item(kind)),
           NEW before \in [1..Len(rest) -> 1..Len(Queued)],
           \A j \in 1..Len(rest) : rest[j] = Queued[before[j]],
           \A i, j \in 1..Len(rest) : i < j => before[i] < before[j]
    PROVE  PushOrder'
<1> DEFINE new == Channel!Item(kind)
<1>1. Len(rest) \in Nat /\ Len(Queued) \in Nat /\ Len(delivered) \in Nat /\ pushed \in Nat
  BY LenProperties DEF ChannelTypes
<1>2. new \in Items /\ new.id = pushed + 1
  BY <1>1 DEF Channel!Item, Items
<1> HIDE DEF new
<1>3. /\ Len(Queued') = Len(rest) + 1
      /\ \A i \in 1..Len(rest) : Queued'[i] = rest[i]
      /\ Queued'[Len(rest) + 1] = new
  BY <1>2, AppendProperties DEF new
<1>4. \A j \in 1..Len(Queued) : Queued[j].id \in Nat /\ Queued[j].id <= pushed
  BY IdsAreNumbers DEF PushOrder
<1>5. \A i \in 1..Len(delivered) : delivered[i].id \in Nat /\ delivered[i].id <= pushed
  BY IdsAreNumbers DEF PushOrder
<1>6. ASSUME NEW i \in 1..Len(Queued'), NEW j \in 1..Len(Queued'), i < j
      PROVE  Queued'[i].id < Queued'[j].id
  <2>1. i \in 1..Len(rest) /\ Queued'[i] = Queued[before[i]] /\ before[i] \in 1..Len(Queued)
    BY <1>1, <1>3, <1>6
  <2>2. CASE j = Len(rest) + 1
    BY <1>1, <1>2, <1>3, <1>4, <2>1, <2>2
  <2>3. CASE j \in 1..Len(rest)
    <3>1. Queued'[j] = Queued[before[j]] /\ before[j] \in 1..Len(Queued) /\ before[i] < before[j]
      BY <1>3, <1>6, <2>1, <2>3
    <3> QED
      BY <2>1, <3>1 DEF PushOrder, Ascending
  <2> QED
    BY <1>1, <1>3, <2>2, <2>3
<1>7. ASSUME NEW j \in 1..Len(Queued')
      PROVE  /\ Queued'[j].id <= pushed'
             /\ \A i \in 1..Len(delivered) : delivered[i].id < Queued'[j].id
  <2>1. CASE j = Len(rest) + 1
    <3>1. Queued'[j].id = pushed + 1
      BY <1>2, <1>3, <2>1
    <3>2. \A i \in 1..Len(delivered) : delivered[i].id < pushed + 1
      BY <1>1, <1>5
    <3>3. pushed + 1 <= pushed'
      BY <1>1
    <3> QED
      BY <3>1, <3>2, <3>3
  <2>2. CASE j \in 1..Len(rest)
    <3>1. Queued'[j] = Queued[before[j]] /\ before[j] \in 1..Len(Queued)
      BY <1>3, <2>2
    <3> QED
      BY <1>1, <1>4, <3>1 DEF PushOrder
  <2> QED
    BY <1>1, <1>3, <2>1, <2>2
<1>8. \A i \in 1..Len(delivered) : delivered[i].id <= pushed'
  BY <1>1, <1>5
<1> QED
  BY <1>6, <1>7, <1>8 DEF PushOrder, Ascending

LEMMA OrderStep ==
    ASSUME ChannelTypes, ChannelTypes', OrderInv, [Channel!Next]_(Channel!chanVars)
    PROVE  OrderInv'
<1>1. Len(Queued) \in Nat /\ Len(delivered) \in Nat /\ pushed \in Nat /\ MaxQueueSize \in Nat
  BY LenProperties DEF ChannelTypes
<1>2. ASSUME NEW kind \in Kinds, Channel!Send(kind)
      PROVE  OrderInv'
  <2>1. Queued' = Append(Queued, Channel!Item(kind)) /\ pushed' = pushed + 1 /\ delivered' = delivered
    BY <1>2 DEF Channel!Send, Queued
  <2>2. PushOrder'
    <3> DEFINE same == [j \in 1..Len(Queued) |-> j]
    <3>1. /\ same \in [1..Len(Queued) -> 1..Len(Queued)]
          /\ \A j \in 1..Len(Queued) : Queued[j] = Queued[same[j]]
      OBVIOUS
    <3>2. \A i, j \in 1..Len(Queued) : i < j => same[i] < same[j]
      OBVIOUS
    <3> HIDE DEF same
    <3> QED
      BY <2>1, <3>1, <3>2, OrderSend DEF OrderInv, ChannelTypes
  <2>3. Len(Queued') = Len(Queued) + 1
    BY <2>1, <1>1, AppendProperties DEF ChannelTypes, Channel!Item, Items
  <2> QED
    BY <1>1, <2>1, <2>2, <2>3 DEF OrderInv, NothingLostWithRoom
<1>3. ASSUME NEW kind \in Kinds, NEW i \in 1..Len(Queued), Channel!SendAndLose(kind, i)
      PROVE  OrderInv'
  <2> DEFINE front == SubSeq(Queued, 1, i - 1)
             back == SubSeq(Queued, i + 1, Len(Queued))
             rest == front \o back
             before == [j \in 1..Len(Queued) - 1 |-> IF j < i THEN j ELSE j + 1]
  <2>1. /\ Len(Queued) >= MaxQueueSize
        /\ Queued' = Append(rest, Channel!Item(kind)) /\ pushed' = pushed + 1 /\ delivered' = delivered
    BY <1>3 DEF Channel!SendAndLose, Queued
  <2>2. front \in Seq(Items) /\ Len(front) = i - 1 /\ \A j \in 1..i - 1 : front[j] = Queued[j]
    BY <1>1 DEF ChannelTypes
  <2>3. /\ back \in Seq(Items) /\ Len(back) = Len(Queued) - i
        /\ \A j \in 1..Len(Queued) - i : back[j] = Queued[i + j]
    BY <1>1, DropFront DEF ChannelTypes
  <2> HIDE DEF front, back
  <2>4. /\ rest \in Seq(Items) /\ Len(rest) = Len(Queued) - 1
        /\ \A j \in 1..Len(Queued) - 1 : rest[j] = Queued[before[j]]
    <3>1. /\ rest \in Seq(Items) /\ Len(rest) = Len(front) + Len(back)
          /\ \A j \in 1..(Len(front) + Len(back)) :
                rest[j] = IF j <= Len(front) THEN front[j] ELSE back[j - Len(front)]
      BY <2>2, <2>3, ConcatProperties
    <3> QED
      BY <1>1, <2>2, <2>3, <3>1
  <2> HIDE DEF rest
  <2>5. PushOrder'
    <3>1. /\ before \in [1..Len(rest) -> 1..Len(Queued)]
          /\ \A j \in 1..Len(rest) : rest[j] = Queued[before[j]]
      BY <1>1, <2>4
    <3>2. \A j, k \in 1..Len(rest) : j < k => before[j] < before[k]
      BY <1>1, <2>4
    <3> HIDE DEF before
    <3> QED
      BY <2>1, <2>4, <3>1, <3>2, OrderSend DEF OrderInv
  <2>6. NothingLostWithRoom'
    BY <1>1, <2>1 DEF OrderInv, NothingLostWithRoom
  <2> QED
    BY <2>5, <2>6 DEF OrderInv
<1>4. CASE Channel!Deliver
  <2>1. /\ Queued # <<>> /\ delivered' = Append(delivered, Head(Queued)) /\ Queued' = Tail(Queued)
        /\ pushed' = pushed
    BY <1>4 DEF Channel!Deliver, Queued
  <2>2. /\ Len(Queued) >= 1 /\ Head(Queued) = Queued[1] /\ Head(Queued) \in Items
        /\ Len(Queued') = Len(Queued) - 1 /\ \A j \in 1..Len(Queued') : Queued'[j] = Queued[j + 1]
    BY <1>1, <2>1, EmptySeq, HeadTailProperties, ElementOfSeq DEF ChannelTypes
  <2>3. /\ Len(delivered') = Len(delivered) + 1 /\ delivered'[Len(delivered) + 1] = Queued[1]
        /\ \A i \in 1..Len(delivered) : delivered'[i] = delivered[i]
    BY <2>1, <2>2, AppendProperties DEF ChannelTypes
  <2>4. Ascending(delivered')
    <3>1. \A i \in 1..Len(delivered) : delivered[i].id < Queued[1].id
      BY <1>1, <2>2 DEF OrderInv, PushOrder
    <3>2. \A i, j \in 1..Len(delivered) : i < j => delivered[i].id < delivered[j].id
      BY DEF OrderInv, PushOrder, Ascending
    <3>3. ASSUME NEW i \in 1..Len(delivered'), NEW j \in 1..Len(delivered'), i < j
          PROVE  delivered'[i].id < delivered'[j].id
      <4>1. i \in 1..Len(delivered) /\ (j \in 1..Len(delivered) \/ j = Len(delivered) + 1)
        BY <1>1, <2>3, <3>3
      <4> QED
        BY <2>3, <3>1, <3>2, <3>3, <4>1
    <3> QED
      BY <3>3 DEF Ascending
  <2>5. Ascending(Queued')
    <3>1. \A i, j \in 1..Len(Queued) : i < j => Queued[i].id < Queued[j].id
      BY DEF OrderInv, PushOrder, Ascending
    <3>2. ASSUME NEW i \in 1..Len(Queued'), NEW j \in 1..Len(Queued'), i < j
          PROVE  Queued'[i].id < Queued'[j].id
      <4>1. i + 1 \in 1..Len(Queued) /\ j + 1 \in 1..Len(Queued) /\ i + 1 < j + 1
        BY <1>1, <2>2, <3>2
      <4>2. Queued'[i] = Queued[i + 1] /\ Queued'[j] = Queued[j + 1]
        BY <2>2
      <4> QED
        BY <3>1, <4>1, <4>2
    <3> QED
      BY <3>2 DEF Ascending
  <2>6. ASSUME NEW i \in 1..Len(delivered'), NEW j \in 1..Len(Queued')
        PROVE  delivered'[i].id < Queued'[j].id
    BY <1>1, <2>2, <2>3 DEF OrderInv, PushOrder, Ascending
  <2>7. /\ \A i \in 1..Len(delivered') : delivered'[i].id <= pushed'
        /\ \A j \in 1..Len(Queued') : Queued'[j].id <= pushed'
    BY <1>1, <2>1, <2>2, <2>3 DEF OrderInv, PushOrder
  <2>8. PushOrder'
    BY <2>4, <2>5, <2>6, <2>7 DEF PushOrder, Ascending
  <2>9. NothingLostWithRoom'
    BY <1>1, <2>1, <2>2, <2>3 DEF OrderInv, NothingLostWithRoom
  <2> QED
    BY <2>8, <2>9 DEF OrderInv
<1>5. CASE Channel!Close \/ UNCHANGED Channel!chanVars
  <2>1. Queued' = Queued /\ delivered' = delivered /\ pushed' = pushed
    BY <1>5 DEF Channel!Close, Channel!chanVars, Queued
  <2> QED
    BY <2>1 DEF OrderInv, PushOrder, Ascending, NothingLostWithRoom
<1> QED
  BY <1>2, <1>3, <1>4, <1>5 DEF Channel!Next, Queued

\* The sinks get the records in the order in which they were pushed and none twice,
\* however the two queues are swapped and whatever an overflow takes from them; and
\* nothing is lost before more has been pushed than one queue holds.
THEOREM RecordsInPushOrder == Spec => [](PushOrder /\ NothingLostWithRoom)
<1>1. Spec => []TypeInv
  BY TypeInit, TypeStep, PTL DEF Spec
<1>2. TypeInv => ChannelTypes
  BY TypesOfChannel DEF TypeInv
<1>3. Channel!Init => OrderInv
  BY OrderInit
<1>4. ChannelTypes /\ ChannelTypes' /\ OrderInv /\ [Channel!Next]_(Channel!chanVars) => OrderInv'
  BY OrderStep
<1>5. OrderInv => PushOrder /\ NothingLostWithRoom
  BY DEF OrderInv
<1> QED
  BY ChannelImplemented, <1>1, <1>2, <1>3, <1>4, <1>5, PTL DEF Channel!Spec

-----------------------------------------------------------------------------
(***************************************************************************)
(* Why calls return.  Liveness needs ENABLED; what can be proved is that   *)
(* nobody waits for somebody who has nothing left to do.                   *)
(***************************************************************************)

\* The worker has something to send whenever it holds a lock for it: what was queued
\* when it was told to go on still is.  So WorkerSend may leave out the test for an empty
\* queue that comes before the first round of the loop.
BatchNotEmpty ==
    /\ worker = "swap" => wQueue # <<>>
    /\ worker \in {"lock", "send"} => rQueue # <<>>

LEMMA BatchNotEmptyStep == TypeOK /\ BatchNotEmpty /\ [Next]_vars => BatchNotEmpty'
<1> SUFFICES ASSUME TypeOK, BatchNotEmpty, [Next]_vars PROVE BatchNotEmpty'
  OBVIOUS
<1> USE DEF BatchNotEmpty, queues, history
<1>1. ASSUME NEW p \in Producers, NEW kind \in Kinds, Push(p, kind) PROVE BatchNotEmpty'
  BY <1>1 DEF Push, WFree
<1>2. ASSUME NEW p \in Producers, ProducerStep(p) PROVE BatchNotEmpty'
  BY <1>2 DEF ProducerStep, Count, Notify, FlushCheck, FlushTimeout
<1>3. CASE Destroy
  BY <1>3 DEF Destroy
<1>4. CASE WorkerCheck \/ WorkerTimeout \/ WorkerAnnounce \/ WorkerLoop
  BY <1>4 DEF WorkerCheck, WorkerTimeout, WorkerAnnounce, WorkerLoop
<1>5. CASE WorkerSwap \/ WorkerLock
  BY <1>5 DEF WorkerSwap, Swap, WorkerLock
<1>6. CASE WorkerSend
  <2>1. CASE BatchEnds
    <3>1. worker' \in {"announce", "loop"}
      BY <1>6, <2>1 DEF WorkerSend
    <3> QED
      BY <3>1
  <2>2. CASE ~BatchEnds
    <3>1. worker' = "send" /\ rQueue' = Tail(rQueue) /\ rQueue # <<>> /\ Len(rQueue) # 1
      BY <1>6, <2>2 DEF WorkerSend, BatchEnds
    <3>2. rQueue \in Seq(Items) /\ Len(rQueue) \in Nat
      BY LenProperties DEF TypeOK
    <3>3. Tail(rQueue) \in Seq(Items) /\ Len(Tail(rQueue)) = Len(rQueue) - 1 /\ Len(rQueue) # 0
      BY <3>1, <3>2, HeadTailProperties, EmptySeq
    <3>4. Len(Tail(rQueue)) # 0
      BY <3>1, <3>2, <3>3
    <3>5. Tail(rQueue) # <<>>
      BY <3>3, <3>4, EmptySeq
    <3> QED
      BY <3>1, <3>5
  <2> QED
    BY <2>1, <2>2
<1>7. CASE UNCHANGED vars
  BY <1>7 DEF vars
<1> QED
  BY <1>1, <1>2, <1>3, <1>4, <1>5, <1>6, <1>7 DEF Next, WorkerStep, Terminated

\* The guards of ProducerStep.
ProducerReady(p) == pc[p] = "notify" \/ (pc[p] \in {"count", "check", "asleep"} /\ RFree)

\* A call has its next step, or the worker holds the lock it needs and has an item to send.
CallsGoOn ==
    \A p \in Producers :
        pc[p] # "ready" => ProducerReady(p) \/ (worker = "send" /\ rQueue # <<>>)

\* While the worker holds the lock, each of its steps is one item less.
SendStep == worker = "send" => Len(rQueue') = Len(rQueue) - 1 \/ UNCHANGED <<worker, rQueue>>
SendingEnds == [][SendStep]_vars

\* No call of the logger waits for a lock that is never released, whatever it asks for
\* and wherever the worker stands.
THEOREM NoCallIsStuck == Spec => []CallsGoOn /\ SendingEnds
<1>1. Init => BatchNotEmpty
  BY DEF Init, BatchNotEmpty
<1>2. TypeOK /\ BatchNotEmpty => CallsGoOn
  BY DEF TypeOK, BatchNotEmpty, CallsGoOn, ProducerReady, RFree, ProducerStates
<1>3. TypeOK /\ [Next]_vars => [SendStep]_vars
  <2> SUFFICES ASSUME TypeOK, Next, worker = "send"
               PROVE  Len(rQueue') = Len(rQueue) - 1 \/ UNCHANGED <<worker, rQueue>>
    BY DEF SendStep
  <2> USE DEF queues, history
  <2>1. ASSUME NEW p \in Producers, NEW kind \in Kinds, Push(p, kind) PROVE UNCHANGED <<worker, rQueue>>
    BY <2>1 DEF Push
  <2>2. ASSUME NEW p \in Producers, ProducerStep(p) PROVE UNCHANGED <<worker, rQueue>>
    BY <2>2 DEF ProducerStep, Count, Notify, FlushCheck, FlushTimeout
  <2>3. CASE Destroy \/ Terminated
    BY <2>3 DEF Destroy, Terminated, vars
  <2>4. CASE WorkerStep
    <3>1. rQueue # <<>> /\ rQueue' = Tail(rQueue) /\ rQueue \in Seq(Items)
      BY <2>4 DEF WorkerStep, WorkerCheck, WorkerTimeout, WorkerSwap, WorkerLock, WorkerSend,
                  WorkerAnnounce, WorkerLoop, TypeOK
    <3> QED
      BY <3>1, HeadTailProperties
  <2> QED
    BY <2>1, <2>2, <2>3, <2>4 DEF Next
<1> QED
  BY <1>1, <1>2, <1>3, BatchNotEmptyStep, TypeCorrect, PTL DEF Spec, SendingEnds
=============================================================================
