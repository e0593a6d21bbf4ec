---------------------------- MODULE AsyncLogger ----------------------------
(***************************************************************************)
(* The asynchronous logger of src/rtl-lib/logger/async_logger.cxx.         *)
(*                                                                         *)
(* Any number of producer threads call doWrite() and flush().  A call      *)
(* pushes an item to wQueue in one critical section (mutex W) and adjusts  *)
(* the counter of pending items in ANOTHER one (mutex R); flush() then     *)
(* waits for the counter to reach zero.  One worker thread swaps wQueue    *)
(* with rQueue and writes the batch to the sinks while it holds R.         *)
(*                                                                         *)
(* Mutexes are modelled by where they are held for longer than one step:   *)
(* W by the worker between its wake-up and the swap, R by the worker from  *)
(* the start to the end of sendToSinks().  Every other critical section is *)
(* a single action.                                                        *)
(***************************************************************************)
EXTENDS Integers, Sequences, FiniteSets

CONSTANTS
    Producers,      \* threads that log
    MaxQueueSize,   \* bound of wQueue
    MaxPushes       \* bound of the model: calls to doWrite() and flush()

ASSUME ProducersAssumption == IsFiniteSet(Producers)
ASSUME MaxQueueSizeAssumption == MaxQueueSize \in Nat \ {0}
ASSUME MaxPushesAssumption == MaxPushes \in Nat

VARIABLES
    wQueue,     \* m_wQueue, guarded by W
    rQueue,     \* m_rQueue, guarded by R
    pending,    \* m_pendingRecords, guarded by R
    pc,         \* where each producer stands in its call
    call,       \* the kind of item the producer's current call has pushed
    discarded,  \* the local variable "discarded" of that call
    worker,     \* where the worker stands in run()
    count,      \* the local variable "count" of sendToSinks()
    stop,       \* stop requested by the destructor of m_worker
    pushed,     \* history: number of items pushed so far, which names them
    delivered,  \* history: the items given to m_tee, in order
    ticket,     \* history: name of the item the producer pushed last
    answer      \* history: what the producer's last flush() returned

vars == <<wQueue, rQueue, pending, pc, call, discarded, worker, count, stop,
          pushed, delivered, ticket, answer>>

queues  == <<wQueue, rQueue>>
history == <<pushed, delivered, ticket, answer>>

(***************************************************************************)
(* A queued item: a record, an atomic group of records, or the empty       *)
(* record by which flush() asks for the sinks to be flushed.               *)
(***************************************************************************)
Kinds == {"record", "atomic", "flush"}
Items == [what : Kinds, id : Nat \ {0}]

ProducerStates == {"ready", "count", "notify", "check", "asleep"}
WorkerStates   == {"idle", "asleep", "swap", "lock", "send", "announce",
                   "loop", "done"}

\* doWrite(AtomicRecordPtr) and flush() always notify the worker.
UrgentFlush(kind) == kind = "flush"   \* mutant: an atomic group does not
Urgent(kind) == kind # "record"

Ids(queue) == {queue[i].id : i \in DOMAIN queue}

WFree == worker # "swap"
RFree == worker # "send"

Init ==
    /\ wQueue = <<>>
    /\ rQueue = <<>>
    /\ pending = 0
    /\ pc = [p \in Producers |-> "ready"]
    /\ call = [p \in Producers |-> "record"]
    /\ discarded = [p \in Producers |-> 0]
    /\ worker = "idle"
    /\ count = 0
    /\ stop = FALSE
    /\ pushed = 0
    /\ delivered = <<>>
    /\ ticket = [p \in Producers |-> 0]
    /\ answer = [p \in Producers |-> "none"]

-----------------------------------------------------------------------------
(***************************************************************************)
(* Producers.                                                              *)
(***************************************************************************)

\* How many items "while (size() + 1 > MaxQueueSize) pop()" removes.
Excess == IF Len(wQueue) + 1 > MaxQueueSize
            THEN Len(wQueue) + 1 - MaxQueueSize
            ELSE 0

\* wQueue after the oldest items have made room for the new one.
Enqueue(item) == Append(SubSeq(wQueue, Excess + 1, Len(wQueue)), item)

\* The critical section of doWrite() and flush() under W.
Push(p, kind) ==
    /\ pc[p] = "ready"
    /\ WFree
    /\ ~stop
    /\ pushed < MaxPushes
    /\ wQueue' = Enqueue([what |-> kind, id |-> pushed + 1])
    /\ discarded' = [discarded EXCEPT ![p] = Excess]
    /\ call' = [call EXCEPT ![p] = kind]
    /\ pc' = [pc EXCEPT ![p] = "count"]
    /\ pushed' = pushed + 1
    /\ ticket' = [ticket EXCEPT ![p] = pushed + 1]
    /\ answer' = [answer EXCEPT ![p] = "none"]
    /\ UNCHANGED <<rQueue, pending, worker, count, stop, delivered>>

\* What the call adds to m_pendingRecords.
CountedTwice(p) == 1                  \* mutant: popped items stay counted
CountedRecord(p) ==                   \* mutant: flush() does not count its item
    IF call[p] = "flush" THEN 0 ELSE 1 - discarded[p]
Counted(p) == 1 - discarded[p]

\* The critical section under R.  A lone record wakes the worker only when
\* the oldest queued one is older than m_threshold: the clock is abstracted
\* to a choice.
Count(p) ==
    /\ pc[p] = "count"
    /\ RFree
    /\ pending' = pending + Counted(p)
    /\ \/ pc' = [pc EXCEPT ![p] = "notify"]
       \/ ~Urgent(call[p]) /\ pc' = [pc EXCEPT ![p] = "ready"]
    /\ UNCHANGED <<queues, call, discarded, worker, count, stop, history>>

\* m_wQueueNotEmpty.notify_one()
Notify(p) ==
    /\ pc[p] = "notify"
    /\ worker' = IF worker = "asleep" THEN "idle" ELSE worker
    /\ pc' = [pc EXCEPT ![p] = IF call[p] = "flush" THEN "check" ELSE "ready"]
    /\ UNCHANGED <<queues, pending, call, discarded, count, stop, history>>

\* flush() returns what wait_for() returns: the value of its predicate.
Return(p) ==
    /\ pc' = [pc EXCEPT ![p] = "ready"]
    /\ answer' = [answer EXCEPT ![p] = IF pending = 0 THEN "true" ELSE "false"]

\* wait_for() of flush() tests its predicate when it is entered and when
\* m_queuesEmpty is notified.
FlushCheck(p) ==
    /\ pc[p] = "check"
    /\ RFree
    /\ IF pending = 0
         THEN Return(p)
         ELSE pc' = [pc EXCEPT ![p] = "asleep"] /\ UNCHANGED answer
    /\ UNCHANGED <<queues, pending, call, discarded, worker, count, stop,
                   pushed, delivered, ticket>>

\* The timeout of flush() expires.
FlushNoTimeout(p) == FALSE            \* mutant: flush() waits without timeout
FlushTimeout(p) ==
    /\ pc[p] = "asleep"
    /\ RFree
    /\ Return(p)
    /\ UNCHANGED <<queues, pending, call, discarded, worker, count, stop,
                   pushed, delivered, ticket>>

\* The last reference is released: no producer is inside a call any more.
Destroy ==
    /\ ~stop
    /\ \A p \in Producers : pc[p] = "ready"
    /\ stop' = TRUE
    /\ worker' = IF worker = "asleep" THEN "idle" ELSE worker
    /\ UNCHANGED <<queues, pending, pc, call, discarded, count, history>>

-----------------------------------------------------------------------------
(***************************************************************************)
(* The worker: run() and sendToSinks().                                    *)
(***************************************************************************)

\* wait_for() of run() tests its predicate under W.
WorkerCheck ==
    /\ worker = "idle"
    /\ worker' = IF wQueue # <<>> THEN "swap" ELSE IF stop THEN "done" ELSE "asleep"
    /\ UNCHANGED <<queues, pending, pc, call, discarded, count, stop, history>>

\* m_threshold expires: wait_for() returns the value of its predicate.
WorkerTimeout ==
    /\ worker = "asleep"
    /\ worker' = IF wQueue # <<>> THEN "swap" ELSE "loop"
    /\ UNCHANGED <<queues, pending, pc, call, discarded, count, stop, history>>

\* m_rQueue.swap(m_wQueue)
Swap == rQueue' = wQueue /\ wQueue' = rQueue

WorkerSwap ==
    /\ worker = "swap"
    /\ Swap
    /\ worker' = "lock"
    /\ UNCHANGED <<pending, pc, call, discarded, count, stop, history>>

WorkerLock ==
    /\ worker = "lock"
    /\ count' = Len(rQueue)
    /\ worker' = "send"
    /\ UNCHANGED <<queues, pending, pc, call, discarded, stop, history>>

\* The loop of sendToSinks() ends with the item it has just popped.
BatchEndsAlways == TRUE               \* mutant: one item per batch
BatchEnds == stop \/ Len(rQueue) = 1

\* One round of the loop of sendToSinks(); the last one settles the counter
\* for the whole batch and releases R.
WorkerSend ==
    /\ worker = "send"
    /\ rQueue # <<>>
    /\ delivered' = Append(delivered, Head(rQueue))
    /\ rQueue' = Tail(rQueue)
    /\ IF BatchEnds
         THEN /\ pending' = pending - count
              /\ worker' = IF pending' = 0 THEN "announce" ELSE "loop"
         ELSE UNCHANGED <<pending, worker>>
    /\ UNCHANGED <<wQueue, pc, call, discarded, count, stop, pushed,
                   ticket, answer>>

\* m_queuesEmpty.notify_all()
WorkerAnnounce ==
    /\ worker = "announce"
    /\ pc' = [p \in Producers |-> IF pc[p] = "asleep" THEN "check" ELSE pc[p]]
    /\ worker' = "loop"
    /\ UNCHANGED <<queues, pending, call, discarded, count, stop, history>>

\* while (!stop.stop_requested())
WorkerLoop ==
    /\ worker = "loop"
    /\ worker' = IF stop THEN "done" ELSE "idle"
    /\ UNCHANGED <<queues, pending, pc, call, discarded, count, stop, history>>

\* The destructor has joined the worker.
Terminated == worker = "done" /\ UNCHANGED vars

-----------------------------------------------------------------------------
ProducerStep(p) ==
    \/ Count(p)
    \/ Notify(p)
    \/ FlushCheck(p)
    \/ FlushTimeout(p)

WorkerStep ==
    \/ WorkerCheck
    \/ WorkerTimeout
    \/ WorkerSwap
    \/ WorkerLock
    \/ WorkerSend
    \/ WorkerAnnounce
    \/ WorkerLoop

Next ==
    \/ \E p \in Producers, kind \in Kinds : Push(p, kind)
    \/ \E p \in Producers : ProducerStep(p)
    \/ Destroy
    \/ WorkerStep
    \/ Terminated

Spec == Init /\ [][Next]_vars

\* A thread inside a call, and the worker, are eventually scheduled; waits
\* on condition variables are timed.
Fairness ==
    /\ \A p \in Producers : WF_vars(ProducerStep(p))
    /\ WF_vars(WorkerStep)

FairSpec == Spec /\ Fairness

-----------------------------------------------------------------------------
(***************************************************************************)
(* The abstract specification: the two queues are one channel.             *)
(***************************************************************************)
Channel == INSTANCE LogChannel WITH
    Capacity <- MaxQueueSize,
    channel  <- rQueue \o wQueue,
    sinks    <- delivered,
    sent     <- pushed,
    closed   <- stop

\* The logger implements a bounded order-preserving channel: every step of the
\* producers and of the worker is a step of the channel or none.
ImplementsChannel == Channel!FairSpec

-----------------------------------------------------------------------------
(***************************************************************************)
(* Properties.                                                             *)
(***************************************************************************)

\* Every variable keeps its type; wQueue never exceeds its bound, and a call
\* that has pushed has popped at most one item to make room.
TypeOK ==
    /\ wQueue \in Seq(Items) /\ Len(wQueue) <= MaxQueueSize
    /\ rQueue \in Seq(Items) /\ Len(rQueue) <= MaxQueueSize
    /\ pending \in Int
    /\ pc \in [Producers -> ProducerStates]
    /\ call \in [Producers -> Kinds]
    /\ discarded \in [Producers -> {0, 1}]
    /\ worker \in WorkerStates
    /\ count \in 0..MaxQueueSize
    /\ stop \in BOOLEAN
    /\ pushed \in 0..MaxPushes
    /\ delivered \in Seq(Items)
    /\ ticket \in [Producers -> Nat]
    /\ answer \in [Producers -> {"none", "true", "false"}]

\* Calls that have changed the length of wQueue by one item and have not
\* told m_pendingRecords yet.
Uncounted == {p \in Producers : pc[p] = "count" /\ discarded[p] = 0}

\* Items the worker has taken from wQueue and not subtracted yet.
InBatch == CASE worker = "lock" -> Len(rQueue)
             [] worker = "send" -> count
             [] OTHER           -> 0

\* m_pendingRecords is adjusted in a critical section other than that of the
\* queue, so it lags behind: it counts the queued items and the batch being
\* sent, short of the pushes that have not been counted yet.
PendingAccounting ==
    pending = Len(wQueue) + InBatch - Cardinality(Uncounted)

\* The worker never sleeps on an item that must be sent at once (an atomic
\* group or a flush) unless a producer is still on its way to notify it.
NoSleepOnUrgent ==
    worker = "asleep" /\ (\E i \in DOMAIN wQueue : wQueue[i].what # "record")
        => \E p \in Producers : pc[p] \in {"count", "notify"} /\ call[p] # "record"

\* When flush() answers true and no other call is between its two critical
\* sections, both queues are empty and every item ever pushed has been given to
\* the sinks, unless it was discarded by an overflow: unless MaxQueueSize newer
\* ones were pushed behind it.  That is less than "force flushing all sinks" and
\* "wait until really flushed" say in flush(): its own request is an item of the
\* queue, and when others push that many items behind it, it is dropped, the
\* sinks are not flushed and flush() answers true all the same.
GivenOrOverrun(id) == id \in Ids(delivered) \/ id + MaxQueueSize <= pushed

FlushDrains ==
    [][\A p \in Producers :
        answer[p] = "none" /\ answer'[p] = "true"
            /\ (\A q \in Producers : pc[q] # "count")
        => /\ wQueue = <<>> /\ rQueue = <<>>
           /\ \A id \in 1..pushed : GivenOrOverrun(id)]_vars

\* A call to the logger returns, even when the notification that flush() waits
\* for is never sent because a late Count() brings the counter to zero.
CallsReturn == \A p \in Producers : pc[p] # "ready" ~> pc[p] = "ready"

\* What the comment in flush() promises ("wait until really flushed"): an
\* answer of true means that the item flush() pushed is not queued any more.
ReallyFlushed ==
    \A p \in Producers :
        answer[p] = "true" => ticket[p] \notin Ids(rQueue \o wQueue)
=============================================================================
