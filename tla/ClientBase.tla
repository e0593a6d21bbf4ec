----------------------------- MODULE ClientBase -----------------------------
(***************************************************************************)
(* The bookkeeping of outstanding requests in an RPC client                *)
(* (include/erebus/ipc/grpc/client/client_base.hxx).                       *)
(*                                                                         *)
(* Every request owns a context; the client counts its contexts and its    *)
(* destructor waits until there are none.  Contexts are destroyed on the   *)
(* threads of gRPC, in any order, while other threads may still start      *)
(* requests, until the last reference to the client is released.           *)
(*                                                                         *)
(* removeContext() is three steps, because each of them touches the client:*)
(* it decrements the counter under the lock, unlocks, and notifies after   *)
(* that.  The destructor first reads the counter WITHOUT the lock.         *)
(***************************************************************************)
EXTENDS Integers, FiniteSets

CONSTANTS
    Calls,      \* the requests made in the life of the client
    Nobody      \* the lock is free

ASSUME CallsAssumption == IsFiniteSet(Calls)
ASSUME NobodyAssumption == Nobody \notin Calls

VARIABLES
    count,      \* m_runningContexts.count
    lock,       \* who holds m_runningContexts.lock
    call,       \* what each request has come to
    client      \* what the client has come to

vars == <<count, lock, call, client>>

CallStates == {"none", "running", "leaving", "unlock", "notify", "gone"}
ClientStates == {"held", "check", "wait", "asleep", "freed"}

Init ==
    /\ count = 0
    /\ lock = Nobody
    /\ call = [c \in Calls |-> "none"]
    /\ client = "held"

-----------------------------------------------------------------------------
(***************************************************************************)
(* A request.                                                              *)
(***************************************************************************)

\* m_runningContexts.count after addContext()
Added == count + 1

\* ping(), getSystemInfo(), getProcessProperties(): the context is created,
\* which calls addContext(), and the request is handed to gRPC.
Start(c) ==
    /\ call[c] = "none"
    /\ client = "held"
    /\ lock = Nobody
    /\ count' = Added
    /\ call' = [call EXCEPT ![c] = "running"]
    /\ UNCHANGED <<lock, client>>

\* gRPC completes the request: the completion of the caller is invoked and
\* released, and the last reference to the context goes away.
Complete(c) ==
    /\ call[c] = "running"
    /\ call' = [call EXCEPT ![c] = "leaving"]
    /\ UNCHANGED <<count, lock, client>>

\* removeContext() up to the end of the critical section ...
Decrement(c) ==
    /\ call[c] = "leaving"
    /\ lock = Nobody
    /\ lock' = c
    /\ count' = count - 1
    /\ call' = [call EXCEPT ![c] = "unlock"]
    /\ UNCHANGED client

\* needToNotify
NotifyTooLate == count < 0            \* mutant: compares before it decrements
NeedToNotify == count = 0

\* ... the end of the critical section ...
Unlock(c) ==
    /\ call[c] = "unlock"
    /\ lock' = Nobody
    /\ call' = [call EXCEPT ![c] = IF NeedToNotify THEN "notify" ELSE "gone"]
    /\ UNCHANGED <<count, client>>

\* ... and the notification.
Notify(c) ==
    /\ call[c] = "notify"
    /\ client' = IF client = "asleep" THEN "wait" ELSE client
    /\ call' = [call EXCEPT ![c] = "gone"]
    /\ UNCHANGED <<count, lock>>

-----------------------------------------------------------------------------
(***************************************************************************)
(* The client: ~ClientBase() and waitRunningContexts().                    *)
(***************************************************************************)

\* The last reference is released: nobody can start a request any more.
Release ==
    /\ client = "held"
    /\ client' = "check"
    /\ UNCHANGED <<count, lock, call>>

\* while (m_runningContexts.count > 0), without the lock
StillRunningButOne == count > 1       \* mutant: off by one
StillRunning == count > 0

Check ==
    /\ client = "check"
    /\ client' = IF StillRunning THEN "wait" ELSE "freed"
    /\ UNCHANGED <<count, lock, call>>

\* cv.wait() tests its predicate under the lock; to sleep is to release it.
SleepFirst == client' = "asleep"      \* mutant: cv.wait(l) has no predicate
TestThenSleep == client' = IF count <= 0 THEN "check" ELSE "asleep"

Wait ==
    /\ client = "wait"
    /\ lock = Nobody
    /\ TestThenSleep
    /\ UNCHANGED <<count, lock, call>>

\* A spurious wake-up of the condition variable.
WakeUp ==
    /\ client = "asleep"
    /\ client' = "wait"
    /\ UNCHANGED <<count, lock, call>>

Terminated ==
    /\ client = "freed"
    /\ \A c \in Calls : call[c] \in {"none", "gone"}
    /\ UNCHANGED vars

-----------------------------------------------------------------------------
LeaveStep(c) == Decrement(c) \/ Unlock(c) \/ Notify(c)

Next ==
    \/ \E c \in Calls : Start(c) \/ Complete(c) \/ LeaveStep(c)
    \/ Release
    \/ Check
    \/ Wait
    \/ WakeUp
    \/ Terminated

Spec == Init /\ [][Next]_vars

\* Every thread that is under way is scheduled.  Nothing says that a request ends:
\* requests have no deadline, and one that the server never answers runs as long as
\* the connection lives.  A condition variable need not wake up spuriously.
Fairness ==
    /\ \A c \in Calls : WF_vars(LeaveStep(c))
    /\ WF_vars(Check) /\ WF_vars(Wait)

FairSpec == Spec /\ Fairness

-----------------------------------------------------------------------------
(***************************************************************************)
(* Properties.                                                             *)
(***************************************************************************)

\* Every variable keeps its type: the counter is never negative, and the lock
\* is held by the request that is between its decrement and the unlocking.
TypeOK ==
    /\ count \in Nat
    /\ lock \in Calls \union {Nobody}
    /\ call \in [Calls -> CallStates]
    /\ client \in ClientStates
    /\ \A c \in Calls : call[c] = "unlock" <=> lock = c

\* Requests whose context exists.
Contexts == {c \in Calls : call[c] \in {"running", "leaving"}}

\* The destructor, which looks at the counter without the lock, returns only
\* when no request is running any more: no completion runs after it.  (The
\* last context may still have to unlock and to notify.)
NoContextOutlivesClient == client = "freed" => Contexts = {}

\* The destructor never sleeps on a counter that is zero unless the request
\* that has brought it to zero is still on its way to notify.
NoSleepOnZero ==
    client = "asleep" /\ count = 0 => \E c \in Calls : call[c] \in {"unlock", "notify"}

\* Once the last reference is released, the destructor returns, provided that no
\* request runs for ever: the last context to go wakes it up in whatever order its
\* steps and those of the destructor come.  The proviso is needed: the server never
\* ends a request for the properties of a process (see ServerLifecycle), and
\* waitRunningContexts() has no timeout.
RequestsEnd == \A c \in Calls : []<>(call[c] # "running")
DestructorReturns == RequestsEnd => (client = "check" ~> client = "freed")
=============================================================================
