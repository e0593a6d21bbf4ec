----------------------------- MODULE WaitsProofs -----------------------------
(***************************************************************************)
(* Proofs about where a destructor, or the main thread, sleeps until other *)
(* threads are done: ClientBase for any number of requests, Program for    *)
(* any number of signals and records, PingRunner for any set of workers    *)
(* and any number of iterations.  Each has an inductive invariant of its   *)
(* own, ClientInv, ProgramInv and PingInv, which is also an invariant of   *)
(* MCWaits, where one of the three runs.  ConditionInv and BusyInv add that*)
(* no wake-up of the main thread is missed.  AssertPrinter comes last, for *)
(* any threads and any depth of reports within reports.                    *)
(***************************************************************************)
EXTENDS MCWaits, Sequences, FiniteSetTheorems, TLAPS

-----------------------------------------------------------------------------
(***************************************************************************)
(* ClientBase: the counter is the number of contexts.                      *)
(***************************************************************************)
\* The counter is the number of contexts: what the destructor relies on when
\* it looks at the counter without the lock.
CountsContexts == count = Cardinality(Contexts)

\* The inductive invariant.
ClientInv == TypeOK /\ CountsContexts /\ NoContextOutlivesClient /\ NoSleepOnZero

\* The number of contexts is a natural number, which is zero only when there
\* is none.
LEMMA ContextsFinite ==
    /\ IsFiniteSet(Contexts)
    /\ Cardinality(Contexts) \in Nat
    /\ Cardinality(Contexts) = 0 <=> Contexts = {}
<1>1. IsFiniteSet(Contexts)
  BY CallsAssumption, FS_Subset DEF Contexts
<1> QED
  BY <1>1, FS_CardinalityType, FS_EmptySet

LEMMA ClientStart == Init => ClientInv
<1> SUFFICES ASSUME Init
             PROVE  ClientInv
  OBVIOUS
<1>1. Contexts = {}
  BY DEF Init, Contexts
<1>2. CountsContexts
  BY <1>1, ContextsFinite DEF Init, CountsContexts
<1>3. TypeOK
  BY NobodyAssumption DEF Init, TypeOK, CallStates, ClientStates
<1> QED
  BY <1>1, <1>2, <1>3 DEF Init, ClientInv, NoContextOutlivesClient, NoSleepOnZero

LEMMA ClientNext == ClientInv /\ [Next]_vars => ClientInv'
<1> SUFFICES ASSUME ClientInv, [Next]_vars
             PROVE  ClientInv'
  OBVIOUS
<1> USE DEF ClientInv, CountsContexts, CallStates, ClientStates
<1>0. TypeOK /\ NoContextOutlivesClient /\ NoSleepOnZero
  OBVIOUS
<1>1. ASSUME NEW c \in Calls, Start(c)
      PROVE  ClientInv'
  <2>1. Contexts' = Contexts \union {c} /\ c \notin Contexts
    BY <1>0, <1>1 DEF TypeOK, Start, Contexts
  <2>2. CountsContexts'
    BY <1>1, <2>1, ContextsFinite, FS_AddElement DEF Start, Added
  <2>3. TypeOK'
    BY <1>0, <1>1, NobodyAssumption DEF TypeOK, Start, Added
  <2>4. client' = "held"
    BY <1>1 DEF Start
  <2> QED
    BY <2>2, <2>3, <2>4 DEF NoContextOutlivesClient, NoSleepOnZero
<1>2. ASSUME NEW c \in Calls, Complete(c)
      PROVE  ClientInv'
  <2>1. Contexts' = Contexts
    BY <1>0, <1>2 DEF TypeOK, Complete, Contexts
  <2>2. TypeOK'
    BY <1>0, <1>2 DEF TypeOK, Complete
  <2>3. NoSleepOnZero'
    <3> SUFFICES ASSUME client = "asleep", count = 0
                 PROVE  \E d \in Calls : call'[d] \in {"unlock", "notify"}
      BY <1>2 DEF Complete, NoSleepOnZero
    <3>1. PICK d \in Calls : call[d] \in {"unlock", "notify"}
      BY <1>0 DEF NoSleepOnZero
    <3> QED
      BY <1>0, <1>2, <3>1 DEF Complete, TypeOK
  <2> QED
    BY <1>0, <1>2, <2>1, <2>2, <2>3 DEF Complete, NoContextOutlivesClient
<1>3. ASSUME NEW c \in Calls, Decrement(c)
      PROVE  ClientInv'
  <2>1. Contexts' = Contexts \ {c} /\ c \in Contexts
    BY <1>0, <1>3 DEF TypeOK, Decrement, Contexts
  <2>2. Cardinality(Contexts') = Cardinality(Contexts) - 1
    BY <2>1, ContextsFinite, FS_RemoveElement
  <2>3. Cardinality(Contexts) # 0
    BY <2>1, ContextsFinite
  <2>4. count' \in Nat /\ CountsContexts'
    BY <1>3, <2>2, <2>3, ContextsFinite DEF Decrement
  <2>5. TypeOK'
    BY <1>0, <1>3, <2>4, NobodyAssumption DEF TypeOK, Decrement
  <2>6. NoSleepOnZero'
    BY <1>0, <1>3 DEF Decrement, NoSleepOnZero, TypeOK
  <2>7. client = "freed" => Contexts = {}
    BY <1>0 DEF NoContextOutlivesClient
  <2>8. NoContextOutlivesClient'
    BY <1>3, <2>1, <2>7 DEF Decrement, NoContextOutlivesClient
  <2> QED
    BY <2>4, <2>5, <2>6, <2>8
<1>4. ASSUME NEW c \in Calls, Unlock(c)
      PROVE  ClientInv'
  <2>1. Contexts' = Contexts
    BY <1>0, <1>4 DEF TypeOK, Unlock, Contexts
  <2>2. TypeOK'
    BY <1>0, <1>4, NobodyAssumption DEF TypeOK, Unlock
  <2>3. NoSleepOnZero'
    BY <1>0, <1>4 DEF Unlock, NeedToNotify, NoSleepOnZero, TypeOK
  <2> QED
    BY <1>0, <1>4, <2>1, <2>2, <2>3 DEF Unlock, NoContextOutlivesClient
<1>5. ASSUME NEW c \in Calls, Notify(c)
      PROVE  ClientInv'
  <2>1. Contexts' = Contexts
    BY <1>0, <1>5 DEF TypeOK, Notify, Contexts
  <2>2. TypeOK'
    BY <1>0, <1>5 DEF TypeOK, Notify
  <2>3. client' # "asleep" /\ (client' = "freed" => client = "freed")
    BY <1>0, <1>5 DEF Notify, TypeOK
  <2> QED
    BY <1>0, <1>5, <2>1, <2>2, <2>3 DEF Notify, NoContextOutlivesClient, NoSleepOnZero
<1>6. ASSUME UNCHANGED <<count, lock, call>>,
             client' \in ClientStates,
             client' = "freed" => Contexts = {},
             client' = "asleep" => client = "asleep" \/ count # 0
      PROVE  ClientInv'
  <2>1. Contexts' = Contexts
    BY <1>6 DEF Contexts
  <2>2. TypeOK'
    BY <1>0, <1>6 DEF TypeOK
  <2>3. NoSleepOnZero'
    BY <1>0, <1>6 DEF NoSleepOnZero
  <2> QED
    BY <1>6, <2>1, <2>2, <2>3 DEF NoContextOutlivesClient
<1>7. ASSUME Release
      PROVE  ClientInv'
  BY <1>6, <1>7 DEF Release
<1>8. ASSUME Check
      PROVE  ClientInv'
  <2>1. count > 0 \/ Contexts = {}
    BY <1>0, ContextsFinite DEF TypeOK
  <2> QED
    BY <1>6, <1>8, <2>1 DEF Check, StillRunning
<1>9. ASSUME Wait
      PROVE  ClientInv'
  <2>1. count <= 0 \/ count # 0
    BY <1>0 DEF TypeOK
  <2> QED
    BY <1>0, <1>6, <1>9, <2>1 DEF Wait, TestThenSleep, TypeOK
<1>10. ASSUME WakeUp
       PROVE  ClientInv'
  BY <1>6, <1>10 DEF WakeUp
<1>11. ASSUME UNCHANGED vars
       PROVE  ClientInv'
  BY <1>0, <1>6, <1>11 DEF vars, TypeOK, NoContextOutlivesClient
<1> QED
  BY <1>1, <1>2, <1>3, <1>4, <1>5, <1>7, <1>8, <1>9, <1>10, <1>11
     DEF Next, LeaveStep, Terminated

\* The inductive invariant holds in every state.
LEMMA ClientAlways == Spec => []ClientInv
  BY ClientStart, ClientNext, PTL DEF Spec

\* Every variable keeps its type, and the counter is never negative, for any
\* number of requests (addContext(), removeContext()).
THEOREM ClientTypes == Spec => []TypeOK
<1>1. ClientInv => TypeOK
  BY DEF ClientInv
<1> QED
  BY <1>1, ClientAlways, PTL

\* The destructor of the client, which reads the counter without the lock,
\* returns only when no request is running (waitRunningContexts()).
THEOREM ClientOutlivesContexts == Spec => []NoContextOutlivesClient
<1>1. ClientInv => NoContextOutlivesClient
  BY DEF ClientInv
<1> QED
  BY <1>1, ClientAlways, PTL

\* The notification after the unlocking is not lost: the destructor sleeps on
\* a counter of zero only if a request is still to notify it.
THEOREM NoLostNotification == Spec => []NoSleepOnZero
<1>1. ClientInv => NoSleepOnZero
  BY DEF ClientInv
<1> QED
  BY <1>1, ClientAlways, PTL

-----------------------------------------------------------------------------
(***************************************************************************)
(* Program: its own SIGHUP does not end it, no thread is left when its     *)
(* members are gone, the main thread learns of the signal that woke it, and*)
(* early records come first.  Each part of the invariant serves one of these.*)
(***************************************************************************)
Started == {"run", "stopRunner"} \union Exec!Waiting

\* From the start of the waiter to globalShutdown() SIGHUP is caught.
CaughtInv ==
    /\ killed # "itself"
    /\ main \in {"configure", "drain", "hangup"} \union Started => action["HUP"] = "caught"

\* The waiter ends before the signals are given back; the runner exists only
\* while run() waits.
ThreadsInv ==
    /\ main \in {"startup", "waiter"} => setter["waiter"] = "none"
    /\ main = "exited" => setter["waiter"] \in {"none", "ended"}
    /\ main \in Exec!Starting \union {"drain", "run"} => setter["runner"] = "none"
    /\ main \in {"hangup", "stop", "join", "destroy", "exited"} =>
           setter["runner"] \in {"none", "ended"}
    /\ main \in Exec!Waiting \union {"stopRunner"} =>
           setter["runner"] \in {"start", "set", "notify", "idle"}

\* The signal is stored before the exit condition is set.
ReasonInv ==
    /\ setter["waiter"] \in {"set", "notify"} => signalReceived # Exec!None
    /\ value /\ signalReceived = Exec!None => setter["runner"] \in {"notify", "idle", "ended"}
    /\ main = "woken" => value
    /\ main = "stopRunner" /\ reported = Exec!None => setter["runner"] \in {"notify", "idle"}

\* What was delivered continues with what is pending, up to the n-th record.
Ordered(done, rest, n) ==
    /\ Len(done) + Len(rest) = n
    /\ \A i \in 1..Len(done) : done[i] = i
    /\ \A i \in 1..Len(rest) : rest[i] = Len(done) + i

\* While the null logger is the global one it keeps everything.
OrderInv ==
    /\ main \in Exec!Starting => global = "null"
    /\ main \in {"drain"} \union Started => global = "logger"
    /\ main \in Exec!Starting => delivered = <<>>
    /\ main \in Started => pending = <<>>
    /\ Ordered(delivered, pending, logged)

ProgramInv == Exec!TypeOK /\ CaughtInv /\ ThreadsInv /\ ReasonInv /\ OrderInv

-----------------------------------------------------------------------------
\* Control: everything but the order of the records.
ProgramParts == Exec!TypeOK /\ CaughtInv /\ ThreadsInv /\ ReasonInv

\* The sequences keep their types.
LEMMA LogTypes ==
    ASSUME Exec!TypeOK, Exec!Log
    PROVE  logged' = logged + 1 /\ pending' \in Seq(Nat) /\ delivered' \in Seq(Nat)
<1>1. pending \in Seq(Nat) /\ delivered \in Seq(Nat) /\ logged \in Nat
  BY DEF Exec!TypeOK
<1>2. /\ logged' = logged + 1
      /\ pending' = Append(pending, logged + 1) \/ pending' = pending
      /\ delivered' = Append(delivered, logged + 1) \/ delivered' = delivered
  BY DEF Exec!Log
<1>3. Append(pending, logged + 1) \in Seq(Nat) /\ Append(delivered, logged + 1) \in Seq(Nat)
  BY <1>1
<1> QED
  BY <1>1, <1>2, <1>3

LEMMA DrainTypes ==
    ASSUME Exec!TypeOK, Exec!Drain
    PROVE  pending' \in Seq(Nat) /\ delivered' \in Seq(Nat)
<1>1. CASE pending = <<>>
  BY <1>1 DEF Exec!TypeOK, Exec!Drain
<1>2. CASE pending # <<>>
  <2>1. pending \in Seq(Nat) /\ delivered \in Seq(Nat)
    BY DEF Exec!TypeOK
  <2>2. Head(pending) \in Nat /\ Tail(pending) \in Seq(Nat)
    BY <1>2, <2>1
  <2>3. pending' = Tail(pending) /\ delivered' = Append(delivered, Head(pending))
    BY <1>2 DEF Exec!Drain
  <2> QED
    BY <2>1, <2>2, <2>3
<1> QED
  BY <1>1, <1>2

LEMMA HandleTypes ==
    ASSUME Exec!TypeOK, Exec!WaiterHandle
    PROVE  pipe' \in Seq(Exec!Signals) /\ signalReceived' \in Exec!Signals
<1>1. Head(pipe) \in Exec!Signals /\ Tail(pipe) \in Seq(Exec!Signals)
  BY DEF Exec!TypeOK, Exec!WaiterHandle
<1> QED
  BY <1>1 DEF Exec!WaiterHandle

LEMMA DeliverTypes ==
    ASSUME Exec!TypeOK, NEW s \in Exec!Signals, NEW from, Exec!Deliver(s, from)
    PROVE  /\ pipe' \in Seq(Exec!Signals)
           /\ killed' = killed \/ (killed' = from /\ action[s] = "default")
<1>1. pipe \in Seq(Exec!Signals)
  BY DEF Exec!TypeOK
<1>2. CASE pipe' = Append(pipe, s)
  BY <1>1, <1>2 DEF Exec!Deliver
<1>3. CASE UNCHANGED pipe
  BY <1>1, <1>3 DEF Exec!Deliver
<1> QED
  BY <1>2, <1>3 DEF Exec!Deliver

\* The waiter and the runner.
LEMMA WaiterSteps == ProgramParts /\ Exec!Alive /\ (Exec!Waiter \/ Exec!RunnerDone) => ProgramParts'
<1> SUFFICES ASSUME ProgramParts, Exec!Alive, Exec!Waiter \/ Exec!RunnerDone PROVE ProgramParts'
  OBVIOUS
<1> USE DEF ProgramParts, Exec!TypeOK, CaughtInv, ThreadsInv, ReasonInv, Exec!Phases,
       Exec!Starting,
       Exec!Waiting, Started, Exec!Ended, Exec!SetterStates, Exec!Setters, Exec!Signals,
       Exec!None, Exec!conditionVars, Exec!signalVars,
       Exec!logVars, Exec!Alive
<1>1. CASE Exec!WaiterStart
  BY <1>1 DEF Exec!WaiterStart
<1>2. CASE Exec!WaiterHandle
  <2>1. signalReceived' \in Exec!Signals /\ pipe' \in Seq(Exec!Signals)
    BY <1>2, HandleTypes
  <2>2. /\ setter' = [setter EXCEPT !["waiter"] = "set"] /\ armed' = FALSE
        /\ UNCHANGED <<main, value, owner, action, stopped, reported, sent, destroyed, killed,
                       Exec!logVars>>
        /\ setter["waiter"] = "idle"
    BY <1>2 DEF Exec!WaiterHandle
  <2>3. signalReceived' # Exec!None
    BY <2>1
  <2>4. setter' \in [Exec!Setters -> Exec!SetterStates]
    BY <2>2
  <2>5. Exec!TypeOK'
    <3> HIDE DEF Exec!Setters, Exec!SetterStates, Exec!Signals, Exec!Phases, Exec!None
    <3> QED
      BY <2>1, <2>2, <2>4
  <2> QED
    BY <2>2, <2>3, <2>5
<1>3. CASE Exec!WaiterEnd
  BY <1>3 DEF Exec!WaiterEnd
<1>4. CASE Exec!RunnerDone
  BY <1>4 DEF Exec!RunnerDone
<1> QED
  BY <1>1, <1>2, <1>3, <1>4 DEF Exec!Waiter

\* The main thread, up to run().
LEMMA StartupSteps == ProgramParts /\ Exec!Alive /\ Exec!Startup => ProgramParts'
<1> SUFFICES ASSUME ProgramParts, Exec!Alive, Exec!Startup PROVE ProgramParts'
  OBVIOUS
<1> USE DEF ProgramParts, Exec!TypeOK, CaughtInv, ThreadsInv, ReasonInv, Exec!Phases,
       Exec!Starting,
       Exec!Waiting, Started, Exec!Ended, Exec!SetterStates, Exec!Setters, Exec!Signals,
       Exec!None, Exec!conditionVars, Exec!signalVars,
       Exec!logVars, Exec!Alive
<1>1. CASE Exec!Daemonize
  BY <1>1 DEF Exec!Daemonize
<1>2. CASE Exec!StartWaiter
  BY <1>2 DEF Exec!StartWaiter, Exec!WaitedFor
<1>3. CASE Exec!LogEarly
  <2>1. logged + 1 \in Nat
    BY <1>3 DEF Exec!LogEarly
  <2>2. logged' = logged + 1 /\ pending' \in Seq(Nat) /\ delivered' \in Seq(Nat)
    BY <1>3, LogTypes DEF Exec!LogEarly
  <2>3. UNCHANGED <<main, setter, value, owner, action, pipe, armed, stopped, signalReceived,
                    reported, sent, destroyed, killed, global>>
    BY <1>3 DEF Exec!LogEarly
  <2> QED
    BY <2>1, <2>2, <2>3
<1>4. CASE Exec!BadConfiguration
  BY <1>4 DEF Exec!BadConfiguration
<1>5. CASE Exec!SetGlobal
  BY <1>5 DEF Exec!SetGlobal
<1>6. CASE Exec!Drain
  <2>1. pending' \in Seq(Nat) /\ delivered' \in Seq(Nat)
    BY <1>6, DrainTypes
  <2>2. main = "drain" /\ main' \in {"drain", "run"}
    BY <1>6 DEF Exec!Drain
  <2>3. UNCHANGED <<setter, value, owner, action, pipe, armed, stopped, signalReceived, reported,
                    sent, destroyed, killed, global, logged>>
    BY <1>6 DEF Exec!Drain
  <2> QED
    BY <2>1, <2>2, <2>3
<1> QED
  BY <1>1, <1>2, <1>3, <1>4, <1>5, <1>6 DEF Exec!Startup

\* The main thread in run().
LEMMA RunningSteps == ProgramParts /\ Exec!Alive /\ (Exec!Running \/ Exec!Spurious) => ProgramParts'
<1> SUFFICES ASSUME ProgramParts, Exec!Alive, Exec!Running \/ Exec!Spurious PROVE ProgramParts'
  OBVIOUS
<1> USE DEF ProgramParts, Exec!TypeOK, CaughtInv, ThreadsInv, ReasonInv, Exec!Phases,
       Exec!Starting,
       Exec!Waiting, Started, Exec!Ended, Exec!SetterStates, Exec!Setters, Exec!Signals,
       Exec!None, Exec!conditionVars, Exec!signalVars,
       Exec!logVars, Exec!Alive
<1>1. CASE Exec!LogLate
  <2>1. logged + 1 \in Nat
    BY <1>1 DEF Exec!LogLate
  <2>2. logged' = logged + 1 /\ pending' \in Seq(Nat) /\ delivered' \in Seq(Nat)
    BY <1>1, LogTypes DEF Exec!LogLate
  <2>3. UNCHANGED <<main, setter, value, owner, action, pipe, armed, stopped, signalReceived,
                    reported, sent, destroyed, killed, global>>
    BY <1>1 DEF Exec!LogLate
  <2> QED
    BY <2>1, <2>2, <2>3
<1>2. CASE Exec!Wait
  BY <1>2 DEF Exec!Wait
<1>3. CASE Exec!RunFails
  BY <1>3 DEF Exec!RunFails
<1>4. CASE Exec!Lock
  BY <1>4 DEF Exec!Lock
<1>5. CASE Exec!Check
  BY <1>5 DEF Exec!Check
<1>6. CASE Exec!Block
  BY <1>6 DEF Exec!Block
<1>7. CASE Exec!Report
  BY <1>7 DEF Exec!Report
<1>8. CASE Exec!StopRunner
  BY <1>8 DEF Exec!StopRunner
<1>9. CASE Exec!Spurious
  BY <1>9 DEF Exec!Spurious
<1> QED
  BY <1>1, <1>2, <1>3, <1>4, <1>5, <1>6, <1>7, <1>8, <1>9 DEF Exec!Running

\* The main thread after run().
LEMMA ShutdownSteps == ProgramParts /\ Exec!Alive /\ Exec!Shutdown => ProgramParts'
<1> SUFFICES ASSUME ProgramParts, Exec!Alive, Exec!Shutdown PROVE ProgramParts'
  OBVIOUS
<1> USE DEF ProgramParts, Exec!TypeOK, CaughtInv, ThreadsInv, ReasonInv, Exec!Phases,
       Exec!Starting,
       Exec!Waiting, Started, Exec!Ended, Exec!SetterStates, Exec!Setters, Exec!Signals,
       Exec!None, Exec!conditionVars, Exec!signalVars,
       Exec!logVars, Exec!Alive
<1>1. CASE Exec!HangUp
  <2>1. action["HUP"] = "caught" /\ "HUP" \in Exec!Signals
    BY <1>1 DEF Exec!HangUp
  <2>2. pipe' \in Seq(Exec!Signals) /\ UNCHANGED killed
    BY <1>1, <2>1, DeliverTypes DEF Exec!HangUp
  <2>3. main' \in {"stop", "killed"}
    BY <1>1 DEF Exec!HangUp
  <2> QED
    BY <1>1, <2>1, <2>2, <2>3 DEF Exec!HangUp
<1>2. CASE Exec!Stop
  BY <1>2 DEF Exec!Stop
<1>3. CASE Exec!Join
  <2>1. action' \in [Exec!Signals -> {"default", "ignored", "caught"}] /\ pipe' \in Seq(Exec!Signals)
    BY <1>3 DEF Exec!Join, Exec!WaitedFor
  <2>2. main = "join" /\ main' \in {"exited", "destroy"} /\ setter["waiter"] = "ended"
    BY <1>3 DEF Exec!Join
  <2>3. UNCHANGED <<setter, value, owner, stopped, signalReceived, reported, sent, destroyed,
                    killed, Exec!logVars>>
    BY <1>3 DEF Exec!Join
  <2>4. armed' = FALSE
    BY <1>3 DEF Exec!Join
  <2>5. Exec!TypeOK'
    <3> HIDE DEF Exec!Setters, Exec!SetterStates, Exec!Signals, Exec!None
    <3> QED
      BY <2>1, <2>2, <2>3, <2>4
  <2> QED
    BY <2>2, <2>3, <2>5
<1>4. CASE Exec!Destroy
  BY <1>4 DEF Exec!Destroy
<1> QED
  BY <1>1, <1>2, <1>3, <1>4 DEF Exec!Shutdown

\* The exit condition is set.
LEMMA SetterSteps ==
    ASSUME ProgramParts, Exec!Alive, NEW t \in Exec!Setters, Exec!Setting(t)
    PROVE  ProgramParts'
<1> USE DEF ProgramParts, Exec!TypeOK, CaughtInv, ThreadsInv, ReasonInv, Exec!Phases,
       Exec!Starting, Exec!Waiting, Started,
       Exec!Ended, Exec!SetterStates, Exec!Setters, Exec!Signals, Exec!None, Exec!conditionVars,
       Exec!signalVars, Exec!logVars, Exec!Alive
<1>1. CASE Exec!Set(t)
  BY <1>1 DEF Exec!Set, Exec!MutexForSet
<1>2. CASE Exec!Notify(t)
  BY <1>2 DEF Exec!Notify
<1> QED
  BY <1>1, <1>2 DEF Exec!Setting

\* A signal from somebody else may end the process, and changes little otherwise.
LEMMA ArriveStep == ASSUME ProgramParts, NEW s \in Exec!Signals, Exec!Arrive(s) PROVE ProgramParts'
<1> USE DEF ProgramParts, Exec!TypeOK, CaughtInv, ThreadsInv, ReasonInv, Exec!Phases,
       Exec!Starting,
       Exec!Waiting, Started, Exec!Ended, Exec!SetterStates, Exec!Setters, Exec!Signals,
       Exec!None, Exec!conditionVars, Exec!logVars
<1>1. pipe' \in Seq(Exec!Signals) /\ (killed' = killed \/ killed' = "other")
  BY DeliverTypes DEF Exec!Arrive
<1>2. sent' \in Nat /\ (main' = main \/ main' = "killed")
  BY DEF Exec!Arrive
<1> QED
  BY <1>1, <1>2 DEF Exec!Arrive

LEMMA ProgramStart == Exec!Init => ProgramInv
<1> SUFFICES ASSUME Exec!Init PROVE ProgramInv
  OBVIOUS
<1> USE DEF Exec!Init, Exec!Phases, Exec!Starting, Exec!Waiting, Started, Exec!Ended,
       Exec!SetterStates, Exec!Setters,
       Exec!Signals, Exec!None
<1>1. Exec!TypeOK
  <2>1. pipe \in Seq(Exec!Signals) /\ pending \in Seq(Nat) /\ delivered \in Seq(Nat)
    OBVIOUS
  <2> QED
    BY <2>1 DEF Exec!TypeOK
<1>2. CaughtInv /\ ThreadsInv /\ ReasonInv
  BY DEF CaughtInv, ThreadsInv, ReasonInv
<1>3. OrderInv
  BY DEF OrderInv, Ordered
<1> QED
  BY <1>1, <1>2, <1>3 DEF ProgramInv

-----------------------------------------------------------------------------
\* A record moves from the null logger to the logger.
LEMMA MoveOne ==
    ASSUME NEW done \in Seq(Nat), NEW rest \in Seq(Nat), rest # <<>>, NEW n, Ordered(done, rest, n)
    PROVE  Ordered(Append(done, Head(rest)), Tail(rest), n)
<1> DEFINE more == Append(done, Head(rest))
<1>1. Len(rest) \in Nat /\ Len(rest) > 0 /\ Head(rest) = rest[1] /\ Len(done) \in Nat
  OBVIOUS
<1>2. Len(more) = Len(done) + 1 /\ more[Len(done) + 1] = rest[1]
  BY <1>1
<1>3. \A i \in 1..Len(done) : more[i] = done[i]
  BY <1>1
<1>4. Len(Tail(rest)) = Len(rest) - 1 /\ \A i \in 1..(Len(rest) - 1) : Tail(rest)[i] = rest[i + 1]
  BY <1>1
<1> HIDE DEF more
<1>5. Ordered(more, Tail(rest), n)
  BY <1>1, <1>2, <1>3, <1>4 DEF Ordered
<1> QED
  BY <1>5 DEF more

\* The records: only five actions touch them, or the phases that tell where they are.
LEMMA OrderStep == ASSUME ProgramInv, Exec!Alive, Exec!Main PROVE OrderInv'
<1> USE DEF ProgramInv, Exec!TypeOK, Exec!Phases, Exec!Starting, Exec!Waiting, Started,
       Exec!Ended, Exec!Alive
<1>1. CASE Exec!LogEarly
  <2>1. /\ main = "configure" /\ UNCHANGED <<main, global, delivered>>
        /\ logged' = logged + 1 /\ pending' = Append(pending, logged + 1)
    BY <1>1 DEF Exec!LogEarly, Exec!Log, OrderInv
  <2>2. Len(pending') = Len(pending) + 1 /\ pending'[Len(pending) + 1] = logged + 1
    BY <2>1
  <2>3. \A i \in 1..Len(pending) : pending'[i] = pending[i]
    BY <2>1
  <2> QED
    BY <2>1, <2>2, <2>3 DEF OrderInv, Ordered
<1>2. CASE Exec!SetGlobal
  BY <1>2 DEF Exec!SetGlobal, OrderInv
<1>3. CASE Exec!Drain
  <2>1. CASE pending = <<>>
    BY <1>3, <2>1 DEF Exec!Drain, OrderInv
  <2>2. CASE pending # <<>>
    <3>1. /\ main = "drain" /\ UNCHANGED <<main, global, logged>>
          /\ pending' = Tail(pending) /\ delivered' = Append(delivered, Head(pending))
      BY <1>3, <2>2 DEF Exec!Drain
    <3>2. Ordered(delivered', pending', logged)
      BY <3>1, <2>2, MoveOne DEF OrderInv
    <3> QED
      BY <3>1, <3>2 DEF OrderInv
  <2> QED
    BY <2>1, <2>2
<1>4. CASE Exec!LogLate
  <2>1. /\ main = "run" /\ UNCHANGED <<main, global, pending>> /\ pending = <<>>
        /\ logged' = logged + 1 /\ delivered' = Append(delivered, logged + 1)
    BY <1>4 DEF Exec!LogLate, Exec!Log, OrderInv
  <2>2. /\ Len(delivered') = Len(delivered) + 1 /\ delivered'[Len(delivered) + 1] = logged + 1
        /\ \A i \in 1..Len(delivered) : delivered'[i] = delivered[i]
    BY <2>1
  <2> QED
    BY <2>1, <2>2 DEF OrderInv, Ordered
<1>5. CASE Exec!Destroy
  BY <1>5 DEF Exec!Destroy, OrderInv
<1>6. CASE Exec!Daemonize \/ Exec!StartWaiter \/ Exec!BadConfiguration \/ Exec!Wait \/ Exec!RunFails
  BY <1>6 DEF Exec!Daemonize, Exec!StartWaiter, Exec!BadConfiguration, Exec!Wait, Exec!RunFails,
     Exec!logVars, OrderInv
<1>7. CASE Exec!Lock \/ Exec!Check \/ Exec!Block \/ Exec!Report \/ Exec!StopRunner
  BY <1>7 DEF Exec!Lock, Exec!Check, Exec!Block, Exec!Report, Exec!StopRunner, Exec!logVars,
     OrderInv
<1>8. CASE Exec!HangUp \/ Exec!Stop \/ Exec!Join
  BY <1>8 DEF Exec!HangUp, Exec!Stop, Exec!Join, Exec!logVars, OrderInv
<1> QED
  BY <1>1, <1>2, <1>3, <1>4, <1>5, <1>6, <1>7, <1>8 DEF Exec!Main, Exec!Startup, Exec!Running,
     Exec!Shutdown

\* No other thread logs.
LEMMA OtherOrderStep ==
    ASSUME ProgramInv,
           \/ \E s \in Exec!Signals : Exec!Arrive(s)
           \/ /\ Exec!Alive
              /\ \/ Exec!Waiter \/ Exec!Spurious \/ Exec!RunnerDone
                 \/ \E t \in Exec!Setters : Exec!Setting(t)
    PROVE  OrderInv'
<1> USE DEF ProgramInv, OrderInv, Exec!Starting, Exec!Waiting, Started, Exec!Ended, Exec!logVars
<1>1. ASSUME NEW s \in Exec!Signals, Exec!Arrive(s)
      PROVE  OrderInv'
  BY <1>1 DEF Exec!Arrive
<1>2. CASE Exec!Waiter
  BY <1>2 DEF Exec!Waiter, Exec!WaiterStart, Exec!WaiterHandle, Exec!WaiterEnd
<1>3. CASE Exec!Spurious \/ Exec!RunnerDone
  BY <1>3 DEF Exec!Spurious, Exec!RunnerDone
<1>4. ASSUME NEW t \in Exec!Setters, Exec!Setting(t)
      PROVE  OrderInv'
  BY <1>4 DEF Exec!Setting, Exec!Set, Exec!Notify
<1> QED
  BY <1>1, <1>2, <1>3, <1>4

LEMMA ProgramNext == ProgramInv /\ [Exec!Next]_(Exec!vars) => ProgramInv'
<1> SUFFICES ASSUME ProgramInv, [Exec!Next]_(Exec!vars) PROVE ProgramInv'
  OBVIOUS
<1>1. UNCHANGED Exec!vars => ProgramInv'
  BY DEF Exec!vars, Exec!conditionVars, Exec!signalVars, Exec!logVars, ProgramInv, Exec!TypeOK,
     CaughtInv, ThreadsInv,
              ReasonInv, OrderInv
<1>2. CASE Exec!Over
  BY <1>1, <1>2 DEF Exec!Over
<1>3. CASE Exec!Next /\ ~Exec!Over
  <2>1. ProgramParts'
    BY <1>3, WaiterSteps, StartupSteps, RunningSteps, ShutdownSteps, SetterSteps, ArriveStep
       DEF Exec!Next, Exec!Main, ProgramInv, ProgramParts
  <2>2. OrderInv'
    BY <1>3, OrderStep, OtherOrderStep DEF Exec!Next
  <2> QED
    BY <2>1, <2>2 DEF ProgramInv, ProgramParts
<1> QED
  BY <1>1, <1>2, <1>3

LEMMA ProgramAlways == Exec!Spec => []ProgramInv
  BY ProgramStart, ProgramNext, PTL DEF Exec!Spec

-----------------------------------------------------------------------------
\* Every variable keeps its type.
THEOREM ProgramTypes == Exec!Spec => []Exec!TypeOK
<1>1. ProgramInv => Exec!TypeOK
  BY DEF ProgramInv
<1> QED
  BY ProgramAlways, <1>1, PTL

\* globalShutdown() wakes the waiter with SIGHUP and survives it.
THEOREM HangUpSurvived == Exec!Spec => []Exec!OwnSignalHarmless
<1>1. ProgramInv => Exec!OwnSignalHarmless
  BY DEF ProgramInv, CaughtInv, Exec!OwnSignalHarmless
<1> QED
  BY ProgramAlways, <1>1, PTL

\* No thread is left when the members of the program are gone.
THEOREM ThreadsEndFirst == Exec!Spec => []Exec!MembersOutliveThreads
<1>1. ProgramInv => Exec!MembersOutliveThreads
  BY DEF ProgramInv, ThreadsInv, Exec!MembersOutliveThreads, Exec!Setters
<1> QED
  BY ProgramAlways, <1>1, PTL

\* The main thread knows which signal woke it, if one did.
THEOREM SignalReported == Exec!Spec => []Exec!ReasonIsKnown
<1>1. ProgramInv => Exec!ReasonIsKnown
  BY DEF ProgramInv, ReasonInv, Exec!ReasonIsKnown
<1> QED
  BY ProgramAlways, <1>1, PTL

\* Records logged before there was a logger come first, none lost or repeated.
THEOREM EarlyRecordsKept == Exec!Spec => []Exec!EarlyRecordsFirst
<1>1. ProgramInv => Exec!EarlyRecordsFirst
  <2> SUFFICES ASSUME ProgramInv, main \in {"run"} \union Exec!Waiting
               PROVE  delivered = [i \in 1..logged |-> i]
    BY DEF Exec!EarlyRecordsFirst
  <2>1. pending = <<>>
    BY DEF ProgramInv, OrderInv, Started
  <2>2. Len(delivered) = logged /\ \A i \in 1..logged : delivered[i] = i
    BY <2>1 DEF ProgramInv, Exec!TypeOK, OrderInv, Ordered
  <2> QED
    BY <2>2 DEF ProgramInv, Exec!TypeOK
<1> QED
  BY ProgramAlways, <1>1, PTL

-----------------------------------------------------------------------------
(***************************************************************************)
(* Program: a signal is not missed, the safety that SignalEndsProgram rests*)
(* on.  Between its look at the value and its sleep the main thread holds  *)
(* the mutex, so nobody sets the value in between; the waiter, once it has *)
(* handled a signal, has set the value or is about to.                     *)
(***************************************************************************)
\* The main thread holds the mutex in two places only, and leaves both by itself.
MutexInv ==
    /\ main \in {"check", "block"} => owner = "main"
    /\ owner = "main" => main \in {"check", "block", "killed"}

\* It does not fall asleep on a value that is set, and whoever sets it later is still to
\* notify.
WakeUpInv ==
    /\ main = "block" => ~value
    /\ main = "sleep" /\ value => \E t \in Exec!Setters : setter[t] = "notify"

\* The waiter listens until run() has ended: it has a handler registered, or its handler
\* has run and the value is set or about to be.
ListenInv ==
    /\ main \in {"configure", "drain"} \union Started => setter["waiter"] # "none"
    /\ stopped => main \in {"join", "destroy", "exited", "killed"}
    /\ stopped /\ main = "destroy" => setter["waiter"] = "ended"
    /\ setter["waiter"] = "ended" => stopped
    /\ setter["waiter"] = "idle" => armed \/ value \/ main \in Exec!Ended
    /\ setter["waiter"] = "notify" => value

ConditionInv == MutexInv /\ WakeUpInv /\ ListenInv

LEMMA ConditionStart == Exec!Init => ConditionInv
  BY DEF Exec!Init, ConditionInv, MutexInv, WakeUpInv, ListenInv, Started, Exec!Waiting,
     Exec!Setters, Exec!None

\* The main thread, and a wait that ends by itself.
LEMMA MainConditionStep ==
    ASSUME ProgramInv, ConditionInv, Exec!Alive, Exec!Main \/ Exec!Spurious
    PROVE  ConditionInv'
<1> USE DEF ConditionInv, MutexInv, WakeUpInv, ListenInv, Started, Exec!Waiting, Exec!Setters,
       Exec!None, Exec!conditionVars, Exec!signalVars, Exec!Ended
<1>0. setter \in [Exec!Setters -> Exec!SetterStates] /\ value \in BOOLEAN
  BY DEF ProgramInv, Exec!TypeOK
<1>1. CASE Exec!Startup
  BY <1>0, <1>1 DEF Exec!Startup, Exec!Daemonize, Exec!StartWaiter, Exec!LogEarly,
     Exec!BadConfiguration, Exec!SetGlobal, Exec!Drain
<1>2. CASE Exec!LogLate \/ Exec!Wait \/ Exec!RunFails \/ Exec!Report \/ Exec!StopRunner
  BY <1>0, <1>2 DEF Exec!LogLate, Exec!Wait, Exec!RunFails, Exec!Report, Exec!StopRunner
<1>3. CASE Exec!Lock
  BY <1>0, <1>3 DEF Exec!Lock
<1>4. CASE Exec!Check
  BY <1>0, <1>4 DEF Exec!Check
<1>5. CASE Exec!Block
  BY <1>0, <1>5 DEF Exec!Block
<1>6. CASE Exec!Spurious
  BY <1>0, <1>6 DEF Exec!Spurious
<1>7. CASE Exec!Shutdown
  BY <1>0, <1>7 DEF Exec!Shutdown, Exec!HangUp, Exec!Stop, Exec!Join, Exec!Destroy
<1> QED
  BY <1>1, <1>2, <1>3, <1>4, <1>5, <1>6, <1>7 DEF Exec!Main, Exec!Running

\* The waiter, the runner, and signals.
LEMMA OtherConditionStep ==
    ASSUME ProgramInv, ConditionInv,
           \/ \E s \in Exec!Signals : Exec!Arrive(s)
           \/ /\ Exec!Alive
              /\ \/ Exec!Waiter \/ Exec!RunnerDone
                 \/ \E t \in Exec!Setters : Exec!Setting(t)
    PROVE  ConditionInv'
<1> USE DEF ConditionInv, MutexInv, WakeUpInv, ListenInv, Started, Exec!Waiting, Exec!Setters,
       Exec!None, Exec!conditionVars, Exec!signalVars, Exec!Ended
<1>0. setter \in [Exec!Setters -> Exec!SetterStates] /\ value \in BOOLEAN
  BY DEF ProgramInv, Exec!TypeOK
<1>1. ASSUME NEW s \in Exec!Signals, Exec!Arrive(s)
      PROVE  ConditionInv'
  BY <1>0, <1>1 DEF Exec!Arrive
<1>2. CASE Exec!Waiter
  BY <1>0, <1>2 DEF Exec!Waiter, Exec!WaiterStart, Exec!WaiterHandle, Exec!WaiterEnd
<1>3. CASE Exec!RunnerDone
  BY <1>0, <1>3 DEF Exec!RunnerDone
<1>4. ASSUME NEW t \in Exec!Setters, Exec!Set(t)
      PROVE  ConditionInv'
  BY <1>0, <1>4 DEF Exec!Set, Exec!MutexForSet
<1>5. ASSUME NEW t \in Exec!Setters, Exec!Notify(t)
      PROVE  ConditionInv'
  BY <1>0, <1>5 DEF Exec!Notify
<1> QED
  BY <1>1, <1>2, <1>3, <1>4, <1>5 DEF Exec!Setting

LEMMA ConditionNext ==
    ProgramInv /\ ConditionInv /\ [Exec!Next]_(Exec!vars) => ConditionInv'
<1> SUFFICES ASSUME ProgramInv, ConditionInv, [Exec!Next]_(Exec!vars) PROVE ConditionInv'
  OBVIOUS
<1>1. CASE UNCHANGED Exec!vars
  BY <1>1 DEF Exec!vars, Exec!conditionVars, Exec!signalVars, ConditionInv, MutexInv, WakeUpInv,
     ListenInv
<1>2. CASE Exec!Over
  BY <1>1, <1>2 DEF Exec!Over
<1> QED
  BY <1>1, <1>2, MainConditionStep, OtherConditionStep DEF Exec!Next

\* While the main thread waits for the exit condition, a signal that is caught finds the
\* waiter ready for it or the condition already set; the condition is not set behind the
\* back of a main thread that sleeps, unless it is still to be notified; and a mutex that
\* keeps a setter waiting is held by a main thread that is about to release it.
ExitNotMissed ==
    /\ main \in {"lock", "check", "block", "sleep"} =>
           \/ value
           \/ setter["waiter"] \in {"start", "set"}
           \/ setter["waiter"] = "idle" /\ armed /\ ~stopped
    /\ main = "sleep" /\ value => \E t \in Exec!Setters : setter[t] = "notify"
    /\ owner # Exec!None /\ Exec!Alive => main \in {"check", "block"}

\* No wake-up of the main thread is lost (Condition::set(), wait(), SignalWaiter): the
\* safety part of what SignalEndsProgram says, for any number of signals.
THEOREM SignalNotMissed == Exec!Spec => []ExitNotMissed
<1>1. ProgramInv /\ ConditionInv => ExitNotMissed
  <2> SUFFICES ASSUME ProgramInv, ConditionInv PROVE ExitNotMissed
    OBVIOUS
  <2>1. setter["waiter"] \in Exec!SetterStates
    BY DEF ProgramInv, Exec!TypeOK, Exec!Setters
  <2>2. owner \in {Exec!None, "main"}
    BY DEF ProgramInv, Exec!TypeOK
  <2> QED
    BY <2>1, <2>2 DEF ConditionInv, MutexInv, WakeUpInv, ListenInv, ExitNotMissed,
       Exec!SetterStates,
       Started, Exec!Waiting, Exec!Ended, Exec!Alive
<1> QED
  BY ProgramAlways, ConditionStart, ConditionNext, <1>1, PTL DEF Exec!Spec

-----------------------------------------------------------------------------
(***************************************************************************)
(* PingRunner: the main thread looks at its workers only, and never at     *)
(* completions; a worker is known to have ended, and it ends only after its*)
(* client has let go of every completion.  The invariant says where a worker*)
(* must be while one of its completions is alive.                          *)
(***************************************************************************)
\* A completion that is alive has a worker that has not left its client behind.
CompletionInv ==
    \A t \in Threads : alive[t] > 0 => thread[t] \in {"loop", "waiting", "check", "closing"}

\* A runner that is freed has joined every worker.
JoinInv == pingMain = "freed" => \A t \in Threads : thread[t] = "ended"

PingInv == Ping!TypeOK /\ CompletionInv /\ JoinInv

-----------------------------------------------------------------------------
LEMMA PingStart == Ping!Init => PingInv
<1> SUFFICES ASSUME Ping!Init PROVE PingInv
  OBVIOUS
<1> USE IterationsAssumption, MaxPendingAssumption DEF Ping!Init
<1>1. Ping!TypeOK
  <2>1. thread \in [Threads -> Ping!ThreadStates]
    BY DEF Ping!ThreadStates
  <2>2. left \in [Threads -> 0..Iterations] /\ alive \in [Threads -> 0..MaxPending]
    OBVIOUS
  <2>3. exit \in BOOLEAN /\ wait \in BOOLEAN /\ endless \in BOOLEAN
    OBVIOUS
  <2> QED
    BY <2>1, <2>2, <2>3 DEF Ping!TypeOK, Ping!MainStates
<1>2. CompletionInv /\ JoinInv
  BY DEF CompletionInv, JoinInv
<1> QED
  BY <1>1, <1>2 DEF PingInv

\* The main thread and signals do not touch the completions.
LEMMA MainStep == PingInv /\ (Ping!Main \/ Ping!Signal) => PingInv'
<1> SUFFICES ASSUME PingInv, Ping!Main \/ Ping!Signal PROVE PingInv'
  OBVIOUS
<1> USE DEF PingInv, Ping!TypeOK, CompletionInv, JoinInv, Ping!options, Ping!MainStates
<1>1. ASSUME NEW t \in Threads, Ping!Spawn(t)
      PROVE  PingInv'
  BY <1>1 DEF Ping!Spawn, Ping!Goto, Ping!ThreadStates, Ping!Counted
<1>2. CASE Ping!Constructed
  BY <1>2 DEF Ping!Constructed
<1>3. CASE Ping!Signal
  BY <1>3 DEF Ping!Signal
<1>4. CASE Ping!WakeUp
  BY <1>4 DEF Ping!WakeUp
<1>5. ASSUME NEW t \in Threads, Ping!RequestStop(t)
      PROVE  PingInv'
  BY <1>5 DEF Ping!RequestStop
<1>6. CASE Ping!Destroyed
  BY <1>6 DEF Ping!Destroyed, Ping!Joined
<1> QED
  BY <1>1, <1>2, <1>3, <1>4, <1>5, <1>6 DEF Ping!Main

\* A worker goes through its loop, and leaves it only without completions.
LEMMA WorkStep == ASSUME PingInv, NEW t \in Threads, Ping!Work(t) PROVE PingInv'
<1> USE DEF PingInv, Ping!TypeOK, CompletionInv, JoinInv, Ping!options, Ping!MainStates,
       Ping!Alive, Ping!Goto
<1>1. CASE Ping!Busy(t)
  BY <1>1 DEF Ping!Busy, Ping!ThreadStates, Ping!Counted
<1>2. CASE Ping!Enter(t)
  BY <1>2 DEF Ping!Enter, Ping!ThreadStates, Ping!Counted
<1>3. CASE Ping!Issue(t)
  <2>1. /\ thread[t] = "loop" /\ alive[t] < MaxPending
        /\ left' = [left EXCEPT ![t] = Ping!LeftAfter(t)]
        /\ alive' = [alive EXCEPT ![t] = alive[t] + 1]
        /\ busy' = busy + 1
        /\ thread' = [thread EXCEPT ![t] = IF wait THEN "waiting" ELSE "check"]
        /\ UNCHANGED <<pingMain, exit, stop, Ping!options>>
    BY <1>3 DEF Ping!Issue, Ping!CompletionCounted
  <2>2. Ping!LeftAfter(t) \in 0..Iterations
    BY <1>3, IterationsAssumption DEF Ping!Issue, Ping!LeftAfter
  <2>3. alive[t] + 1 \in 0..MaxPending
    BY <2>1, MaxPendingAssumption
  <2>4. pingMain # "freed"
    BY <2>1
  <2>5. thread' \in [Threads -> Ping!ThreadStates]
    BY <2>1 DEF Ping!ThreadStates, Ping!Counted
  <2>6. \A u \in Threads : alive'[u] > 0 => thread'[u] \in {"loop", "waiting", "check", "closing"}
    BY <2>1
  <2> QED
    BY <2>1, <2>2, <2>3, <2>4, <2>5, <2>6
<1>4. CASE Ping!Waited(t)
  BY <1>4 DEF Ping!Waited, Ping!ThreadStates, Ping!Counted
<1>5. CASE Ping!CheckStop(t)
  BY <1>5 DEF Ping!CheckStop, Ping!AfterIteration, Ping!ThreadStates, Ping!Counted
<1>6. CASE Ping!Exhausted(t)
  BY <1>6 DEF Ping!Exhausted, Ping!ThreadStates, Ping!Counted
<1>7. CASE Ping!Close(t)
  BY <1>7 DEF Ping!Close, Ping!CanClose, Ping!ThreadStates, Ping!Counted
<1>8. CASE Ping!Leave(t)
  BY <1>8 DEF Ping!Leave, Ping!Idle, Ping!ThreadStates, Ping!Counted
<1> QED
  BY <1>1, <1>2, <1>3, <1>4, <1>5, <1>6, <1>7, <1>8 DEF Ping!Work

\* A completion that is destroyed was alive: its worker is where it may be.
LEMMA CompleteStep == ASSUME PingInv, NEW t \in Threads, Ping!Complete(t) PROVE PingInv'
<1> USE DEF PingInv, Ping!TypeOK, CompletionInv, JoinInv, Ping!options
<1>1. /\ alive[t] > 0
      /\ alive' = [alive EXCEPT ![t] = alive[t] - 1]
      /\ busy' = busy - 1 /\ exit' = (exit \/ Ping!LastOne)
      /\ UNCHANGED <<pingMain, thread, left, stop, Ping!options>>
  BY DEF Ping!Complete, Ping!Idle
<1>2. alive' \in [Threads -> 0..MaxPending]
  BY <1>1, MaxPendingAssumption
<1>3. exit' \in BOOLEAN /\ busy' \in Int
  BY <1>1
<1>4. CompletionInv'
  BY <1>1
<1> QED
  BY <1>1, <1>2, <1>3, <1>4

LEMMA PingNext == PingInv /\ [Ping!Next]_(Ping!vars) => PingInv'
<1> SUFFICES ASSUME PingInv, [Ping!Next]_(Ping!vars) PROVE PingInv'
  OBVIOUS
<1>1. CASE UNCHANGED Ping!vars
  BY <1>1 DEF Ping!vars, PingInv, Ping!TypeOK, CompletionInv, JoinInv
<1>2. CASE Ping!Over
  BY <1>2 DEF Ping!Over, Ping!vars, PingInv, Ping!TypeOK, CompletionInv, JoinInv
<1> QED
  BY <1>1, <1>2, MainStep, WorkStep, CompleteStep DEF Ping!Next

LEMMA PingAlways == Ping!Spec => []PingInv
  BY PingStart, PingNext, PTL DEF Ping!Spec

-----------------------------------------------------------------------------
\* Every variable keeps its type: no worker runs more iterations than it was given.
THEOREM PingTypes == Ping!Spec => []Ping!TypeOK
<1>1. PingInv => Ping!TypeOK
  BY DEF PingInv
<1> QED
  BY PingAlways, <1>1, PTL

LEMMA PingIsLast == PingInv => Ping!NobodyOutlivesRunner
<1> SUFFICES ASSUME PingInv, pingMain = "freed", NEW t \in Threads
             PROVE  thread[t] = "ended" /\ alive[t] = 0
  BY DEF Ping!NobodyOutlivesRunner
<1>1. thread[t] = "ended"
  BY DEF PingInv, JoinInv
<1>2. ~(alive[t] > 0) /\ alive[t] \in 0..MaxPending
  BY <1>1 DEF PingInv, CompletionInv, Ping!TypeOK
<1> QED
  BY <1>1, <1>2, MaxPendingAssumption

\* When the runner is freed no worker runs and no completion is alive.
THEOREM RunnerIsLast == Ping!Spec => []Ping!NobodyOutlivesRunner
  BY PingAlways, PingIsLast, PTL

-----------------------------------------------------------------------------
(***************************************************************************)
(* PingRunner: the last idle() is not missed.  m_busy counts its users: a  *)
(* worker between busy() and idle(), and the completions that are alive.   *)
(***************************************************************************)
\* A worker is the pair with 0, its i-th completion the pair with i.
Pairs == Threads \X (0..MaxPending)
Users == {u \in Pairs : IF u[2] = 0 THEN thread[u[1]] \in Ping!Counted ELSE u[2] <= alive[u[1]]}

\* The workers that have called busy(), some of which have called idle() since.
Present == {t \in Threads : thread[t] \notin {"none", "new"}}

BusyInv ==
    /\ busy = Cardinality(Users)
    /\ Present # {} => exit \/ busy > 0

LEMMA UsersFinite == IsFiniteSet(Users) /\ Cardinality(Users) \in Nat
<1>1. IsFiniteSet(0..MaxPending)
  BY MaxPendingAssumption, FS_Interval
<1>2. IsFiniteSet(Pairs)
  BY <1>1, ThreadsAssumption, FS_Product DEF Pairs
<1>3. Users \in SUBSET Pairs
  BY DEF Users
<1> QED
  BY <1>2, <1>3, FS_Subset, FS_CardinalityType

\* A pair comes or goes.
LEMMA OneMore == ASSUME NEW u, u \notin Users, Users' = Users \union {u}
                 PROVE  Cardinality(Users') = Cardinality(Users) + 1
  BY UsersFinite, FS_AddElement

LEMMA OneLess == ASSUME NEW u, u \in Users, Users' = Users \ {u}
                 PROVE  Cardinality(Users') = Cardinality(Users) - 1
  BY UsersFinite, FS_RemoveElement

LEMMA OneBusier ==
    ASSUME BusyInv, NEW u, u \notin Users, Users' = Users \union {u}, busy' = busy + 1
    PROVE  BusyInv'
<1>1. busy \in Nat
  BY UsersFinite DEF BusyInv
<1>2. busy' = Cardinality(Users')
  BY OneMore DEF BusyInv
<1>3. busy' > 0
  BY <1>1
<1> QED
  BY <1>2, <1>3 DEF BusyInv

\* The counter falls to zero, or somebody is left.
LEMMA IdleCounts ==
    ASSUME BusyInv, Ping!Idle, NEW u, u \in Users, Users' = Users \ {u}
    PROVE  BusyInv'
<1>1. busy \in Nat /\ busy' = busy - 1 /\ exit' = (exit \/ busy = 1)
  BY UsersFinite DEF BusyInv, Ping!Idle, Ping!LastOne
<1>2. busy # 0
  BY UsersFinite, FS_EmptySet DEF BusyInv
<1>3. busy' = Cardinality(Users')
  BY <1>1, OneLess DEF BusyInv
<1>4. busy' > 0 \/ busy = 1
  BY <1>1, <1>2
<1>5. busy = 1 => exit'
  BY <1>1
<1> QED
  BY <1>3, <1>4, <1>5 DEF BusyInv

\* Who has started remains so, and exit is not taken back.
LEMMA QuietStep ==
    ASSUME BusyInv, Users' = Users, busy' = busy, exit => exit', Present' \subseteq Present
    PROVE  BusyInv'
  BY DEF BusyInv

LEMMA BusyStart == Ping!Init => BusyInv
<1> SUFFICES ASSUME Ping!Init PROVE BusyInv
  OBVIOUS
<1>1. Users = {}
  BY MaxPendingAssumption DEF Ping!Init, Users, Pairs, Ping!Counted
<1>2. Present = {}
  BY DEF Ping!Init, Present
<1> QED
  BY <1>1, <1>2, FS_EmptySet DEF Ping!Init, BusyInv

\* The main thread and signals touch neither users nor counter.
LEMMA MainBusyStep == ASSUME PingInv, BusyInv, Ping!Main \/ Ping!Signal PROVE BusyInv'
<1>0. Ping!TypeOK
  BY DEF PingInv
<1>1. ASSUME NEW t \in Threads, Ping!Spawn(t)
      PROVE  BusyInv'
  <2>1. Users' = Users
    BY <1>0, <1>1 DEF Ping!Spawn, Ping!Goto, Users, Pairs, Ping!Counted, Ping!TypeOK
  <2>2. Present' \subseteq Present
    BY <1>0, <1>1 DEF Ping!Spawn, Ping!Goto, Present, Ping!TypeOK
  <2> QED
    BY <1>1, <2>1, <2>2, QuietStep DEF Ping!Spawn
<1>2. CASE UNCHANGED <<thread, alive, busy>> /\ (exit => exit')
  <2>1. Users' = Users /\ Present' = Present
    BY <1>2 DEF Users, Present
  <2> QED
    BY <1>2, <2>1, QuietStep
<1> QED
  BY <1>1, <1>2 DEF Ping!Main, Ping!Signal, Ping!Constructed, Ping!WakeUp, Ping!RequestStop,
     Ping!Destroyed

\* A worker comes with busy() and goes with idle(); in between it makes completions.
LEMMA WorkBusyStep == ASSUME PingInv, BusyInv, NEW t \in Threads, Ping!Work(t) PROVE BusyInv'
<1>0. Ping!TypeOK
  BY DEF PingInv
<1> USE MaxPendingAssumption
<1>1. CASE Ping!Busy(t)
  <2>1. thread[t] = "new" /\ thread' = [thread EXCEPT ![t] = "ready"] /\ alive' = alive
    BY <1>1 DEF Ping!Busy, Ping!Goto
  <2>2. <<t, 0>> \notin Users /\ Users' = Users \union {<<t, 0>>}
    BY <1>0, <2>1 DEF Users, Pairs, Ping!Counted, Ping!TypeOK
  <2>3. busy' = busy + 1
    BY <1>1 DEF Ping!Busy
  <2> QED
    BY <2>2, <2>3, OneBusier
<1>2. CASE Ping!Issue(t)
  <2>1. /\ thread[t] = "loop" /\ thread' = [thread EXCEPT ![t] = IF wait THEN "waiting" ELSE "check"]
        /\ alive[t] < MaxPending /\ alive' = [alive EXCEPT ![t] = alive[t] + 1]
        /\ busy' = busy + 1
    BY <1>2 DEF Ping!Issue, Ping!Goto, Ping!CompletionCounted
  <2>2. <<t, alive[t] + 1>> \notin Users
    BY <1>0, <2>1 DEF Users, Ping!TypeOK
  <2>3. Users' = Users \union {<<t, alive[t] + 1>>}
    BY <1>0, <2>1 DEF Users, Pairs, Ping!Counted, Ping!TypeOK
  <2> QED
    BY <2>1, <2>2, <2>3, OneBusier
<1>3. CASE Ping!Leave(t)
  <2>1. thread[t] = "idle" /\ thread' = [thread EXCEPT ![t] = "ended"] /\ alive' = alive
    BY <1>3 DEF Ping!Leave, Ping!Goto
  <2>2. <<t, 0>> \in Users /\ Users' = Users \ {<<t, 0>>}
    BY <1>0, <2>1 DEF Users, Pairs, Ping!Counted, Ping!TypeOK
  <2> QED
    BY <1>3, <2>2, IdleCounts DEF Ping!Leave
<1>4. ASSUME NEW state \in Ping!Counted, thread[t] \in Ping!Counted,
             thread' = [thread EXCEPT ![t] = state], UNCHANGED <<alive, busy, exit>>
      PROVE  BusyInv'
  <2>1. Users' = Users
    BY <1>0, <1>4 DEF Users, Pairs, Ping!TypeOK
  <2>2. Present' \subseteq Present
    BY <1>0, <1>4 DEF Present, Ping!TypeOK, Ping!Counted
  <2> QED
    BY <1>4, <2>1, <2>2, QuietStep
<1>5. CASE Ping!Enter(t) \/ Ping!Waited(t) \/ Ping!CheckStop(t) \/ Ping!Exhausted(t) \/ Ping!Close(t)
  <2>1. /\ thread[t] \in Ping!Counted /\ UNCHANGED <<alive, busy, exit>>
        /\ \E state \in Ping!Counted : thread' = [thread EXCEPT ![t] = state]
    BY <1>5 DEF Ping!Enter, Ping!Waited, Ping!CheckStop, Ping!AfterIteration, Ping!Exhausted,
       Ping!Close, Ping!Goto, Ping!Counted
  <2> QED
    BY <1>4, <2>1
<1> QED
  BY <1>1, <1>2, <1>3, <1>5 DEF Ping!Work

LEMMA CompleteBusyStep == ASSUME PingInv, BusyInv, NEW t \in Threads, Ping!Complete(t) PROVE BusyInv'
<1>0. Ping!TypeOK
  BY DEF PingInv
<1>1. /\ alive[t] \in Nat /\ alive[t] > 0 /\ thread' = thread
      /\ alive' = [alive EXCEPT ![t] = alive[t] - 1] /\ Ping!Idle
  BY <1>0, MaxPendingAssumption DEF Ping!Complete, Ping!TypeOK
<1>2. <<t, alive[t]>> \in Users /\ Users' = Users \ {<<t, alive[t]>>}
  BY <1>0, <1>1, MaxPendingAssumption DEF Users, Pairs, Ping!TypeOK
<1> QED
  BY <1>1, <1>2, IdleCounts

LEMMA BusyNext == PingInv /\ BusyInv /\ [Ping!Next]_(Ping!vars) => BusyInv'
<1> SUFFICES ASSUME PingInv, BusyInv, [Ping!Next]_(Ping!vars) PROVE BusyInv'
  OBVIOUS
<1>1. CASE UNCHANGED Ping!vars
  BY <1>1 DEF Ping!vars, BusyInv, Users, Present
<1>2. CASE Ping!Over
  BY <1>1, <1>2 DEF Ping!Over
<1> QED
  BY <1>1, <1>2, MainBusyStep, WorkBusyStep, CompleteBusyStep DEF Ping!Next

\* The counter is never wrong: it is zero exactly when no worker and no completion uses
\* it; and when the last of them is gone the main thread has been told to exit.
LastIdleSeen ==
    /\ busy = 0 <=> \A t \in Threads : thread[t] \notin Ping!Counted /\ alive[t] = 0
    /\ Threads # {} /\ (\A t \in Threads : thread[t] = "ended") => busy = 0 /\ exit

\* The last idle() wakes the main thread, whatever the order in which workers end and
\* completions are destroyed (RunnerBase::busy(), idle()): the safety part of what
\* PingEnds says of a runner with a count, for any number of workers and iterations.
THEOREM LastIdleNotMissed == Ping!Spec => []LastIdleSeen
<1>1. PingInv /\ BusyInv => LastIdleSeen
  <2> SUFFICES ASSUME PingInv, BusyInv PROVE LastIdleSeen
    OBVIOUS
  <2>1. busy = 0 <=> Users = {}
    BY UsersFinite, FS_EmptySet DEF BusyInv
  <2>2. \A t \in Threads : alive[t] \in 0..MaxPending
    BY DEF PingInv, Ping!TypeOK
  <2>3. ASSUME Users = {}, NEW t \in Threads
        PROVE  thread[t] \notin Ping!Counted /\ alive[t] = 0
    <3>1. <<t, 0>> \in Pairs /\ <<t, 0>> \notin Users
      BY <2>3, MaxPendingAssumption DEF Pairs
    <3>2. <<t, alive[t]>> \in Pairs /\ <<t, alive[t]>> \notin Users
      BY <2>2, <2>3 DEF Pairs
    <3> QED
      BY <2>2, <3>1, <3>2, MaxPendingAssumption DEF Users
  <2>4. ASSUME \A t \in Threads : thread[t] \notin Ping!Counted /\ alive[t] = 0
        PROVE  Users = {}
    BY <2>4 DEF Users, Pairs
  <2>5. ASSUME Threads # {}, \A t \in Threads : thread[t] = "ended"
        PROVE  busy = 0 /\ exit
    <3>1. \A t \in Threads : alive[t] = 0
      BY <2>2, <2>5, MaxPendingAssumption DEF PingInv, CompletionInv
    <3>2. busy = 0
      BY <2>1, <2>4, <2>5, <3>1 DEF Ping!Counted
    <3>3. Present # {}
      BY <2>5 DEF Present
    <3> QED
      BY <3>2, <3>3 DEF BusyInv
  <2> QED
    BY <2>1, <2>3, <2>4, <2>5 DEF LastIdleSeen
<1> QED
  BY PingAlways, BusyStart, BusyNext, <1>1, PTL DEF Ping!Spec

-----------------------------------------------------------------------------
(***************************************************************************)
(* AssertPrinter: a failed assertion is a finite number of steps, of which *)
(* each thread can take its own whatever the others do: the safety that    *)
(* FailureAborts rests on.  A compare-exchange that fails has a price, too:*)
(* what it finds it expects the next time, so it fails again only if       *)
(* another thread has taken its turn in between.                           *)
(***************************************************************************)
PrinterInv ==
    /\ pc \in [Threads -> Printer!PcStates]
    /\ depth \in [Threads -> 0..MaxDepth]
    /\ expected \in [Threads -> {0, 1}] /\ active \in {0, 1}

\* What a thread has to do: to go through the report it is in, and those that may still
\* fail within it.
PcRank(state) ==
    CASE state = "try"   -> 4
      [] state = "print" -> 3
      [] state = "leave" -> 2
      [] state = "abort" -> 1
      [] OTHER           -> 0
Rank(t) == 5 * (MaxDepth - depth[t]) + PcRank(pc[t])

\* All of it: each thread with the numbers below its rank, a finite set.
Places == Threads \X (0..(5 * MaxDepth + 4))
ToDo == {u \in Places : u[2] < Rank(u[1])}

\* The threads whose next compare-exchange fails.
Mistaken == {t \in Threads : pc[t] = "try" /\ expected[t] # active}

Less(S, T) == S \subseteq T /\ S # T

LEMMA PrinterStart == Printer!Init => PrinterInv
  BY PrinterAssumption DEF Printer!Init, PrinterInv, Printer!PcStates

LEMMA PrinterNext == PrinterInv /\ [Printer!Next]_(Printer!vars) => PrinterInv'
<1> SUFFICES ASSUME PrinterInv, [Printer!Next]_(Printer!vars) PROVE PrinterInv'
  OBVIOUS
<1> USE PrinterAssumption DEF PrinterInv, Printer!PcStates
<1>1. ASSUME NEW t \in Threads, Printer!Fail(t) PROVE PrinterInv'
  <2>1. depth[t] + 1 \in 0..MaxDepth
    BY <1>1 DEF Printer!Fail
  <2> QED
    BY <1>1, <2>1 DEF Printer!Fail
<1>2. ASSUME NEW t \in Threads, Printer!Step(t) PROVE PrinterInv'
  BY <1>2 DEF Printer!Step, Printer!TryAgain, Printer!Report, Printer!Leave, Printer!Released,
     Printer!Abort
<1>3. CASE UNCHANGED Printer!vars
  BY <1>3 DEF Printer!vars
<1> QED
  BY <1>1, <1>2, <1>3 DEF Printer!Next, Printer!Dead

LEMMA ToDoFinite == IsFiniteSet(Threads) /\ IsFiniteSet(Places)
<1>1. IsFiniteSet(0..(5 * MaxDepth + 4))
  BY PrinterAssumption, FS_Interval
<1> QED
  BY <1>1, ThreadsAssumption, FS_Product DEF Places

\* One thread has a lower rank, and the others have theirs.
LEMMA LowerRank ==
    ASSUME PrinterInv, PrinterInv', NEW t \in Threads, Rank(t)' < Rank(t),
           \A u \in Threads \ {t} : Rank(u)' = Rank(u)
    PROVE  Less(ToDo', ToDo)
<1> DEFINE r == [u \in Threads |-> Rank(u)]
           s == [u \in Threads |-> Rank(u)']
<1>1. \A u \in Threads : r[u] \in 0..(5 * MaxDepth + 4) /\ s[u] \in 0..(5 * MaxDepth + 4)
  <2> SUFFICES ASSUME NEW u \in Threads
               PROVE  Rank(u) \in 0..(5 * MaxDepth + 4) /\ Rank(u)' \in 0..(5 * MaxDepth + 4)
    OBVIOUS
  <2>1. PcRank(pc[u]) \in 0..4 /\ PcRank(pc'[u]) \in 0..4
    BY DEF PcRank
  <2>2. MaxDepth - depth[u] \in 0..MaxDepth /\ MaxDepth - depth'[u] \in 0..MaxDepth
    BY PrinterAssumption DEF PrinterInv
  <2> QED
    BY <2>1, <2>2, PrinterAssumption DEF Rank
<1>2. s[t] < r[t] /\ \A u \in Threads \ {t} : s[u] = r[u]
  OBVIOUS
<1>3. ToDo = {u \in Places : u[2] < r[u[1]]} /\ ToDo' = {u \in Places : u[2] < s[u[1]]}
  BY DEF ToDo, Places
<1> HIDE DEF r, s
<1>4. ToDo' \subseteq ToDo
  <2> SUFFICES ASSUME NEW u \in Places, u[2] < s[u[1]] PROVE u[2] < r[u[1]]
    BY <1>3
  <2>1. u[1] \in Threads /\ u[2] \in 0..(5 * MaxDepth + 4)
    BY DEF Places
  <2> QED
    BY <1>1, <1>2, <2>1, PrinterAssumption
<1>5. <<t, s[t]>> \in ToDo /\ <<t, s[t]>> \notin ToDo'
  <2>1. <<t, s[t]>> \in Places
    BY <1>1 DEF Places
  <2>2. ~(s[t] < s[t])
    BY <1>1, PrinterAssumption
  <2> QED
    BY <1>2, <1>3, <2>1, <2>2
<1> QED
  BY <1>4, <1>5 DEF Less

\* Each step leaves less to do, or makes one more thread expect what it will find, or ends
\* the process.
Descends ==
    \/ Less(ToDo', ToDo)
    \/ ToDo' = ToDo /\ Less(Mistaken', Mistaken)
    \/ aborted'

LEMMA PrinterDescends ==
    PrinterInv /\ PrinterInv' /\ [Printer!Next]_(Printer!vars) => [Descends]_(Printer!vars)
<1> SUFFICES ASSUME PrinterInv, PrinterInv', Printer!Next, ~UNCHANGED Printer!vars
             PROVE  Descends
  BY DEF Descends
<1>1. ASSUME NEW t \in Threads, Printer!Fail(t) PROVE Descends
  <2>1. /\ depth' = [depth EXCEPT ![t] = depth[t] + 1] /\ pc' = [pc EXCEPT ![t] = "try"]
        /\ pc[t] \in {"run", "print"} /\ depth[t] \in 0..MaxDepth
    BY <1>1 DEF Printer!Fail, PrinterInv
  <2>2. \A u \in Threads \ {t} : depth'[u] = depth[u] /\ pc'[u] = pc[u]
    BY <2>1 DEF PrinterInv
  <2>3. depth'[t] = depth[t] + 1 /\ PcRank(pc'[t]) = 4 /\ PcRank(pc[t]) \in {0, 3}
    BY <2>1 DEF PrinterInv, PcRank
  <2>4. Rank(t)' < Rank(t)
    <3> DEFINE p == PcRank(pc[t])
               q == PcRank(pc'[t])
               d == depth[t]
               e == depth'[t]
    <3>1. e = d + 1 /\ q = 4 /\ p \in {0, 3} /\ d \in 0..MaxDepth
      BY <2>1, <2>3
    <3>2. Rank(t) = 5 * (MaxDepth - d) + p /\ Rank(t)' = 5 * (MaxDepth - e) + q
      BY DEF Rank
    <3> HIDE DEF p, q, d, e
    <3>3. 5 * (MaxDepth - e) + q < 5 * (MaxDepth - d) + p
      BY <3>1, PrinterAssumption
    <3> QED
      BY <3>2, <3>3
  <2>5. \A u \in Threads \ {t} : Rank(u)' = Rank(u)
    BY <2>2 DEF Rank
  <2> QED
    BY <2>4, <2>5, LowerRank DEF Descends
<1>2. ASSUME NEW t \in Threads, UNCHANGED depth, NEW state \in Printer!PcStates,
             pc' = [pc EXCEPT ![t] = state], PcRank(state) < PcRank(pc[t])
      PROVE  Descends
  <2>1. \A u \in Threads \ {t} : pc'[u] = pc[u]
    BY <1>2 DEF PrinterInv
  <2>2. pc'[t] = state
    BY <1>2 DEF PrinterInv
  <2>3. Rank(t)' < Rank(t)
    <3> DEFINE p == PcRank(pc[t])
               q == PcRank(pc'[t])
               d == depth[t]
    <3>1. q < p /\ p \in 0..4 /\ q \in 0..4 /\ d \in 0..MaxDepth
      BY <1>2, <2>2 DEF PrinterInv, PcRank
    <3>2. Rank(t) = 5 * (MaxDepth - d) + p /\ Rank(t)' = 5 * (MaxDepth - d) + q
      BY <1>2 DEF Rank
    <3> HIDE DEF p, q, d
    <3>3. 5 * (MaxDepth - d) + q < 5 * (MaxDepth - d) + p
      BY <3>1, PrinterAssumption
    <3> QED
      BY <3>2, <3>3
  <2>4. \A u \in Threads \ {t} : Rank(u)' = Rank(u)
    BY <1>2, <2>1 DEF Rank
  <2> QED
    BY <2>3, <2>4, LowerRank DEF Descends
<1>3. ASSUME NEW t \in Threads, Printer!TryAgain(t) PROVE Descends
  <2>1. CASE Printer!Exchanged(t)
    <3>1. PcRank("print") < PcRank(pc[t])
      BY <1>3 DEF Printer!TryAgain, PcRank
    <3> QED
      BY <1>2, <1>3, <2>1, <3>1 DEF Printer!TryAgain, Printer!PcStates
  <2>2. CASE ~Printer!Exchanged(t)
    <3>1. /\ UNCHANGED <<pc, depth, active>> /\ expected' = [expected EXCEPT ![t] = active]
          /\ pc[t] = "try" /\ expected[t] # active
      BY <1>3, <2>2 DEF Printer!TryAgain, Printer!Exchanged
    <3>2. ToDo' = ToDo
      BY <3>1 DEF ToDo, Rank, Places
    <3>3. Mistaken' = Mistaken \ {t} /\ t \in Mistaken
      BY <3>1 DEF Mistaken, PrinterInv
    <3> QED
      BY <3>2, <3>3 DEF Descends, Less
  <2> QED
    BY <2>1, <2>2
<1>4. ASSUME NEW t \in Threads, Printer!Report(t) PROVE Descends
  <2>1. PcRank("leave") < PcRank(pc[t])
    BY <1>4 DEF Printer!Report, PcRank
  <2> QED
    BY <1>2, <1>4, <2>1 DEF Printer!Report, Printer!PcStates
<1>5. ASSUME NEW t \in Threads, Printer!Leave(t) PROVE Descends
  <2>1. PcRank("abort") < PcRank(pc[t])
    BY <1>5 DEF Printer!Leave, PcRank
  <2> QED
    BY <1>2, <1>5, <2>1 DEF Printer!Leave, Printer!PcStates
<1>6. ASSUME NEW t \in Threads, Printer!Abort(t) PROVE Descends
  BY <1>6 DEF Printer!Abort, Descends
<1>7. CASE Printer!Dead
  BY <1>7 DEF Printer!Dead
<1> QED
  BY <1>1, <1>3, <1>4, <1>5, <1>6, <1>7 DEF Printer!Next, Printer!Step

\* The guards of Step.
PrinterReady(t) == ~aborted /\ pc[t] \in {"try", "print", "leave", "abort"}

\* A thread whose assertion has failed waits for nobody: until the process ends it has a
\* step of its own, and there is only so much that all threads together can do before one
\* of them calls abort() (printFailedAssertion()).  How deep reports nest is bounded by
\* MaxDepth here and not in the code.
THEOREM FailureIsFinite ==
    Printer!Spec =>
        /\ IsFiniteSet(Threads) /\ IsFiniteSet(Places)
        /\ [](~aborted => \A t \in Threads : pc[t] = "run" \/ PrinterReady(t))
        /\ [][Descends]_(Printer!vars)
<1>1. Printer!Spec => []PrinterInv
  BY PrinterStart, PrinterNext, PTL DEF Printer!Spec
<1>2. PrinterInv => (~aborted => \A t \in Threads : pc[t] = "run" \/ PrinterReady(t))
  BY DEF PrinterInv, PrinterReady, Printer!PcStates
<1> QED
  BY <1>1, <1>2, PrinterDescends, ToDoFinite, PTL DEF Printer!Spec

-----------------------------------------------------------------------------
(***************************************************************************)
(* MCWaits: one of the parts runs, the others stay in their initial states.*)
(***************************************************************************)
LEMMA WaitsAlways == WaitsSpec => [](ClientInv /\ ProgramInv /\ PingInv)
<1> DEFINE Inv == ClientInv /\ ProgramInv /\ PingInv
<1>1. WaitsInit => Inv
  BY ClientStart, ProgramStart, PingStart DEF WaitsInit
<1>2. Inv /\ [WaitsNext]_allVars => Inv'
  <2> SUFFICES ASSUME Inv, [WaitsNext]_allVars PROVE Inv'
    OBVIOUS
  <2>1. [Next]_vars
    BY DEF WaitsNext, ClientStep, ProgramStep, PingStep, PrinterStep, allVars
  <2>2. [Exec!Next]_(Exec!vars)
    BY DEF WaitsNext, ClientStep, ProgramStep, PingStep, PrinterStep, allVars, execVars,
           Exec!vars, Exec!conditionVars, Exec!signalVars, Exec!logVars
  <2>3. [Ping!Next]_(Ping!vars)
    BY DEF WaitsNext, ClientStep, ProgramStep, PingStep, PrinterStep, allVars, pingVars,
       Ping!vars, Ping!options
  <2> QED
    BY <2>1, <2>2, <2>3, ClientNext, ProgramNext, PingNext
<1> QED
  BY <1>1, <1>2, PTL DEF WaitsSpec

\* globalShutdown() sends SIGHUP to its own process, and the process survives it on every
\* way out of exec().
THEOREM WaitsSurviveHangUp == WaitsSpec => []OwnSignalHarmless
<1>1. ProgramInv => OwnSignalHarmless
  BY DEF ProgramInv, CaughtInv, OwnSignalHarmless, Exec!OwnSignalHarmless
<1> QED
  BY <1>1, WaitsAlways, PTL

\* ~RunnerBase() returns only when every worker has ended and no completion is alive.
THEOREM WaitsForRunners == WaitsSpec => []NobodyOutlivesRunner
<1>1. PingInv => NobodyOutlivesRunner
  BY PingIsLast DEF NobodyOutlivesRunner
<1> QED
  BY <1>1, WaitsAlways, PTL
==============================================================================
