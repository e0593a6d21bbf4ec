----------------------------- MODULE PingRunner -----------------------------
(***************************************************************************)
(* The runners of the ping tool (tools/ping/runner_base.hxx, ping.hxx,     *)
(* system_info.hxx, client_app.cxx): worker threads that issue requests,   *)
(* completions that live until gRPC lets go of them, and a counter of busy *)
(* users that wakes the main thread when it falls to zero.                 *)
(*                                                                         *)
(* The threads are started by the constructor of the base class and joined *)
(* by its destructor.  run() is virtual: before the derived class is       *)
(* constructed and after it is destroyed a call of it is a call of a pure  *)
(* virtual function, which ends the process.                               *)
(***************************************************************************)
EXTENDS PingConstants, Integers

VARIABLES
    main,           \* where the main thread is
    exit,           \* the exit condition of the program
    busy,           \* m_busy
    thread,         \* where each worker is
    left,           \* the iterations each has left
    stop,           \* the workers that have been asked to stop
    pending,        \* the completions of each that are alive
    wait, endless   \* the options: wait for an answer; repeat without end

vars == <<main, exit, busy, thread, left, stop, pending, wait, endless>>
options == <<wait, endless>>

MainStates == {"constructing", "sleeping", "destroying", "freed", "terminated"}
Counted == {"ready", "loop", "waiting", "check", "closing", "idle"}
ThreadStates == {"none", "new", "ended"} \union Counted

Init ==
    /\ main = "constructing"
    /\ exit = FALSE
    /\ busy = 0
    /\ thread = [t \in Threads |-> "none"]
    /\ left = [t \in Threads |-> Iterations]
    /\ stop = {}
    /\ pending = [t \in Threads |-> 0]
    /\ wait \in BOOLEAN
    /\ endless \in BOOLEAN

Goto(t, state) == thread' = [thread EXCEPT ![t] = state]
Alive == main # "terminated"

-----------------------------------------------------------------------------
(***************************************************************************)
(* The main thread.                                                        *)
(***************************************************************************)

\* RunnerBase(): one thread after the other ...
Spawn(t) ==
    /\ main = "constructing" /\ thread[t] = "none"
    /\ Goto(t, "new")
    /\ UNCHANGED <<main, exit, busy, left, stop, pending, options>>

\* ... then the derived class.
Constructed ==
    /\ main = "constructing" /\ \A t \in Threads : thread[t] # "none"
    /\ main' = "sleeping"
    /\ UNCHANGED <<exit, busy, thread, left, stop, pending, options>>

\* A signal asks the program to exit.
Signal ==
    /\ Alive /\ ~exit
    /\ exit' = TRUE
    /\ UNCHANGED <<main, busy, thread, left, stop, pending, options>>

\* exitCondition().waitValue(true) returns and the runner is reset: the derived
\* class is destroyed, then the threads.
WakeUp ==
    /\ main = "sleeping" /\ exit
    /\ main' = "destroying"
    /\ UNCHANGED <<exit, busy, thread, left, stop, pending, options>>

\* ~jthread(), one thread after the other in any order: ask it to stop ...
RequestStop(t) ==
    /\ main = "destroying"
    /\ \A u \in stop : thread[u] = "ended"
    /\ t \notin stop
    /\ stop' = stop \union {t}
    /\ UNCHANGED <<main, exit, busy, thread, left, pending, options>>

\* ... and join it.  Then the counter and the callback are gone.
Joined == stop = Threads /\ \A t \in Threads : thread[t] = "ended"
Destroyed ==
    /\ main = "destroying" /\ Joined
    /\ main' = "freed"
    /\ UNCHANGED <<exit, busy, thread, left, stop, pending, options>>

-----------------------------------------------------------------------------
(***************************************************************************)
(* The workers and the completions.                                        *)
(***************************************************************************)

\* _run(): busy()
Busy(t) ==
    /\ Alive /\ thread[t] = "new"
    /\ busy' = busy + 1
    /\ Goto(t, "ready")
    /\ UNCHANGED <<main, exit, left, stop, pending, options>>

\* The virtual call of run(); its first act is to create a client.
Enter(t) ==
    /\ Alive /\ thread[t] = "ready"
    /\ main' = IF main = "sleeping" THEN main ELSE "terminated"
    /\ Goto(t, "loop")
    /\ UNCHANGED <<exit, busy, left, stop, pending, options>>

\* The counter while a completion is alive.
CompletionCounted == busy + 1

\* n, unless it stands for no end
LeftAfter(t) == IF endless THEN left[t] ELSE left[t] - 1

\* One iteration: a completion is made, which calls busy(), and a request issued.
Issue(t) ==
    /\ Alive /\ thread[t] = "loop" /\ (endless \/ left[t] > 0)
    /\ pending[t] < MaxPending
    /\ left' = [left EXCEPT ![t] = LeftAfter(t)]
    /\ pending' = [pending EXCEPT ![t] = @ + 1]
    /\ busy' = CompletionCounted
    /\ Goto(t, IF wait THEN "waiting" ELSE "check")
    /\ UNCHANGED <<main, exit, stop, options>>

\* The answer has come, or five seconds have passed.
Waited(t) ==
    /\ Alive /\ thread[t] = "waiting"
    /\ Goto(t, "check")
    /\ UNCHANGED <<main, exit, busy, left, stop, pending, options>>

\* while (!stop.stop_requested())
NoStop(t) == "loop"                   \* mutant: the request to stop is not looked at
AfterIteration(t) == IF t \in stop THEN "closing" ELSE "loop"
CheckStop(t) ==
    /\ Alive /\ thread[t] = "check"
    /\ Goto(t, AfterIteration(t))
    /\ UNCHANGED <<main, exit, busy, left, stop, pending, options>>

Exhausted(t) ==
    /\ Alive /\ thread[t] = "loop" /\ ~endless /\ left[t] = 0
    /\ Goto(t, "closing")
    /\ UNCHANGED <<main, exit, busy, left, stop, pending, options>>

\* The client is destroyed at the end of run(): its destructor waits until none of
\* its contexts is left, and a context holds its completion.
Abandoned(t) == TRUE                  \* mutant: the client does not wait
CanClose(t) == pending[t] = 0
Close(t) ==
    /\ Alive /\ thread[t] = "closing" /\ CanClose(t)
    /\ Goto(t, "idle")
    /\ UNCHANGED <<main, exit, busy, left, stop, pending, options>>

\* idle(): the user that brings the counter to zero wakes the main thread.
TooLate == busy = 0                   \* mutant: the old value is taken for the new one
LastOne == busy = 1
Idle ==
    /\ busy' = busy - 1
    /\ exit' = (exit \/ LastOne)

\* The end of _run().
Leave(t) ==
    /\ Alive /\ thread[t] = "idle"
    /\ Idle
    /\ Goto(t, "ended")
    /\ UNCHANGED <<main, left, stop, pending, options>>

\* gRPC lets go of a completion, answered or not: it is destroyed, unless the worker
\* still waits on it.
Complete(t) ==
    /\ Alive /\ pending[t] > IF thread[t] = "waiting" THEN 1 ELSE 0
    /\ pending' = [pending EXCEPT ![t] = @ - 1]
    /\ Idle
    /\ UNCHANGED <<main, thread, left, stop, options>>

-----------------------------------------------------------------------------
Main ==
    \/ Constructed \/ WakeUp \/ Destroyed
    \/ \E t \in Threads : Spawn(t) \/ RequestStop(t)

Work(t) ==
    \/ Busy(t) \/ Enter(t) \/ Issue(t) \/ Waited(t) \/ CheckStop(t) \/ Exhausted(t)
    \/ Close(t) \/ Leave(t)

Over == main \in {"freed", "terminated"} /\ UNCHANGED vars

Next == Main \/ Signal \/ Over \/ \E t \in Threads : Work(t) \/ Complete(t)

Spec == Init /\ [][Next]_vars

\* Threads are scheduled, and every request completes: with a reply or an error.
FairSpec ==
    /\ Spec /\ WF_vars(Main)
    /\ \A t \in Threads : WF_vars(Work(t)) /\ WF_vars(Complete(t))

-----------------------------------------------------------------------------
\* Every variable has its type.
TypeOK ==
    /\ main \in MainStates
    /\ exit \in BOOLEAN
    /\ busy \in Int
    /\ thread \in [Threads -> ThreadStates]
    /\ left \in [Threads -> 0..Iterations]
    /\ stop \subseteq Threads
    /\ pending \in [Threads -> 0..MaxPending]
    /\ wait \in BOOLEAN /\ endless \in BOOLEAN

\* When the runner is freed no worker runs and no completion is alive that would call
\* its idle(): joining the workers is enough, because each has waited for its client.
NobodyOutlivesRunner ==
    main = "freed" => \A t \in Threads : thread[t] = "ended" /\ pending[t] = 0

\* Once the program is asked to exit the runner is freed, with requests in flight and
\* also when it was to repeat them for ever (or the process has died of a call of
\* run() too early or too late).
StopsWhenAsked == exit ~> main \in {"freed", "terminated"}

\* A runner with a finite count ends by itself: the last idle() is not missed.
EndsByItself == ~endless ~> exit \/ main = "terminated"

=============================================================================
