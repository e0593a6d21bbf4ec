------------------------------ MODULE Program ------------------------------
(***************************************************************************)
(* What the server and the ping tool have in common: the program around    *)
(* run() (src/rtl-lib/program.cxx), the thread that waits for signals      *)
(* (SignalWaiter in include/erebus/rtl/program.hxx), the exit condition    *)
(* the main thread sleeps on (condition.hxx), and the records logged       *)
(* before there is a logger (logger.cxx, null_logger.hxx).                 *)
(*                                                                         *)
(* The waiter is a boost::asio::signal_set.  While it has a signal         *)
(* registered, the signal is written to a pipe instead of its default      *)
(* action, and io_context::run() hands it to the handler of async_wait(),  *)
(* which the program issues once: what arrives later stays in the pipe.    *)
(***************************************************************************)
EXTENDS Integers, Sequences

CONSTANTS
    MaxSignals,     \* bound: the signals that others send to the process
    MaxEarly,       \* bound: records logged before there is a logger ...
    MaxLate         \* ... and by run()

\* SIGINT, SIGTERM, SIGPIPE and SIGHUP; the first three are treated alike.
Signals == {"TERM", "HUP"}
None == "none"

\* The threads that set the exit condition: the waiter, and the thread on which
\* the ping tool is told that its runner has finished.
Setters == {"waiter", "runner"}

VARIABLES
    main,           \* where the main thread is
    setter,         \* where each setter is
    value, owner,   \* Condition: m_value, and the thread that holds m_mutex
    action,         \* what the process does on each signal
    pipe,           \* the signals asio has caught and not handed out
    armed,          \* async_wait() is outstanding
    stopped,        \* m_io.stop() has been called
    signalReceived, \* m_signalReceived
    reported,       \* what run() has read from it when it woke up
    sent,           \* how many signals others have sent
    destroyed,      \* ~Program() has run, the members are yet to be destroyed
    killed,         \* who sent the signal that ended the process, if one did
    global,         \* g_global: the null logger or the logger
    logged,         \* how many records have been logged
    pending,        \* NullLogger: State::pending
    delivered       \* what the logger was given

conditionVars == <<value, owner>>
signalVars == <<action, pipe, armed, stopped>>
logVars == <<global, logged, pending, delivered>>
vars == <<main, setter, conditionVars, signalVars, signalReceived, reported, sent,
          destroyed, killed, logVars>>

Ended == {"exited", "killed"}
Starting == {"startup", "waiter", "configure"}
Waiting == {"lock", "check", "block", "sleep", "woken"}
Phases == Starting \union Waiting \union Ended
              \union {"drain", "run", "stopRunner", "hangup", "stop", "join", "destroy"}
SetterStates == {"none", "start", "idle", "set", "notify", "ended"}

TypeOK ==
    /\ main \in Phases
    /\ setter \in [Setters -> SetterStates]
    /\ value \in BOOLEAN /\ owner \in {None, "main"}
    /\ action \in [Signals -> {"default", "ignored", "caught"}]
    /\ pipe \in Seq(Signals) /\ armed \in BOOLEAN /\ stopped \in BOOLEAN
    /\ signalReceived \in Signals \union {None} /\ reported \in Signals \union {None}
    /\ sent \in Nat
    /\ destroyed \in BOOLEAN
    /\ killed \in {None, "other", "itself"}
    /\ global \in {"null", "logger"}
    /\ logged \in Nat
    /\ pending \in Seq(Nat) /\ delivered \in Seq(Nat)

Init ==
    /\ main = "startup"
    /\ setter = [t \in Setters |-> "none"]
    /\ value = FALSE /\ owner = None
    /\ action = [s \in Signals |-> "default"]
    /\ pipe = <<>> /\ armed = FALSE /\ stopped = FALSE
    /\ signalReceived = None /\ reported = None
    /\ sent = 0
    /\ destroyed = FALSE
    /\ killed = None
    /\ global = "null" /\ logged = 0 /\ pending = <<>> /\ delivered = <<>>

-----------------------------------------------------------------------------
(***************************************************************************)
(* Signals.                                                                *)
(***************************************************************************)

\* A signal reaches the process: it is caught, ignored, or ends the process.
Deliver(s, from) ==
    \/ /\ action[s] = "caught"
       /\ pipe' = Append(pipe, s)
       /\ UNCHANGED killed
    \/ action[s] = "ignored" /\ UNCHANGED <<pipe, killed>>
    \/ action[s] = "default" /\ killed' = from /\ UNCHANGED pipe

\* Somebody else sends one, at any time.
Arrive(s) ==
    /\ main \notin Ended
    /\ sent < MaxSignals
    /\ sent' = sent + 1
    /\ Deliver(s, "other")
    /\ main' = IF killed' = None THEN main ELSE "killed"
    /\ UNCHANGED <<setter, conditionVars, action, armed, stopped, signalReceived, reported,
                   destroyed, logVars>>

\* SignalWaiter::run(): async_wait(), once.
WaiterStart ==
    /\ setter["waiter"] = "start"
    /\ armed' = TRUE
    /\ setter' = [setter EXCEPT !["waiter"] = "idle"]
    /\ UNCHANGED <<main, conditionVars, action, pipe, stopped, signalReceived, reported, sent,
                   destroyed, killed, logVars>>

\* m_io.run(): the signal at the head of the pipe goes to signalHandler(), which
\* stores it before it sets the exit condition.
WaiterHandle ==
    /\ setter["waiter"] = "idle"
    /\ ~stopped
    /\ armed /\ pipe # <<>>
    /\ armed' = FALSE
    /\ pipe' = Tail(pipe)
    /\ signalReceived' = Head(pipe)
    /\ setter' = [setter EXCEPT !["waiter"] = "set"]
    /\ UNCHANGED <<main, conditionVars, action, stopped, reported, sent, destroyed, killed,
                   logVars>>

\* m_io.run() returns once it is stopped; the work guard keeps it until then.
WaiterEnd ==
    /\ setter["waiter"] = "idle"
    /\ stopped
    /\ setter' = [setter EXCEPT !["waiter"] = "ended"]
    /\ UNCHANGED <<main, conditionVars, signalVars, signalReceived, reported, sent, destroyed,
                   killed, logVars>>

-----------------------------------------------------------------------------
(***************************************************************************)
(* Condition.                                                              *)
(***************************************************************************)

\* set() takes the mutex.  "lock is required to avoid a data race between calls
\* to get() when called in wait() through a predicate": without it the value can
\* change between the check and the sleep, and the notification is lost.
WithoutMutex == TRUE
MutexForSet == owner = None

Set(t) ==
    /\ setter[t] = "set"
    /\ MutexForSet
    /\ value' = TRUE
    /\ setter' = [setter EXCEPT ![t] = "notify"]
    /\ UNCHANGED <<main, owner, signalVars, signalReceived, reported, sent, destroyed, killed,
                   logVars>>

\* notify_one() or notify_all(), after the unlock: only the main thread waits.
Notify(t) ==
    /\ setter[t] = "notify"
    /\ setter' = [setter EXCEPT ![t] = "idle"]
    /\ main' = IF main = "sleep" THEN "lock" ELSE main
    /\ UNCHANGED <<conditionVars, signalVars, signalReceived, reported, sent, destroyed, killed,
                   logVars>>

\* waitValue(true): lock, and wait() with a predicate.
Lock ==
    /\ main = "lock"
    /\ owner = None
    /\ owner' = "main"
    /\ main' = "check"
    /\ UNCHANGED <<setter, value, signalVars, signalReceived, reported, sent, destroyed, killed,
                   logVars>>

Check ==
    /\ main = "check"
    /\ IF value
       THEN main' = "woken" /\ owner' = None
       ELSE main' = "block" /\ UNCHANGED owner
    /\ UNCHANGED <<setter, value, signalVars, signalReceived, reported, sent, destroyed, killed,
                   logVars>>

\* The mutex is released and the thread put to sleep in one step.
Block ==
    /\ main = "block"
    /\ owner' = None
    /\ main' = "sleep"
    /\ UNCHANGED <<setter, value, signalVars, signalReceived, reported, sent, destroyed, killed,
                   logVars>>

\* A wait may end without a notification.
Spurious ==
    /\ main = "sleep"
    /\ main' = "lock"
    /\ UNCHANGED <<setter, conditionVars, signalVars, signalReceived, reported, sent, destroyed,
                   killed, logVars>>

-----------------------------------------------------------------------------
(***************************************************************************)
(* exec(), on the main thread.                                             *)
(***************************************************************************)

\* globalStartup(): as a daemon, the process is the grandchild of the one that
\* was started and ignores SIGHUP; a fork() that fails ends it.
Daemonize ==
    /\ main = "startup"
    /\ \/ main' = "waiter" /\ UNCHANGED action
       \/ main' = "waiter" /\ action' = [action EXCEPT !["HUP"] = "ignored"]
       \/ main' = "exited" /\ UNCHANGED action
    /\ UNCHANGED <<setter, conditionVars, pipe, armed, stopped, signalReceived, reported, sent,
                   destroyed, killed, logVars>>

\* The signals given to the waiter; on Windows the last two are left out.
WaitedForOnWindows == {"TERM"}
WaitedFor == {"TERM", "HUP"}

\* new SignalWaiter
StartWaiter ==
    /\ main = "waiter"
    /\ action' = [s \in Signals |-> IF s \in WaitedFor THEN "caught" ELSE action[s]]
    /\ setter' = [setter EXCEPT !["waiter"] = "start"]
    /\ main' = "configure"
    /\ UNCHANGED <<conditionVars, pipe, armed, stopped, signalReceived, reported, sent, destroyed,
                   killed, logVars>>

\* ILogger::write() on the global logger.
Log ==
    /\ logged' = logged + 1
    /\ IF global = "null"
       THEN pending' = Append(pending, logged') /\ UNCHANGED delivered
       ELSE delivered' = Append(delivered, logged') /\ UNCHANGED pending

\* The configuration and addLoggers() may have something to say already.
LogEarly ==
    /\ main = "configure"
    /\ logged < MaxEarly
    /\ Log
    /\ UNCHANGED <<main, setter, conditionVars, signalVars, signalReceived, reported, sent,
                   destroyed, killed, global>>

\* --help, or a configuration that cannot be used: exec() returns at once.
BadConfiguration ==
    /\ main = "configure"
    /\ main' = "destroy"
    /\ UNCHANGED <<setter, conditionVars, signalVars, signalReceived, reported, sent, destroyed,
                   killed, logVars>>

\* globalMakeLogger(): there is something to drain if the null logger was the
\* global one before.
SetGlobal ==
    /\ main = "configure"
    /\ global' = "logger"
    /\ main' = IF global = "null" THEN "drain" ELSE "run"
    /\ UNCHANGED <<setter, conditionVars, signalVars, signalReceived, reported, sent, destroyed,
                   killed, logged, pending, delivered>>

\* pop() and write(), until there is nothing left.
Drain ==
    /\ main = "drain"
    /\ IF pending = <<>>
       THEN main' = "run" /\ UNCHANGED <<pending, delivered>>
       ELSE /\ pending' = Tail(pending)
            /\ delivered' = Append(delivered, Head(pending))
            /\ UNCHANGED main
    /\ UNCHANGED <<setter, conditionVars, signalVars, signalReceived, reported, sent, destroyed,
                   killed, global, logged>>

LogLate ==
    /\ main = "run"
    /\ logged < MaxEarly + MaxLate
    /\ Log
    /\ UNCHANGED <<main, setter, conditionVars, signalVars, signalReceived, reported, sent,
                   destroyed, killed, global>>

\* run() starts what it has to do and waits ...
Wait ==
    /\ main = "run"
    /\ setter' = [setter EXCEPT !["runner"] = "start"]
    /\ main' = "lock"
    /\ UNCHANGED <<conditionVars, signalVars, signalReceived, reported, sent, destroyed, killed,
                   logVars>>

\* ... or cannot start it, or throws.
RunFails ==
    /\ main = "run"
    /\ main' = "hangup"
    /\ UNCHANGED <<setter, conditionVars, signalVars, signalReceived, reported, sent, destroyed,
                   killed, logVars>>

\* The runner of the ping tool, if it has a count of iterations, finishes.
RunnerDone ==
    /\ setter["runner"] = "start"
    /\ setter' = [setter EXCEPT !["runner"] = "set"]
    /\ UNCHANGED <<main, conditionVars, signalVars, signalReceived, reported, sent, destroyed,
                   killed, logVars>>

\* "Exiting due to signal ..."
Report ==
    /\ main = "woken"
    /\ reported' = signalReceived
    /\ main' = "stopRunner"
    /\ UNCHANGED <<setter, conditionVars, signalVars, signalReceived, sent, destroyed, killed,
                   logVars>>

\* run() takes down what it has started, and joins its threads: see PingRunner.
StopRunner ==
    /\ main = "stopRunner"
    /\ setter["runner"] \in {"start", "idle"}
    /\ setter' = [setter EXCEPT !["runner"] = "ended"]
    /\ main' = "hangup"
    /\ UNCHANGED <<conditionVars, signalVars, signalReceived, reported, sent, destroyed, killed,
                   logVars>>

-----------------------------------------------------------------------------
(***************************************************************************)
(* globalShutdown() and the destructors.                                   *)
(***************************************************************************)

\* The process sends SIGHUP to itself.  On Linux a signal the main thread sends
\* to its own process is delivered before kill() returns.
HangUp ==
    /\ main = "hangup"
    /\ Deliver("HUP", "itself")
    /\ main' = IF killed' = None THEN "stop" ELSE "killed"
    /\ UNCHANGED <<setter, conditionVars, action, armed, stopped, signalReceived, reported, sent,
                   destroyed, logVars>>

\* ~SignalWaiter(), then its members: m_worker is joined first, ...
Stop ==
    /\ main = "stop"
    /\ stopped' = TRUE
    /\ main' = "join"
    /\ UNCHANGED <<setter, conditionVars, action, pipe, armed, signalReceived, reported, sent,
                   destroyed, killed, logVars>>

\* ... so no handler runs any more when m_signals restores the default action.
Join ==
    /\ main = "join"
    /\ setter["waiter"] = "ended"
    /\ action' = [s \in Signals |-> IF s \in WaitedFor THEN "default" ELSE action[s]]
    /\ pipe' = <<>>
    /\ armed' = FALSE
    /\ main' = IF destroyed THEN "exited" ELSE "destroy"
    /\ UNCHANGED <<setter, conditionVars, stopped, signalReceived, reported, sent, destroyed,
                   killed, logVars>>

\* ~Program(): setGlobal({}); the members, the waiter too, are destroyed next.
Destroy ==
    /\ main = "destroy"
    /\ global' = "null"
    /\ destroyed' = TRUE
    /\ main' = IF setter["waiter"] = "ended" THEN "exited" ELSE "stop"
    /\ UNCHANGED <<setter, conditionVars, signalVars, signalReceived, reported, sent, killed,
                   logged, pending, delivered>>

-----------------------------------------------------------------------------
\* The threads end with the process.
Alive == main \notin Ended

Waiter == WaiterStart \/ WaiterHandle \/ WaiterEnd
Startup == Daemonize \/ StartWaiter \/ LogEarly \/ BadConfiguration \/ SetGlobal \/ Drain
Running == LogLate \/ Wait \/ RunFails \/ Lock \/ Check \/ Block \/ Report \/ StopRunner
Shutdown == HangUp \/ Stop \/ Join \/ Destroy
Main == Startup \/ Running \/ Shutdown
Setting(t) == Set(t) \/ Notify(t)

\* Nothing is left to do.
Over == ~Alive /\ UNCHANGED vars

Next ==
    \/ \E s \in Signals : Arrive(s)
    \/ Alive /\ (Waiter \/ Main \/ Spurious \/ RunnerDone \/ \E t \in Setters : Setting(t))
    \/ Over

\* Every thread that can run does, and one that asks for a mutex gets it if it is
\* released again and again; nothing obliges anybody to send a signal, a runner to
\* finish, or a wait to end by itself.
Fairness ==
    /\ WF_vars(Alive /\ Main)
    /\ WF_vars(Alive /\ Waiter)
    /\ \A t \in Setters : SF_vars(Alive /\ Setting(t))

Spec == Init /\ [][Next]_vars /\ Fairness

-----------------------------------------------------------------------------
(***************************************************************************)
(* Properties.                                                             *)
(***************************************************************************)

\* The SIGHUP that globalShutdown() sends to its own process never ends it.
OwnSignalHarmless == killed # "itself"

\* When the members of the program are gone, no thread is left that could use
\* them: the waiter sets the exit condition, the runner is told to.
MembersOutliveThreads ==
    main = "exited" => \A t \in Setters : setter[t] \in {"none", "ended"}

\* When the main thread wakes up it knows why: unless the runner has finished,
\* it finds the signal.
ReasonIsKnown ==
    main = "stopRunner" /\ reported = None => setter["runner"] \in {"notify", "idle"}

\* What was logged before there was a logger comes out first, and nothing is
\* lost or repeated: once run() begins, the logger has all records in order.
EarlyRecordsFirst ==
    main \in {"run"} \union Waiting => delivered = [i \in 1..logged |-> i]

\* A signal that has been caught ends the program, wherever the main thread is.
SignalEndsProgram == pipe # <<>> ~> main \in Ended
=============================================================================
