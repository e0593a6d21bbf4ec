------------------------ MODULE ServerLifecycleProofs ------------------------
(***************************************************************************)
(* Proofs about ServerLifecycle, for any calls, library paths and number   *)
(* of plugins: nothing freed is used before run() has ended, whichever way *)
(* it ends nothing is left alive, a life is finite but for the calls, and  *)
(* after a signal nothing but a call in progress delays the exit.          *)
(*                                                                         *)
(* None is inductive.  What handlers use is there because a service is     *)
(* registered only by a plugin whose handle is kept (UseInv).  That        *)
(* nothing is left needs to know how far the two ways of taking the server *)
(* down, which free its parts in different orders, have come (DownInv),    *)
(* and that the only reference counted on the plugin manager is that of    *)
(* the application (HostInv).                                              *)
(***************************************************************************)
EXTENDS ServerLifecycle, TLAPS

Down == {"clearPlugins", "resetServer", "releaseHost", "exited"}

\* The types that the steps below need; no more plugins than there were entries.
TypeInv ==
    /\ TypeOK
    /\ plugins + entries <= MaxEntries

\* The application is the only owner of the plugin manager: the plugins add no
\* reference.  There are libraries only while it is alive, and plugins only after
\* it was created.
HostInv ==
    /\ hostRefs = IF host = "alive" THEN 1 ELSE 0
    /\ host # "alive" => modules = {}
    /\ host = "none" => plugins = 0

\* Where the server is on the way up.
UpInv ==
    /\ main \in {"createPidfile", "createServer"} => server = "none"
    /\ main \in {"loadPlugins", "startServer"} => server = "built"

\* A call in progress needs a server that runs or waits for it.
CallInv ==
    \A c \in Calls : call[c] \in {"handler", "open", "finished"} => server \in {"running", "stopping"}

\* What is gone on the way down.
DownInv ==
    /\ main \in Down => result # "none"
    /\ main \in Down \ {"clearPlugins"} => plugins = 0
    /\ main = "exited" \/ (main = "releaseHost" /\ result = "success") => server \in {"none", "freed"}
    /\ main = "exited" \/ (main = "resetServer" /\ result = "failure") => host # "alive"

IInv == TypeInv /\ HostInv /\ UpInv /\ CallInv /\ DownInv

-----------------------------------------------------------------------------
\* release() on the plugin manager keeps the count right and leaves it dead: the
\* reference that is released is the only one.
LEMMA ReleaseHostFrees ==
    ASSUME TypeOK, HostInv, host # "none", ReleaseHost
    PROVE  /\ host' = "freed" /\ hostRefs' = 0 /\ modules' = {}
           /\ undefined' \in BOOLEAN
<1>1. CASE host = "alive"
  <2>1. hostRefs = 1
    BY <1>1 DEF HostInv
  <2>2. hostRefs' = hostRefs - 1 /\ host' = "freed" /\ modules' = {} /\ undefined' = undefined
    BY <1>1, <2>1 DEF ReleaseHost
  <2> QED
    BY <2>1, <2>2 DEF TypeOK
<1>2. CASE host = "freed"
  <2>1. undefined' = TRUE /\ host' = host /\ hostRefs' = hostRefs /\ modules' = modules
    BY <1>2 DEF ReleaseHost, hostVars
  <2>2. hostRefs = 0 /\ modules = {}
    BY <1>2 DEF HostInv
  <2> QED
    BY <1>2, <2>1, <2>2
<1> QED
  BY <1>1, <1>2 DEF TypeOK

LEMMA InitIInv == Init => IInv
<1> SUFFICES ASSUME Init PROVE IInv
  OBVIOUS
<1> USE MaxEntriesAssumption DEF Init
<1>1. TypeOK
  <2>1. call \in [Calls -> CallStates]
    BY DEF CallStates
  <2>2. exitCondition \in BOOLEAN /\ undefined \in BOOLEAN
    OBVIOUS
  <2>3. /\ entries \in 0..MaxEntries /\ plugins \in 0..MaxEntries
        /\ hostRefs \in 0..(MaxEntries + 1)
    OBVIOUS
  <2> QED
    BY <2>1, <2>2, <2>3 DEF TypeOK, Phases
<1>2. TypeInv
  BY <1>1 DEF TypeInv
<1>3. HostInv /\ UpInv /\ DownInv
  BY DEF HostInv, UpInv, DownInv, Down
<1>4. CallInv
  BY DEF CallInv
<1> QED
  BY <1>2, <1>3, <1>4 DEF IInv

LEMMA StepIInv == IInv /\ [Next]_vars => IInv'
<1> SUFFICES ASSUME IInv, [Next]_vars PROVE IInv'
  OBVIOUS
<1> USE MaxEntriesAssumption DEF IInv, TypeInv, HostInv, UpInv, CallInv, DownInv, Down, hostVars
<1>1. CASE CreatePidfile
  BY <1>1 DEF CreatePidfile, Fail, TypeOK, Phases
<1>2. CASE CreateServer
  BY <1>2 DEF CreateServer, Fail, TypeOK, Phases, Services
<1>3. CASE CreateHost
  BY <1>3 DEF CreateHost, TypeOK
<1>4. CASE LoadPlugin
  <2>1. /\ main = "loadPlugins" /\ host = "alive" /\ entries > 0
        /\ entries' = entries - 1
        /\ UNCHANGED <<main, result, exitCondition, server, host, call, undefined>>
    BY <1>4 DEF LoadPlugin
  <2>2. ASSUME NEW path \in Paths, modules' = modules \union {path}, NewPlugin
        PROVE  IInv'
    BY <2>1, <2>2 DEF NewPlugin, HandleKept, ReferencesOfPlugin, TypeOK, Services
  <2>3. CASE UNCHANGED <<modules, plugins, hostRefs, services>>
    BY <2>1, <2>3 DEF TypeOK
  <2> QED
    BY <1>4, <2>2, <2>3 DEF LoadPlugin
<1>5. CASE PluginsLoaded
  BY <1>5 DEF PluginsLoaded, TypeOK, Phases
<1>6. CASE StartServer
  BY <1>6 DEF StartServer, Fail, TypeOK, Phases
<1>7. CASE SignalHandler
  BY <1>7 DEF SignalHandler, TypeOK
<1>8. CASE WaitForExit
  BY <1>8 DEF WaitForExit, TypeOK, Phases
<1>9. CASE ReleasePlugin
  <2>1. /\ main = "clearPlugins" /\ plugins > 0 /\ plugins' = plugins - 1
        /\ UNCHANGED <<main, result, exitCondition, server, services, entries, call>>
        /\ ReleaseHost
    BY <1>9 DEF ReleasePlugin
  <2>2. host # "none"
    BY <2>1
  <2>3. host' = "freed" /\ hostRefs' = 0 /\ modules' = {} /\ undefined' \in BOOLEAN
    BY <2>1, <2>2, ReleaseHostFrees
  <2>4. TypeOK'
    BY <2>1, <2>3 DEF TypeOK
  <2> QED
    BY <2>1, <2>3, <2>4 DEF TypeOK
<1>10. CASE PluginsCleared
  BY <1>10 DEF PluginsCleared, AfterPlugins, TypeOK, Phases
<1>11. CASE BeginShutdown
  BY <1>11 DEF BeginShutdown, TypeOK
<1>12. CASE DestroyServer
  <2>1. \A c \in Calls : call'[c] \notin {"handler", "open", "finished"}
    BY <1>12 DEF DestroyServer, CallsOver
  <2>2. server' \in {"none", "freed"}
    BY <1>12 DEF DestroyServer
  <2>3. TypeOK'
    BY <1>12 DEF DestroyServer, AfterServer, TypeOK, Phases, Services
  <2>4. DownInv'
    BY <1>12, <2>2 DEF DestroyServer, AfterServer, TypeOK
  <2>5. HostInv' /\ UpInv' /\ CallInv' /\ plugins' + entries' <= MaxEntries
    BY <1>12, <2>1 DEF DestroyServer, AfterServer
  <2> QED
    BY <2>3, <2>4, <2>5
<1>13. CASE ReleasePluginMgr
  <2>1. /\ main = "releaseHost" /\ main' = AfterHost
        /\ UNCHANGED <<result, exitCondition, server, services, entries, plugins, call>>
    BY <1>13 DEF ReleasePluginMgr
  <2>2. CASE host = "none"
    <3>1. UNCHANGED <<hostVars, undefined>>
      BY <1>13, <2>2 DEF ReleasePluginMgr
    <3> QED
      BY <2>1, <2>2, <3>1 DEF AfterHost, TypeOK, Phases
  <2>3. CASE host # "none"
    <3>1. host' = "freed" /\ hostRefs' = 0 /\ modules' = {} /\ undefined' \in BOOLEAN
      BY <1>13, <2>3, ReleaseHostFrees DEF ReleasePluginMgr
    <3> QED
      BY <2>1, <3>1 DEF AfterHost, TypeOK, Phases
  <2> QED
    BY <2>2, <2>3
<1>14. CASE Crash
  BY <1>14 DEF Crash, TypeOK, Phases
<1>15. CASE Ended
  BY <1>15 DEF Ended, vars, TypeOK
<1>16. ASSUME NEW c \in Calls, Accept(c)
       PROVE  IInv'
  BY <1>16 DEF Accept, TypeOK, CallStates
<1>17. ASSUME NEW c \in Calls, Handle(c)
       PROVE  IInv'
  <2>1. /\ call[c] = "handler"
        /\ UNCHANGED <<main, result, exitCondition, server, services, entries, plugins, hostVars>>
        /\ undefined' \in BOOLEAN
    BY <1>17 DEF Handle, TypeOK
  <2>2. PICK o \in Outcomes(c) : call' = [call EXCEPT ![c] = o]
    BY <1>17 DEF Handle
  <2>3. o \in {"finished", "open"}
    BY DEF Outcomes
  <2>4. CallInv' /\ call' \in [Calls -> CallStates]
    BY <2>1, <2>2, <2>3 DEF TypeOK, CallStates
  <2> QED
    BY <2>1, <2>4 DEF TypeOK
<1>18. ASSUME NEW c \in Calls, OnDone(c)
       PROVE  IInv'
  <2>1. /\ UNCHANGED <<main, result, exitCondition, server, services, entries, plugins, hostVars>>
        /\ undefined' \in BOOLEAN
        /\ call' = [call EXCEPT ![c] = "done"]
    BY <1>18 DEF OnDone, TypeOK
  <2>2. CallInv' /\ call' \in [Calls -> CallStates]
    BY <2>1 DEF TypeOK, CallStates
  <2> QED
    BY <2>1, <2>2 DEF TypeOK
<1>19. CASE UNCHANGED vars
  BY <1>19 DEF vars, TypeOK
<1> QED
  BY <1>1, <1>2, <1>3, <1>4, <1>5, <1>6, <1>7, <1>8, <1>9, <1>10, <1>11, <1>12, <1>13,
     <1>14, <1>15, <1>16, <1>17, <1>18, <1>19 DEF Next, Setup, TakeDown

LEMMA IInvAlways == Spec => []IInv
  BY InitIInv, StepIInv, PTL DEF Spec

-----------------------------------------------------------------------------
\* Every variable keeps its type; the reference count of the plugin manager never
\* exceeds one.
THEOREM TypeCorrect == Spec => []TypeOK
<1>1. IInv => TypeOK
  BY DEF IInv, TypeInv
<1> QED
  BY IInvAlways, <1>1, PTL

\* What the handlers of ProcessList use is there until the plugin manager is freed, which
\* nothing does before run() has ended; and they need the service to be there themselves.
UseInv ==
    /\ "ProcessList" \in services /\ host # "freed" => plugins > 0 /\ modules # {}
    /\ \A c \in ProcCalls : call[c] \in {"handler", "finished"} => "ProcessList" \in services
    /\ host = "freed" => result # "none"
    /\ undefined => host = "freed"

\* Every step keeps that; the take-down is where the plugin manager is freed.
LEMMA UseStep == IInv /\ UseInv /\ [Next]_vars => UseInv'
<1> SUFFICES ASSUME IInv, UseInv, [Next]_vars PROVE UseInv'
  OBVIOUS
<1> USE DEF UseInv, hostVars
<1>0. TypeOK /\ HostInv /\ DownInv
  BY DEF IInv, TypeInv
<1>1. CASE CreatePidfile \/ CreateServer \/ CreateHost \/ PluginsLoaded \/ StartServer
  BY <1>0, <1>1 DEF CreatePidfile, CreateServer, CreateHost, PluginsLoaded, StartServer, Fail,
                    HostInv, IInv, UpInv, CallInv, Calls
<1>2. CASE LoadPlugin
  <2>1. /\ host = "alive" /\ UNCHANGED <<result, host, call, undefined>>
        /\ plugins \in Nat
    BY <1>0, <1>2, MaxEntriesAssumption DEF LoadPlugin, TypeOK
  <2>2. ASSUME NEW path \in Paths, modules' = modules \union {path}, NewPlugin PROVE UseInv'
    BY <2>1, <2>2 DEF NewPlugin, HandleKept
  <2>3. CASE UNCHANGED <<modules, plugins, hostRefs, services>>
    BY <2>1, <2>3
  <2> QED
    BY <1>2, <2>2, <2>3 DEF LoadPlugin
<1>3. CASE SignalHandler \/ WaitForExit \/ PluginsCleared \/ BeginShutdown \/ Crash \/ Ended \/ UNCHANGED vars
  BY <1>3 DEF SignalHandler, WaitForExit, PluginsCleared, BeginShutdown, Crash, Ended, vars
<1>4. CASE ReleasePlugin
  <2>1. host' = "freed"
    BY <1>0, <1>4, ReleaseHostFrees DEF ReleasePlugin, HostInv
  <2>2. result' # "none" /\ UNCHANGED <<services, call>>
    BY <1>0, <1>4 DEF ReleasePlugin, DownInv, Down
  <2> QED
    BY <2>1, <2>2
<1>5. CASE ReleasePluginMgr
  <2>1. result' # "none" /\ UNCHANGED <<services, call, plugins>>
    BY <1>0, <1>5 DEF ReleasePluginMgr, DownInv, Down
  <2>2. CASE host = "none"
    BY <1>5, <2>1, <2>2 DEF ReleasePluginMgr
  <2>3. CASE host # "none"
    <3>1. host' = "freed"
      BY <1>0, <1>5, <2>3, ReleaseHostFrees DEF ReleasePluginMgr
    <3> QED
      BY <2>1, <3>1
  <2> QED
    BY <2>2, <2>3
<1>6. CASE DestroyServer
  <2>1. /\ services' = {} /\ UNCHANGED <<result, host, call>>
        /\ undefined' => undefined \/ ("ProcessList" \in services /\ modules = {})
    BY <1>6 DEF DestroyServer
  <2>2. \A c \in ProcCalls : call[c] \in {"none", "done"}
    BY <1>6 DEF DestroyServer, CallsOver, Calls
  <2> QED
    BY <2>1, <2>2
<1>7. ASSUME NEW c \in Calls, Accept(c) PROVE UseInv'
  <2>1. /\ UNCHANGED <<result, services, plugins, hostVars, undefined>>
        /\ call' = [call EXCEPT ![c] = "handler"] /\ ServiceOf(c) \in services
    BY <1>7 DEF Accept
  <2>2. ASSUME NEW d \in ProcCalls, call'[d] \in {"handler", "finished"}
        PROVE  "ProcessList" \in services
    BY <1>0, <2>1, <2>2, CallsAssumption DEF TypeOK, ServiceOf, Calls
  <2> QED
    BY <2>1, <2>2
<1>8. ASSUME NEW c \in Calls, Handle(c) \/ OnDone(c) PROVE UseInv'
  <2>1. /\ UNCHANGED <<result, services, plugins, hostVars>>
        /\ call[c] \in {"handler", "finished"}
        /\ undefined' => undefined \/ (c \in ProcCalls /\ plugins = 0)
        /\ \E o \in CallStates : call' = [call EXCEPT ![c] = o]
    BY <1>8 DEF Handle, OnDone, Outcomes, CallStates
  <2>2. \A d \in ProcCalls : call'[d] \in {"handler", "finished"} => call[d] \in {"handler", "finished"}
    BY <1>0, <2>1 DEF TypeOK, Calls
  <2> QED
    BY <2>1, <2>2
<1> QED
  BY <1>1, <1>2, <1>3, <1>4, <1>5, <1>6, <1>7, <1>8 DEF Next, Setup, TakeDown

\* As long as run() has not ended no handler touches a plugin, a logger or a library that
\* is gone, for any number of calls and plugins; what the way down breaks it breaks after
\* the plugin manager has been freed.
THEOREM DefinedUntilTheEnd == Spec => []DefinedWhileRunning
<1>1. Init => UseInv
  BY DEF Init, UseInv, Calls
<1>2. UseInv => DefinedWhileRunning
  BY DEF UseInv, DefinedWhileRunning
<1> QED
  BY IInvAlways, UseStep, <1>1, <1>2, PTL DEF Spec

\* Whichever way run() ends, nothing is left alive when the process exits.
THEOREM NothingLeftCorrect == Spec => []NothingLeft
<1>1. IInv => NothingLeft
  BY DEF IInv, HostInv, DownInv, Down, NothingLeft
<1> QED
  BY IInvAlways, <1>1, PTL

-----------------------------------------------------------------------------
(***************************************************************************)
(* Why the process ends, without ENABLED: every step of the program leaves *)
(* less to do, and where the main thread cannot go on after a signal there *)
(* is a call that it waits for.                                            *)
(***************************************************************************)

\* How far run() and the destructor of the application have to go.
Ahead ==
    CASE main = "createPidfile" -> 8
      [] main = "createServer"  -> 7
      [] main = "loadPlugins"   -> 6
      [] main = "startServer"   -> 5
      [] main = "wait"          -> 4
      [] main = "clearPlugins"  -> 3
      [] main = "resetServer"   -> IF result = "success" THEN 2 ELSE 1
      [] main = "releaseHost"   -> IF result = "success" THEN 1 ELSE 2
      [] OTHER                  -> 0

\* The phases, with the entries to load, the plugins to release, and what happens once.
Once(condition) == IF condition THEN 1 ELSE 0
Work ==
    2 * Ahead + 2 * entries + plugins
        + Once(host = "none") + Once(server = "running") + Once(~exitCondition)

\* How far a call has to go; nothing takes it out of "open".
CallAhead(state) ==
    CASE state = "none"     -> 3
      [] state = "handler"  -> 2
      [] state = "finished" -> 1
      [] OTHER              -> 0

\* One call goes on, the main thread stays.
CallGoesOn(c) ==
    /\ CallAhead(call'[c]) < CallAhead(call[c])
    /\ \A d \in Calls \ {c} : call'[d] = call[d]
    /\ Work' = Work

\* The guards of WaitForExit and TakeDown ...
ExitReady ==
    \/ main = "wait" /\ exitCondition
    \/ main = "clearPlugins"
    \/ main = "resetServer" /\ (server = "running" \/ CallsOver)
    \/ main = "releaseHost"

\* ... and of Setup.
SetupReady ==
    \/ main \in {"createPidfile", "createServer", "startServer"}
    \/ main = "loadPlugins" /\ (host = "none" \/ host = "alive" \/ entries = 0)

\* Only calls can keep the process from its end once a signal has come, and those of
\* ProcessList only if they can for ever.
CallsAlone ==
    exitCondition /\ main \notin {"exited", "killed"} =>
        \/ SetupReady
        \/ ExitReady
        \/ /\ main = "resetServer" /\ server = "stopping"
           /\ \/ \E c \in Calls : call[c] \in {"handler", "finished"}
              \/ \E c \in ProcCalls : call[c] = "open"

\* The plugin manager is not freed before there are plugins to clear, and only a call
\* of ProcessList is left open by its handler.
Latecomers ==
    /\ main \in {"createPidfile", "createServer", "loadPlugins"} => host # "freed"
    /\ \A c \in InfoCalls : call[c] # "open"

LEMMA WorkIsNumber == TypeOK => Work \in Nat
<1> SUFFICES ASSUME TypeOK PROVE Work \in Nat
  OBVIOUS
<1>1. Ahead \in Nat
  BY DEF Ahead
<1>2. entries \in Nat /\ plugins \in Nat
  BY MaxEntriesAssumption DEF TypeOK
<1>3. Once(host = "none") \in Nat /\ Once(server = "running") \in Nat /\ Once(~exitCondition) \in Nat
  BY DEF Once
<1> QED
  BY <1>1, <1>2, <1>3 DEF Work

LEMMA LatecomersStep == TypeOK /\ Latecomers /\ [Next]_vars => Latecomers'
<1> SUFFICES ASSUME TypeOK, Latecomers, [Next]_vars PROVE Latecomers'
  OBVIOUS
<1> USE DEF Latecomers, hostVars
<1>1. CASE CreatePidfile \/ CreateServer \/ CreateHost \/ PluginsLoaded \/ StartServer
  BY <1>1 DEF CreatePidfile, CreateServer, CreateHost, PluginsLoaded, StartServer, Fail
<1>2. CASE LoadPlugin
  BY <1>2 DEF LoadPlugin
<1>3. CASE SignalHandler \/ WaitForExit \/ BeginShutdown
  BY <1>3 DEF SignalHandler, WaitForExit, BeginShutdown
<1>4. CASE ReleasePlugin
  BY <1>4 DEF ReleasePlugin
<1>5. CASE PluginsCleared
  BY <1>5 DEF PluginsCleared, AfterPlugins
<1>6. CASE DestroyServer
  BY <1>6 DEF DestroyServer, AfterServer
<1>7. CASE ReleasePluginMgr
  BY <1>7 DEF ReleasePluginMgr, AfterHost
<1>8. CASE Crash
  BY <1>8 DEF Crash
<1>9. ASSUME NEW c \in Calls, Accept(c) \/ Handle(c) \/ OnDone(c) PROVE Latecomers'
  <2>1. main' = main /\ host' = host
    BY <1>9 DEF Accept, Handle, OnDone
  <2>2. \E o \in CallStates : call' = [call EXCEPT ![c] = o] /\ (c \in InfoCalls => o # "open")
    BY <1>9 DEF Accept, Handle, OnDone, Outcomes, CallStates
  <2> QED
    BY <2>1, <2>2 DEF TypeOK, Calls
<1>10. CASE UNCHANGED vars
  BY <1>10 DEF vars
<1> QED
  BY <1>1, <1>2, <1>3, <1>4, <1>5, <1>6, <1>7, <1>8, <1>9, <1>10 DEF Next, Setup, TakeDown, Ended

LEMMA WorkStep ==
    TypeOK /\ TypeOK' /\ Next => Work' < Work \/ UNCHANGED vars \/ \E c \in Calls : CallGoesOn(c)
<1> SUFFICES ASSUME TypeOK, TypeOK', Next
             PROVE  Work' < Work \/ UNCHANGED vars \/ \E c \in Calls : CallGoesOn(c)
  OBVIOUS
<1> DEFINE a == Ahead    a1 == Ahead'
           e == entries  e1 == entries'
           p == plugins  p1 == plugins'
           n == Once(host = "none")       n1 == Once(host' = "none")
           r == Once(server = "running")  r1 == Once(server' = "running")
           q == Once(~exitCondition)      q1 == Once(~exitCondition')
           w == Work     w1 == Work'
<1>1. /\ e \in Nat /\ e1 \in Nat /\ p \in Nat /\ p1 \in Nat
      /\ n \in {0, 1} /\ n1 \in {0, 1} /\ r \in {0, 1} /\ r1 \in {0, 1} /\ q \in {0, 1} /\ q1 \in {0, 1}
  BY MaxEntriesAssumption DEF TypeOK, Once
<1>2. a \in Nat /\ a1 \in Nat
  BY DEF Ahead
<1>3. /\ w = 2 * a + 2 * e + p + n + r + q
      /\ w1 = 2 * a1 + 2 * e1 + p1 + n1 + r1 + q1
  BY DEF Work
<1> HIDE DEF a, a1, e, e1, p, p1, n, n1, r, r1, q, q1, w, w1
<1>4. w1 < w => Work' < Work
  BY DEF w, w1
\* The main thread goes to another phase, and at most starts or loses the server.
<1>5. ASSUME Ahead' < Ahead, UNCHANGED <<entries, plugins, exitCondition>>,
             Once(host' = "none") = Once(host = "none")
      PROVE  Work' < Work
  <2>1. a1 < a
    BY <1>5 DEF a, a1
  <2>2. e1 = e /\ p1 = p /\ q1 = q /\ n1 = n
    BY <1>5 DEF e, e1, p, p1, q, q1, n, n1
  <2>3. w1 < w
    BY <1>1, <1>2, <1>3, <2>1, <2>2
  <2> QED
    BY <1>4, <2>3
\* It stays.
<1>6. ASSUME UNCHANGED <<main, result>>
      PROVE  a1 = a
  BY <1>6 DEF Ahead, a, a1
<1>7. CASE CreatePidfile \/ CreateServer \/ PluginsLoaded \/ StartServer \/ WaitForExit
  <2>1. UNCHANGED <<entries, plugins, host, exitCondition>>
    BY <1>7 DEF CreatePidfile, CreateServer, PluginsLoaded, StartServer, WaitForExit, hostVars
  <2>2. Ahead' < Ahead
    BY <1>7 DEF CreatePidfile, CreateServer, PluginsLoaded, StartServer, WaitForExit, Fail, Ahead
  <2> QED
    BY <1>5, <2>1, <2>2
<1>8. CASE CreateHost \/ SignalHandler \/ BeginShutdown
  <2>1. a1 = a /\ e1 = e /\ p1 = p
    BY <1>6, <1>8 DEF CreateHost, SignalHandler, BeginShutdown, e, e1, p, p1
  <2>2. \/ n1 < n /\ q1 = q /\ r1 = r
        \/ n1 = n /\ q1 < q /\ r1 = r
        \/ n1 = n /\ q1 = q /\ r1 < r
    BY <1>8 DEF CreateHost, SignalHandler, BeginShutdown, hostVars, Once, n, n1, q, q1, r, r1
  <2>3. w1 < w
    BY <1>1, <1>2, <1>3, <2>1, <2>2
  <2> QED
    BY <1>4, <2>3
<1>9. CASE LoadPlugin
  <2>1. a1 = a /\ e1 = e - 1 /\ n1 = n /\ q1 = q /\ r1 = r
    BY <1>6, <1>9 DEF LoadPlugin, e, e1, n, n1, q, q1, r, r1
  <2>2. p1 = p \/ p1 = p + 1
    BY <1>9 DEF LoadPlugin, NewPlugin, HandleKept, p, p1
  <2>3. w1 < w
    BY <1>1, <1>2, <1>3, <2>1, <2>2
  <2> QED
    BY <1>4, <2>3
<1>10. ASSUME ReleaseHost
       PROVE  Once(host' = "none") = Once(host = "none")
  BY <1>10 DEF ReleaseHost, hostVars, Once
<1>11. CASE ReleasePlugin
  <2>1. a1 = a /\ e1 = e /\ p1 = p - 1 /\ n1 = n /\ q1 = q /\ r1 = r
    BY <1>6, <1>10, <1>11 DEF ReleasePlugin, e, e1, p, p1, n, n1, q, q1, r, r1
  <2>2. w1 < w
    BY <1>1, <1>2, <1>3, <2>1
  <2> QED
    BY <1>4, <2>2
<1>12. CASE PluginsCleared \/ DestroyServer
  <2>1. UNCHANGED <<entries, plugins, host, exitCondition>>
    BY <1>12 DEF PluginsCleared, DestroyServer, hostVars
  <2>2. Ahead' < Ahead
    BY <1>12 DEF PluginsCleared, DestroyServer, AfterPlugins, AfterServer, Ahead
  <2> QED
    BY <1>5, <2>1, <2>2
<1>13. CASE ReleasePluginMgr
  <2>1. UNCHANGED <<entries, plugins, exitCondition>>
    BY <1>13 DEF ReleasePluginMgr
  <2>2. Ahead' < Ahead
    BY <1>13 DEF ReleasePluginMgr, AfterHost, Ahead
  <2>3. Once(host' = "none") = Once(host = "none")
    BY <1>10, <1>13 DEF ReleasePluginMgr, hostVars
  <2> QED
    BY <1>5, <2>1, <2>2, <2>3
<1>14. CASE Crash
  <2>1. UNCHANGED <<entries, plugins, host, exitCondition>>
    BY <1>14 DEF Crash, hostVars
  <2>2. CASE main = "killed"
    BY <1>14, <2>2 DEF Crash, vars, hostVars
  <2>3. CASE main # "killed"
    <3>1. Ahead' < Ahead
      BY <1>14, <2>3 DEF Crash, Ahead, TypeOK, Phases
    <3> QED
      BY <1>5, <2>1, <3>1
  <2> QED
    BY <2>2, <2>3
<1>15. ASSUME NEW c \in Calls, Accept(c) \/ Handle(c) \/ OnDone(c) PROVE CallGoesOn(c)
  <2>1. UNCHANGED <<main, result, entries, plugins, host, exitCondition, server>>
    BY <1>15 DEF Accept, Handle, OnDone, hostVars
  <2>2. Work' = Work
    BY <2>1 DEF Work, Ahead, Once
  <2>3. PICK o \in CallStates : call' = [call EXCEPT ![c] = o] /\ CallAhead(o) < CallAhead(call[c])
    BY <1>15 DEF Accept, Handle, OnDone, Outcomes, CallStates, CallAhead
  <2>4. call'[c] = o /\ \A d \in Calls \ {c} : call'[d] = call[d]
    BY <2>3 DEF TypeOK
  <2> QED
    BY <2>2, <2>3, <2>4 DEF CallGoesOn
<1> QED
  BY <1>7, <1>8, <1>9, <1>11, <1>12, <1>13, <1>14, <1>15 DEF Next, Setup, TakeDown, Ended

\* The life of the process is finite but for what clients ask: each step of the program
\* leaves less to do, or is one of the at most three steps of one call.
THEOREM LifeIsFinite ==
    Spec => [](Work \in Nat) /\ [][Work' < Work \/ \E c \in Calls : CallGoesOn(c)]_vars
<1>1. IInv => TypeOK
  BY DEF IInv, TypeInv
<1>2. TypeOK => Work \in Nat
  BY WorkIsNumber
<1>3. TypeOK /\ TypeOK' /\ [Next]_vars => [Work' < Work \/ \E c \in Calls : CallGoesOn(c)]_vars
  BY WorkStep
<1> QED
  BY IInvAlways, <1>1, <1>2, <1>3, PTL DEF Spec

\* Once a signal has come nothing but calls in progress can keep the process alive, and
\* nothing but GetProcessProps, whose handler does not finish them, for ever.
THEOREM OnlyCallsDelayExit == Spec => []CallsAlone
<1>1. Init => Latecomers
  BY DEF Init, Latecomers, Calls
<1>2. IInv => TypeOK
  BY DEF IInv, TypeInv
<1>3. IInv /\ Latecomers => CallsAlone
  <2> SUFFICES ASSUME IInv, Latecomers, exitCondition, main \notin {"exited", "killed"},
                      ~SetupReady, ~ExitReady
               PROVE  /\ main = "resetServer" /\ server = "stopping"
                      /\ \/ \E c \in Calls : call[c] \in {"handler", "finished"}
                         \/ \E c \in ProcCalls : call[c] = "open"
    BY DEF CallsAlone
  <2>1. TypeOK /\ CallInv
    BY DEF IInv, TypeInv
  <2>2. main = "resetServer" /\ server # "running" /\ ~CallsOver
    BY <2>1 DEF TypeOK, Phases, Latecomers, SetupReady, ExitReady
  <2>3. PICK c \in Calls : call[c] \in {"handler", "open", "finished"}
    BY <2>1, <2>2 DEF CallsOver, TypeOK, CallStates
  <2>4. server = "stopping"
    BY <2>1, <2>2, <2>3 DEF CallInv
  <2>5. call[c] = "open" => c \in ProcCalls
    BY <2>3 DEF Latecomers, Calls
  <2> QED
    BY <2>2, <2>3, <2>4, <2>5
<1> QED
  BY IInvAlways, LatecomersStep, <1>1, <1>2, <1>3, PTL DEF Spec
=============================================================================
