-------------------------- MODULE ServerLifecycle --------------------------
(***************************************************************************)
(* The life of the server process (src/server/server_app.cxx): the RPC     *)
(* server and its built-in service are created, the plugins are loaded and *)
(* add theirs, the server is started, the main thread sleeps until a       *)
(* signal arrives, and everything is taken down again while calls may      *)
(* still be in progress on the threads of gRPC.                            *)
(*                                                                         *)
(* Three owners meet here.  The application owns the plugins, the plugin   *)
(* manager (their host, which owns the loaded libraries) and the RPC       *)
(* server; the RPC server owns the services; the code of the ProcessList   *)
(* service lives in a library of the plugin manager.  References are       *)
(* counted as include/erebus/iunknown.hxx counts them.                     *)
(***************************************************************************)
EXTENDS Integers, FiniteSets

CONSTANTS
    InfoCalls,      \* the calls clients make to the SystemInfo service ...
    ProcCalls,      \* ... and to ProcessList.GetProcessProps
    Paths,          \* the library paths the configuration may name
    MaxEntries      \* bound: entries in the "plugins" list

ASSUME CallsAssumption == InfoCalls \cap ProcCalls = {}
ASSUME MaxEntriesAssumption == MaxEntries \in Nat

Calls == InfoCalls \union ProcCalls

VARIABLES
    main,           \* where the main thread is
    result,         \* how run() has ended, if it has
    exitCondition,  \* Program::m_exitCondition
    server,         \* m_grpcServer
    services,       \* ServerImpl::m_services
    entries,        \* entries of the "plugins" list not handled yet
    plugins,        \* how many plugin objects are alive
    host,           \* the plugin manager: none, alive or freed
    hostRefs,       \* its reference count
    modules,        \* the libraries it has loaded
    call,           \* what each call has come to
    undefined       \* freed memory or unmapped code has been used

vars == <<main, result, exitCondition, server, services, entries, plugins,
          host, hostRefs, modules, call, undefined>>

Services == {"SystemInfo", "ProcessList"}
ServiceOf(c) == IF c \in InfoCalls THEN "SystemInfo" ELSE "ProcessList"
CallStates == {"none", "handler", "open", "finished", "done"}
Phases == {"createPidfile", "createServer", "loadPlugins", "startServer", "wait",
           "clearPlugins", "resetServer", "releaseHost", "exited", "killed"}

Init ==
    /\ main = "createPidfile"
    /\ result = "none"
    /\ exitCondition = FALSE
    /\ server = "none"
    /\ services = {}
    /\ entries \in 0..MaxEntries
    /\ plugins = 0
    /\ host = "none"
    /\ hostRefs = 0
    /\ modules = {}
    /\ call = [c \in Calls |-> "none"]
    /\ undefined = FALSE

hostVars == <<host, hostRefs, modules>>

-----------------------------------------------------------------------------
(***************************************************************************)
(* run(), up to the sleep.                                                 *)
(***************************************************************************)

\* return EXIT_FAILURE: the members of the application are destroyed next.
Fail ==
    /\ result' = "failure"
    /\ main' = "clearPlugins"

\* Another instance holds the file, or no name is configured.
CreatePidfile ==
    /\ main = "createPidfile"
    /\ \/ main' = "createServer" /\ UNCHANGED result
       \/ Fail
    /\ UNCHANGED <<exitCondition, server, services, entries, plugins, hostVars, call, undefined>>

\* The settings may be missing or bad, which createServer() reports.
CreateServer ==
    /\ main = "createServer"
    /\ \/ /\ server' = "built"
          /\ services' = {"SystemInfo"}
          /\ main' = "loadPlugins"
          /\ UNCHANGED result
       \/ Fail /\ UNCHANGED <<server, services>>
    /\ UNCHANGED <<exitCondition, entries, plugins, hostVars, call, undefined>>

\* new PluginMgr: its only reference is m_pluginMgr.  It is not created when
\* there is nothing to load.
CreateHost ==
    /\ main = "loadPlugins"
    /\ host = "none" /\ entries > 0
    /\ host' = "alive"
    /\ hostRefs' = 1
    /\ UNCHANGED <<main, result, exitCondition, server, services, entries, plugins,
                   modules, call, undefined>>

\* The references a new plugin takes on its host: queryInterface() returns a
\* weak reference, and the constructor of ReferenceCountedPtr adds none.
ReferencesOfPlugin == 0

\* loadPlugins() keeps the handle of the plugin, and so its logger and its service.
HandleDropped == plugins              \* mutant: m_plugins.push_back() is forgotten
HandleKept == plugins + 1

\* The constructor of the plugin, with startServices(): addService() refuses
\* only a server that runs, which this one does not yet.
NewPlugin ==
    /\ plugins' = HandleKept
    /\ hostRefs' = hostRefs + ReferencesOfPlugin
    /\ services' = services \union {"ProcessList"}

\* One entry: a path loaded before serves again, a new one is loaded, and an
\* entry that is malformed or cannot be loaded is skipped with a message.
LoadPlugin ==
    /\ main = "loadPlugins"
    /\ host = "alive" /\ entries > 0
    /\ entries' = entries - 1
    /\ \/ \E path \in Paths : modules' = modules \union {path} /\ NewPlugin
       \/ UNCHANGED <<modules, plugins, hostRefs, services>>
    /\ UNCHANGED <<main, result, exitCondition, server, host, call, undefined>>

PluginsLoaded ==
    /\ main = "loadPlugins" /\ entries = 0
    /\ main' = "startServer"
    /\ UNCHANGED <<result, exitCondition, server, services, entries, plugins, hostVars,
                   call, undefined>>

\* BuildAndStart() may return no server: an address in use, for example.
StartServer ==
    /\ main = "startServer"
    /\ \/ server' = "running" /\ main' = "wait" /\ UNCHANGED result
       \/ Fail /\ UNCHANGED server
    /\ UNCHANGED <<exitCondition, services, entries, plugins, hostVars, call, undefined>>

\* The signal waiter runs from before run() on: a signal may come at any time,
\* and only the first one is waited for.
SignalHandler ==
    /\ ~exitCondition
    /\ main \notin {"exited", "killed"}
    /\ exitCondition' = TRUE
    /\ UNCHANGED <<main, result, server, services, entries, plugins, hostVars, call, undefined>>

\* exitCondition().waitValue(true) has returned.
SleepWhileSet == ~exitCondition       \* mutant: waitValue(false)
SleepOver == exitCondition
WaitForExit ==
    /\ main = "wait"
    /\ SleepOver
    /\ result' = "success"
    /\ main' = "clearPlugins"
    /\ UNCHANGED <<exitCondition, server, services, entries, plugins, hostVars, call, undefined>>

-----------------------------------------------------------------------------
(***************************************************************************)
(* Taking it down.  A run that succeeded clears the plugins, resets the    *)
(* server, and leaves the plugin manager to the destructor of the          *)
(* application; after a failure the destructor does it all, in the reverse *)
(* order of the members: plugins, plugin manager, server.                  *)
(***************************************************************************)
AfterPlugins == IF result = "success" THEN "resetServer" ELSE "releaseHost"
ServerLast == "exited"                \* mutant: m_pluginMgr is never released
AfterServer == IF result = "success" THEN "releaseHost" ELSE "exited"
AfterHost == IF result = "success" THEN "exited" ELSE "resetServer"

\* release(): the last reference deletes the plugin manager, which unloads the
\* libraries.  Releasing a freed object is undefined.
ReleaseHost ==
    IF host = "alive"
    THEN /\ hostRefs' = hostRefs - 1
         /\ IF hostRefs = 1 THEN host' = "freed" /\ modules' = {}
                            ELSE UNCHANGED <<host, modules>>
         /\ UNCHANGED undefined
    ELSE undefined' = TRUE /\ UNCHANGED hostVars

\* m_plugins.clear(), one handle: the destructor of the plugin releases its
\* logger and m_host.
ReleasePlugin ==
    /\ main = "clearPlugins" /\ plugins > 0
    /\ plugins' = plugins - 1
    /\ ReleaseHost
    /\ UNCHANGED <<main, result, exitCondition, server, services, entries, call>>

PluginsCleared ==
    /\ main = "clearPlugins" /\ plugins = 0
    /\ main' = AfterPlugins
    /\ UNCHANGED <<result, exitCondition, server, services, entries, plugins, hostVars,
                   call, undefined>>

\* ~ServerImpl: Shutdown() refuses new calls and waits for those in progress.
BeginShutdown ==
    /\ main = "resetServer" /\ server = "running"
    /\ server' = "stopping"
    /\ UNCHANGED <<main, result, exitCondition, services, entries, plugins, hostVars,
                   call, undefined>>

CallsOver == \A c \in Calls : call[c] \in {"none", "done"}

\* Then the services are destroyed, by code in the library that made them.
DestroyServer ==
    /\ main = "resetServer" /\ server # "running"
    /\ CallsOver
    /\ server' = IF server = "none" THEN "none" ELSE "freed"
    /\ services' = {}
    /\ undefined' = (undefined \/ ("ProcessList" \in services /\ modules = {}))
    /\ main' = AfterServer
    /\ UNCHANGED <<result, exitCondition, entries, plugins, hostVars, call>>

\* The destructor of m_pluginMgr.
ReleasePluginMgr ==
    /\ main = "releaseHost"
    /\ IF host = "none" THEN UNCHANGED <<hostVars, undefined>> ELSE ReleaseHost
    /\ main' = AfterHost
    /\ UNCHANGED <<result, exitCondition, server, services, entries, plugins, call>>

\* What is undefined may also end the process.
Crash ==
    /\ undefined /\ main # "exited"
    /\ main' = "killed"
    /\ UNCHANGED <<result, exitCondition, server, services, entries, plugins, hostVars,
                   call, undefined>>

-----------------------------------------------------------------------------
(***************************************************************************)
(* Calls, on the threads of gRPC.                                          *)
(***************************************************************************)
Alive == main # "killed"

Accept(c) ==
    /\ Alive /\ server = "running"
    /\ call[c] = "none" /\ ServiceOf(c) \in services
    /\ call' = [call EXCEPT ![c] = "handler"]
    /\ UNCHANGED <<main, result, exitCondition, server, services, entries, plugins,
                   hostVars, undefined>>

\* Ping and GetSystemInfo finish their reactor on every path; GetProcessProps
\* calls Finish() only for a call that is already cancelled.
Outcomes(c) == IF c \in InfoCalls THEN {"finished"} ELSE {"finished", "open"}

\* The handler of ProcessList uses the logger of its plugin throughout.
Handle(c) ==
    /\ Alive /\ call[c] = "handler"
    /\ \E o \in Outcomes(c) : call' = [call EXCEPT ![c] = o]
    /\ undefined' = (undefined \/ (c \in ProcCalls /\ plugins = 0))
    /\ UNCHANGED <<main, result, exitCondition, server, services, entries, plugins, hostVars>>

\* OnDone(): the status is on its way to the client, the reactor deletes itself.
OnDone(c) ==
    /\ Alive /\ call[c] = "finished"
    /\ call' = [call EXCEPT ![c] = "done"]
    /\ undefined' = (undefined \/ (c \in ProcCalls /\ plugins = 0))
    /\ UNCHANGED <<main, result, exitCondition, server, services, entries, plugins, hostVars>>

-----------------------------------------------------------------------------
Setup == CreatePidfile \/ CreateServer \/ CreateHost \/ LoadPlugin \/ PluginsLoaded \/ StartServer
TakeDown ==
    \/ ReleasePlugin \/ PluginsCleared \/ BeginShutdown \/ DestroyServer \/ ReleasePluginMgr

\* exec() has returned, the process has died, or Shutdown() waits for good.
Ended ==
    /\ \/ main \in {"exited", "killed"}
       \/ server = "stopping" /\ \E c \in Calls : call[c] = "open"
    /\ UNCHANGED vars

Next ==
    \/ Setup \/ WaitForExit \/ TakeDown \/ Crash \/ SignalHandler \/ Ended
    \/ \E c \in Calls : Accept(c) \/ Handle(c) \/ OnDone(c)

\* The main thread runs, and gRPC runs the handlers of the calls it accepted and
\* their OnDone(); clients and signals come when they like.
Fairness ==
    /\ WF_vars(Setup) /\ WF_vars(WaitForExit) /\ WF_vars(TakeDown)
    /\ \A c \in Calls : WF_vars(Handle(c)) /\ WF_vars(OnDone(c))

Spec == Init /\ [][Next]_vars
FairSpec == Spec /\ Fairness

-----------------------------------------------------------------------------
\* Every variable has its type.
TypeOK ==
    /\ main \in Phases
    /\ result \in {"none", "failure", "success"}
    /\ exitCondition \in BOOLEAN
    /\ server \in {"none", "built", "running", "stopping", "freed"}
    /\ services \subseteq Services
    /\ entries \in 0..MaxEntries
    /\ plugins \in 0..MaxEntries
    /\ host \in {"none", "alive", "freed"}
    /\ hostRefs \in 0..(MaxEntries + 1)
    /\ modules \subseteq Paths
    /\ call \in [Calls -> CallStates]
    /\ undefined \in BOOLEAN

\* As long as run() has not ended, however many plugins have been loaded and whatever
\* calls are in progress, no handler touches a plugin, a logger or a library that is
\* gone: what a service lives on is there as long as its server takes calls.  It is
\* the way down that breaks this (the plugins go before the server does, and the first
\* of them takes the plugin manager along), and what is undefined comes only after
\* the plugin manager has been freed.
DefinedWhileRunning == undefined => result # "none" /\ host = "freed"

\* Whichever way run() ends, the process exits with nothing left alive: no plugin,
\* no plugin manager, no library, no server.
NothingLeft ==
    main = "exited" =>
        plugins = 0 /\ modules = {} /\ host # "alive" /\ server \in {"none", "freed"}

\* Once a signal has come the process ends, if every call accepted is answered.
ExitsUnlessCallOpen ==
    <>[](\A c \in Calls : call[c] # "open") => (exitCondition ~> main \in {"exited", "killed"})

-----------------------------------------------------------------------------
\* include/erebus/ipc/grpc/proctree.proto declares GetProcessProps as a call that
\* returns a ProcessPropsReply.  The handler never finishes its reactor, so the
\* caller never gets it.
CallsAnswered == \A c \in Calls : call[c] = "handler" ~> call[c] = "done"

\* What queryInterface() returns is a "weak reference" (iunknown.hxx): whoever gets
\* one must not release it, so the plugin manager is there as long as the
\* application holds the reference it owns.  The plugin releases the weak one.
HostOutlivesItsOwner ==
    host = "freed" =>
        \/ main \in {"exited", "killed"}
        \/ main = "resetServer" /\ result = "failure"
=============================================================================
