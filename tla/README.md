# Erebus server: formal models

This directory holds TLA+ modules, TLC configurations and TLAPS proofs about
the Erebus server: a C++ daemon that answers gRPC requests about the system and
its processes, plugins that add services to it, the client library that asks
them, a ping tool that exercises them, and the run-time library all of these
are built on. Paths below are relative to the root of the repository;
`include/` and `src/` of the repository are meant where a path starts so.

Contents: 1 the system, 2 the modules, 3 the runs, 4 bounds, 5 fairness,
6 proofs, 7 what only TLC checks, 8 behaviour found, 9 what is not modelled,
10 the plan.

`PROJECT.json` maps every definition to the lines of code it stands for, lists
the hazards of the code with the properties that cover them, and gives for
every property a mutation of the model that breaks it.

## 1. The system

### 1.1 Components

| Component | State it keeps | Operations | Hard because |
|---|---|---|---|
| Asynchronous logger (`src/rtl-lib/logger/async_logger.cxx`) | a write queue and a read queue under two mutexes, a counter of pending records, a worker thread | `doWrite`, `flush`, destruction; the worker waits, swaps, sends | every thread of the server logs through it; counter and queue are updated in different critical sections; notifications are sent outside the locks; the queue is bounded |
| Logger base and scopes (`logger_base.hxx`, `sync_logger.cxx`, `log.hxx`) | level; per thread indentation, nesting of blocks, records collected in a block | `write`, `indent`/`unindent`, `beginBlock`/`endBlock`, the RAII scopes | loggers are chained; per-thread data is keyed by an id that is reused; the level changes while scopes are open |
| Thread data (`thread_data.hxx`) | the ids in use; per thread a vector with a place for each id | allocate and release an id, grow a vector, hand out a reference | ids are given again and places are not cleared; growing invalidates the references that were handed out |
| Tee (`tee.cxx`) | sinks by name, a counter in each sink | `addSink`, `removeSink`, `findSink`, `write`, `flush` | threads remove sinks that others write to or have found; only one that is made so has a mutex |
| Global and null logger (`logger.cxx`, `null_logger.hxx`) | the global logger; what was logged before there was one | `setGlobal`, `write`, `pop` | what was logged early must come first |
| File sink (`file_sink.cxx`) | the size of the log, the chain of old logs on disk | `write` with partial writes, rotation at the limit and at the start | errors of the rotation are ignored; the process may die between any two renames |
| Assertions (`assert.cxx`) | a counter of active assertions | `printFailedAssertion`, abort | several threads fail at once, printing may itself fail an assertion |
| Reflectable records (`reflectable.hxx`) | fields, a mask of the valid ones, a cached hash with a flag | set, validate, hash, diff, two forms of update, copy, move | the cached hash has to be dropped in nine places |
| Properties and bags (`property.cxx`, `property_bag.cxx`) | trees of named, typed values | load JSON, find by path, compare, add, format | recursion, duplicate names, a depth limit |
| Errors and exceptions (`error.cxx`, `exception.cxx`) | a registry of categories; code, category and properties of an exception | register, find, decode | an error crosses processes that know different categories |
| Program (`program.cxx`, `program.hxx`, `condition.hxx`) | the exit condition, the signal that was received, a thread that waits for signals | start, daemonize, wait, exit on every path | signals arrive at any time; the waiter is a thread of a member; the process signals itself |
| Reference counting (`iunknown.hxx`, `unknown_base.hxx`, `auto_ptr.hxx`) | a counter per object | `addRef`, `release`, copies and moves of pointers, `queryInterface` (weak) | owning and weak references have the same type |
| Protocol (`protocol.cxx`, `src/proctree/protocol.cxx`) | none | marshal and unmarshal properties, exceptions, masks, processes | partial information: types, names and codes can get lost |
| SystemInfo service and client (`system_info_service.cxx`, `system_info_client.cxx`) | a reactor per call on each side | `Ping`, `GetSystemInfo` | callbacks on gRPC threads, cancellation, exceptions in callbacks, lost connections |
| Client contexts (`client_base.hxx`) | a counter, a mutex, a condition variable | add, remove, wait in the destructor | the last completion races with the destructor |
| ProcessList service and client (`proctree_service.cxx`, `process_list_client.cxx`) | a reactor per call | `GetProcessProps` | lives in a plugin whose code can be unloaded |
| Process collector and procfs (`process_props_collector.cxx`, `procfs.cxx`, `posix_file.cxx`) | none of its own; it reads `/proc` | collect the properties of a pid, split the stat line | the process runs, ends and is replaced while its files are read |
| Server application (`server_app.cxx`, `plugin_mgr.cxx`, `plugin.cxx`, `grpc_server.cxx`) | RPC server, services, plugins, plugin manager, loaded libraries | start, load plugins, wait, take down | three owners with references among each other; calls in progress during shutdown; every step of the start may fail |
| PID file (`lock_file.cxx`, `pid_file.hxx`) | a file and a lock on it | open, lock, write, unlink, unlock | other instances do the same at the same time on the same path, or die |
| Ping tool (`tools/ping`) | worker threads, a counter of busy users, completions owned by gRPC | start, issue, complete, stop, destroy | threads started by a base class call a virtual function of the derived one |
| Lua types and objects (`luaxx_metatable_registry.cxx`, `luaxx_class.hxx`, `luaxx_primitives.hxx`, `luaxx_references.hxx`) | metatables by class name, the Lua registry, objects that Lua owns | register a class, push and read pointers and objects, hold references, close the state | two owners; what a value is taken for is decided by metatables, and all pointers share one |
| Lua calls and errors (`luaxx_function.hxx`, `luaxx_base_fun.cxx`, `luaxx_exception_handler.hxx`, `luaxx_util.cxx`) | the stack of each running C++ function, the exception that is passed through | call Lua from C++ in eight ways, C++ from Lua, report what fails | exceptions cross frames of Lua; some calls are made by destructors |
| Lua selectors (`luaxx_selector.hxx`, `luaxx_selector.cxx`) | a path, arguments, a call that is still to be made | index, call later, convert, assign, copy, move, destroy | a call is made by the last of several objects; errors outside of a protected call end the process |
| Text, time, patterns, files, users, stack traces, formatters | none | pure functions and wrappers of system calls | not hard: unit tests cover them |

### 1.2 Interactions

* Every component logs. A record goes through `LoggerBase` of the service
  logger, that of the main logger, the queue of the asynchronous logger, its
  tee, and a sink. `LoggerChain`, `AsyncLogger`/`LogChannel` and `FileSink` are
  three stages of that path; `Tee` is the one between the last two, and
  `ThreadData` what the first stage keeps per thread.
* `ServerApplication` owns the plugins, the plugin manager and the RPC server;
  a plugin refers to the plugin manager and adds a service to the server; the
  service logs through the logger of the plugin and its code lies in a library
  of the plugin manager. `ServerLifecycle` has all of these.
* A client request becomes a context counted by `ClientBase` and a reactor on
  each side (`SystemInfoCall`); what it carries is converted by the protocol
  functions (`Marshalling`), and for processes comes from the collector
  (`ProcessCollector`, `StatLine`).
* Scripts call C++ and C++ calls scripts: the classes of `LuaTypes` are what is
  passed, `LuaStack` the calls, `LuaSelector` the C++ expressions that end in
  calls. The server does not run scripts yet; the unit tests and the classes of
  the run-time library are the users.
* The ping tool owns clients; the destructor of a client (`ClientBase`) is what
  keeps its runner alive long enough (`PingRunner`, action `Close`).

### 1.3 What makes each component correct

* Asynchronous logger: no record is sent twice or out of order, only a full
  queue loses records; the counter of pending records is right, so that `flush`
  can rely on it; no urgent record waits for a timeout; no call hangs.
* Logger chain: a block of records is not interleaved with other records; the
  records of a thread stay in order; scopes undo exactly what they did.
* Thread data: each logger finds what it has stored itself; the reference that
  `endBlock` uses again is still one.
* Tee: a sink lives exactly as long as somebody has it, and no record goes to one
  that is gone.
* File sink: whatever fails or dies, what is read back from the logs is the
  records in order, none twice and none split, with gaps only at the old end.
* Assertions: a failed assertion ends the process.
* Records: the hash answers for the current fields; `update` makes equal.
* Properties: lookups answer as the document does; they refuse what is nested
  too deep; equal trees behave alike.
* Protocol: what is sent arrives, in whatever order; an error stays an error.
* Calls: the handler gets a prefix of the stream, is told if it is not all of
  it, and both reactors are freed whatever happens.
* Client contexts: the destructor waits for every request, and returns when all
  have ended.
* Collector: a process that stays gets a complete reply; one that goes away
  costs no more than its files.
* Server: nothing is left when it exits, what a handler uses is there as long as
  the server runs, a signal ends it.
* PID file: an instance that holds the file finds its PID in it; if several
  start together one of them goes on; the path is gone afterwards.
* Program: a caught signal ends it, wherever the main thread is; its own signal
  never kills it; no thread is left when its members go; early records come first.
* Lua: C++ gets an object as the type it has; what C++ holds is not collected; a
  call reads its own results; an exception arrives as itself, at a script that
  catches it or at the handler of the call, and a second one never leaves a destructor; a call that was written is made once.
* Ping: the counter counts its users; nobody uses the runner when it is gone;
  it stops when asked and when it is done.

## 2. The modules

Every component has a module named for it; state variables carry the names of
the members they stand for. Actions are critical sections, system calls or
callbacks: the steps between which another thread, process or event can come.
The modules whose names end in `Proofs` have the theorems and their proofs
(section 6).

### AsyncLogger and LogChannel

`wQueue`, `rQueue` and `pending` are `m_wQueue`, `m_rQueue` and
`m_pendingRecords`. A call of `doWrite` or `flush` is the steps `Push` (critical
section of the write queue: makes room, appends), `Count` (critical section of
the read queue: adds 1 less what was dropped), `Notify`; `flush` goes on with
`FlushCheck` and `FlushTimeout`. The worker is `WorkerCheck`, `WorkerTimeout`,
`WorkerSwap`, `WorkerLock`, `WorkerSend` (one record per step, the last one
settles the counter), `WorkerAnnounce`, `WorkerLoop`; `Destroy` is the
destructor of the thread. The two mutexes are where a thread holds one for
longer than a step (`WFree`, `RFree`). The comparison of times that decides
whether a plain record wakes the worker is a choice.

`LogChannel` is the abstract specification: a channel that keeps the order and
loses one waiting item when it is full. AsyncLogger implements it with
`channel <- rQueue \o wQueue`; LoggerChain uses it as what is behind the main
logger.

### LoggerChain

Per thread and logger: `indent`, `block`, `atomic` are the members of
`PerThread`; `scopes` is the stack of scope objects of the thread, which close
in reverse order. `Write` goes through the level, the stamping with the
indentation and the block of one logger after the other (`ReachService`,
`ReachMain`), exactly as `LoggerBase::write` calls `doWrite` of the next one.
`EndBlock` passes the collected group on when the outermost block ends.

### Tee

`sinks` is `m_sinks`; `refs` and `alive` are the counter of each sink and whether
it has been deleted. A call is `Enter` (parameters are copied, the mutex taken),
then `Visit` with `Written` or `Flushed` per sink, or the operation on the map, and
`Leave`. `CopyPointer`, `MovePointer` and `Reset` are those of
`ReferenceCountedPtr`. The tee is one with a mutex, as both loggers make it; one
without is for a single thread.

### ThreadData

`id` is `m_instanceId` of each logger, `td` the vector of each thread. `Make` and
`Destroy` are the constructor and destructor, `Access` any use of `data()`.
`endBlock()` is two steps, `EndBlock` and `Sent`, because it uses its reference
(`sending`) again after the records have gone through another logger. A vector
that has grown since is a different vector: the reference is remembered with the
length the vector had.

### ClientBase

`count`, `lock`: `m_runningContexts`. `removeContext()` is three steps
(`Decrement`, `Unlock`, `Notify`), because the destructor (`Release`, `Check`,
`Wait`, `WakeUp`) first looks at the counter without the lock.

### SystemInfoCall

The server's reactor (`Serve`, `Written`, `WriteFailed`, `Freed`) and the
client's reader (`Call`, `ReadDone`, `ReadEnds`, `Done`), with gRPC between
them: an ordered stream with a bounded window, a status after it, and an abort
by either a cancellation or a lost connection (`Lose`). gRPC is external and is
modelled from what the code relies on.

### Marshalling

Pure conversion functions as operators, driven by `SendProperty` and
`SendError` over all small trees and errors. Maps are met in any order.

### ProcessCollector and StatLine

`ReadOwner`, `ReadStat`, `ReadNext` read one file each, in the order of the
code; between them the process may `Execute`, `Exit` and another one be `Born`
with the same pid. Values are what they were read from, so a property can tell
whose they are. `StatLine` is the loop of `readStat()` on lines of characters:
`Scan` is one round of the inner loop, which looks for the end of a field and
jumps over the name, and `TakeField` the rest of the outer one.

`UserName` and the files of a process (`CommFile`, `CmdLineFile`, `EnvFile`,
`ExeLink`) are read in one step each: `tryLoadFile()` reads in blocks of 8 KiB,
and what the kernel does to a file between two blocks is not modelled.

### ServerLifecycle

`main` is where `run()` or the destructor of the application is; `Setup` are
the steps of the start, each of which may fail; `TakeDown` the destruction in
the order of the code (after a success) or of the members (after a failure).
Calls come, are handled and finish on other threads (`Accept`, `Handle`,
`OnDone`). `hostRefs` counts the references to the plugin manager as
`iunknown.hxx` does; `undefined` becomes true when freed memory or unloaded
code is used, after which `Crash` may end the process at any point.

### PidFile

One action per system call (`open`, `flock`, `ftruncate`, `write`, `unlink`,
`close`) for each instance, files with identity (inodes that are reused when
nobody has them open), `Crash` at any point, short writes, and an `open` that
fails (`OpenFails`, which `unable` remembers).

### PingRunner

`PingConstants` has its constants, so that `MCWaits` can have them without the
names of its variables. The main thread constructs threads (`Spawn`), becomes the derived class
(`Constructed`), sleeps, and destroys; a worker counts itself (`Busy`), makes
the virtual call (`Enter`), issues requests and closes its client (`Close`);
completions end at any time (`Complete`). A virtual call before the derived
class exists or after it is gone leads to `terminated`.

### Program

`main` is where the main thread is in `exec()` or in the destructors, on each of
the ways out: a bad configuration, a `run()` that cannot start, and one that
waits. `setter` are the two threads that set the exit condition: the waiter for
signals, and the thread on which the ping tool learns that its runner is done.
`Condition` is `Lock`, `Check`, `Block`, `Spurious` for the sleeper and `Set`,
`Notify` for the others. Signals are caught into `pipe` while boost::asio has
them registered; its handler (`WaiterHandle`) is installed once. A signal that
the main thread sends to its own process is delivered before `kill()` returns,
as Linux does it. `Log`, `SetGlobal` and `Drain` are the null logger and the
change to the real one. ServerLifecycle and PingRunner model what `run()` does.

### FileSink

`RemoveDest`/`RemoveFails` and `Rename`/`RenameFails` for each old log, `MakeLog`,
`WriteSome` (a partial write), `WriteFails`, `EndWrite`, `Kill` and `Start`.
Files are sequences of the numbered bytes of all records.

### AssertPrinter

The compare-exchange with its effect on `expected` (`TryAgain`), the report,
`Leave` and `Abort`, on several threads and nested.

### Reflectable

Every public operation that changes fields, mask or hash is an action. A hash
is the sequence of the values that were hashed. NaN differs from itself; a
moved-from field has any value.

### PropertyTree

`Load` with its depth limit, `FindPropertyByPath`, `Equal`. The reference
definitions are `Height` and `At`, which look at the document and not at the
tree.

### LuaTypes

`nameOf` and `class` are the metatables that `SetClass()` and `Class` register,
`shared` the one that all light userdata has (in Lua, not in the bindings).
`values` are the variables of a script, `owned` the objects that Lua collects,
`handle` the copies of `Reference` and `Pointer` with the slot of the Lua
registry they share. `Collect` may collect whatever no variable and no slot has.
`Accesses` collects every way in which C++ gets an object out of Lua: conversions
with and without a check, methods, bound functions, and the destructor that Lua
calls; `ReadAsPushed` says what they get.

### LuaStack

`frames` are the C++ functions that are running, each with the Lua stack it sees:
its arguments first, as Lua gives every C function a stack of its own. A call to
Lua may come from any of eight places (`Kinds`), which differ in whether they
set a message handler, how many results they ask for and where they read them,
whether they throw, and whether they run in a destructor (`Swallowed`). An
exception leaves a C++ function by `Throw` and `Dispatch`, which turns it into an
error object, and comes back by `Raise`: the innermost `pcall()` of the scripts in
between catches it (`pcalls` counts them for each call from C++), and if there is
none the call fails (`Fail`). What scripts have caught is `raisable`: `LuaError` is an
error of the script, with a message or with any of these objects, whichever call
it was caught in. `libraries` says whether the state has `pcall()` and `error()`
("base") and `debug.traceback()` ("debug"), without which `_lua_dispatcher()` raises
an error of its own before it has stored the exception (`Stored`).

### LuaSelector

`selector` are the C++ objects with their paths, `global` what Lua has at each
path. `CallLater` is `operator()`, which makes a selector active; `Run` makes the
call; `Copy`, `Move`, `Store`, `Convert` and `Destroy` are the operations that
pass it on or make it. `Script` is a script that assigns to any path in between.
`panicked` is an error that Lua raises outside of a protected call, which is
`abort()`.

### Modules that bring parts together

Modules that share no state are put behind one variable `part`, chosen in the
initial state: a behaviour is one of exactly one part, so one run checks all of
them and no product of states arises. The parts that do not run stay in an
initial state.

| Module | Parts |
|---|---|
| `MCLoggerChain` | LoggerChain, Tee, ThreadData |
| `MCWaits` | ClientBase, Program, PingRunner, AssertPrinter: where a thread waits for others |
| `MCIpcParts` | SystemInfoCall, Marshalling, PropertyTree |
| `MCRuntimeParts` | Reflectable, FileSink, ProcessCollector, StatLine, LuaTypes, LuaStack, LuaSelector |

`MCLoggerChain` and `MCPidFile` add symmetry.

## 3. The runs

| Run | Module | Result | Distinct states |
|---|---|---|---|
| `async_logger` | AsyncLogger | holds | 90,860 |
| `flush_really_flushed` | AsyncLogger | violated | |
| `logger_chain` | MCLoggerChain | holds | 1,305,312 |
| `waits` | MCWaits | holds | 57,464 |
| `ipc_parts` | MCIpcParts | holds | 61,998 |
| `server_life` | ServerLifecycle | holds | 3,248 |
| `calls_answered` | ServerLifecycle | violated | |
| `host_reference` | ServerLifecycle | violated | |
| `pid_file` | MCPidFile | holds | 3,440 |
| `runtime_parts` | MCRuntimeParts | holds | 1,190,397 |
| `one_assertion` | AssertPrinter | violated | |
| `lua_tuples` | LuaStack | violated | |

**async_logger.** `PendingAccounting`: the counter equals the queued items plus
the batch being sent, short of pushes that are not counted yet (it may be
negative). `NoSleepOnUrgent`: the worker sleeps on an atomic record or a flush
only while the notification is still to come. `FlushDrains`: a true answer of
`flush`, with no other call between its critical sections, means that both
queues are empty and that every item ever pushed was given to the sinks or has a
queue's length of newer ones behind it. The exception is what the code does: a
flush request is an item like others, and an overflow may discard it (section 8). `ImplementsChannel`: refinement of LogChannel, with its
fairness. `CallsReturn`: no call hangs.

**logger_chain.** Of LoggerChain `GroupsStayWhole`, `RecordsInOrder` (what reaches
the channel) and `NothingLeftBehind` (a thread that has no scope open has nothing
in its per-thread data: the place is used again by the next logger without being
cleared). Of ThreadData `PlacesAreOwn`, which rests on it: a logger finds only
what it has stored, and the reference of `endBlock` is still good. Of Tee
`SinksLiveWhileUsed`.

**waits.** Of ClientBase `NoContextOutlivesClient` and `DestructorReturns` (provided
that every request ends, which one kind does not: see `calls_answered`); of
Program `SignalEndsProgram` (a signal that was caught ends the program on every
path, without a lost notification) and `OwnSignalHarmless` (the SIGHUP of
`globalShutdown()` finds its handler); of PingRunner `NobodyOutlivesRunner` and
`PingEnds`, which is its `StopsWhenAsked` and `EndsByItself`; of AssertPrinter
`FailureAborts`. `NoSleepOnZero` of
ClientBase and `MembersOutliveThreads`, `ReasonIsKnown` and `EarlyRecordsFirst` of
Program are proved and not run.

**ipc_parts.** Of SystemInfoCall `InOrder`, `AllOrError`, and `BothSidesEnd` (the
call ends for the client and both reactors are freed); of Marshalling `Arrives`;
of PropertyTree `LookupsAgree`.

**server_life.** `DefinedWhileRunning`: until `run()` has ended no handler touches a
plugin, a logger or a library that is gone, whatever was loaded, and later only once
the plugin manager is freed; in the take-down it happens (section 8). `NothingLeft`,
and the liveness property `ExitsUnlessCallOpen`: after a signal the process ends, provided every
accepted call is answered. The proviso is needed, see `calls_answered`.

**pid_file.** `OwnText`, `NoFileLeft`, `SomebodyServes`: if all starts are over, one
serves, unless one was killed or could not write, or no instance could open the path.

**runtime_parts.** Of FileSink `LogsReadBack`; of Reflectable `HashIsCurrent`,
`UpdateCopies`; of ProcessCollector `ReplyAsRead`; of StatLine `NameIsOneField`; of
LuaTypes `ReadAsPushed` and `PinnedAlive`; of LuaStack `SinglesAreOwn`,
`OneExceptionUnwinds` and `ExceptionReported`; of LuaSelector `RunsOnce` and
`PanicsOnlyIfCut`.

**flush_really_flushed, calls_answered, host_reference, one_assertion,
lua_tuples.** Each checks one property that a comment, a declaration or a test of
the repository states, and TLC refutes it; section 8 describes what happens.

Deadlock is checked in every run but `logger_chain`, whose threads simply stop
when the bounds on records, scopes and sinks are used up. The other modules say
explicitly where the program may stop (`Terminated`, `Ended`, `Done`, `Over`,
`Dead`): nothing else may.

## 4. Bounds

All bounds are constants named in the modules.

* AsyncLogger: two producers, a queue of two, three pushes. Two producers give
  every order of two calls; a queue shorter than the number of pushes overflows,
  and overflows again while a batch is being sent; three pushes suffice for one
  flush between two other calls.
* LoggerChain: two threads, two loggers, three records, two scopes open per
  thread and two opened in all, one level change. Two scopes give block in block,
  indentation in block and block in indentation, on equal or different loggers.
  `Capacity` 1 makes the channel lose.
* Tee: two threads with two pointers each, two names and two sinks: one thread
  can remove and replace what the other writes to or has found.
* ThreadData: two threads, three loggers: one can take the place of another while
  the main one stays.
* ClientBase: four requests, of which any subset starts before the release.
* Program: two signals from others besides its own, so that one comes after the
  waiter has handled its only one; two early records and a late one.
* SystemInfoCall: up to four properties and a window of two, so that writes have
  to wait and an abort finds messages in flight; any set of the properties throws.
* Marshalling: scalars, empty properties, and containers of up to two (vectors)
  or three (maps) of them, nested twice. Registered, local and unknown
  categories; codes with and without text; up to two properties.
* ProcessCollector: two processes of two programs each may have the pid: one
  replacement distinguishes every mix. Masks: all, none, each single field, all
  but one. The fields of `stat` come from one read and are one field, `State`; the
  theorem has any number of them.
* StatLine: names up to four characters of two letters, both parentheses and the
  space; three fields after the name, of the same letters, so that a name can hold
  what looks like the end of a name with fields behind it, `) S`.
* ServerLifecycle: two calls to one service and one to the other, three plugin
  entries and two paths, so that a path repeats.
* PidFile: three instances and four files: two may hold locks on two files of
  the same name while a third creates one more. Instances and files are
  symmetric; no liveness is checked there.
* PingRunner: three workers, one iteration (or no end), two live completions.
* FileSink: five records of two bytes, at most four bytes a file, two old logs,
  three lives. Two records fill a file, so two rotations happen in one life.
* AssertPrinter: three threads, reports nested once.
* Reflectable: two records, two fields, one ordinary value and NaN. Moved-from
  and invalid fields keep arbitrary values.
* PropertyTree: arrays and objects of up to two items, one level below the depth
  limit and one above it; paths of up to three components, empty ones included;
  integers of two bits, so that a number overflows.
* LuaTypes: two types, two class names (equal or different ones), one variable,
  two handles, one object that Lua owns: two handles share a slot, and a slot is
  given again after the first is freed. The types and the names are
  interchangeable, so only behaviours that register a first one first are explored.
* LuaStack: three nested C++ functions, three calls to Lua, one argument, two
  exceptions: an exception passes two protected calls while another one is being
  handled. One `pcall()` open in each call from C++, so that one exception is caught
  while an outer `pcall()` waits, and is raised again when there is none. In
  `runtime_parts` the third call is one made while the destructor of a selector is
  running because of an exception, for which it is needed, and of the exceptions,
  which are interchangeable, the first comes first. `lua_tuples` has two arguments,
  two functions and two calls.
* LuaSelector: paths of up to three keys, two handles, three active selectors.

## 5. Fairness

Safety is checked and proved without fairness. Liveness assumes only this:

* AsyncLogger: a thread inside a call and the worker are scheduled. Waits are
  `wait_for` with a timeout, so weak fairness on the disjunction of the steps of
  a thread is what the operating system gives. No thread has to make a call.
* ClientBase: threads are scheduled; a spurious wake-up is possible and never
  assumed. That a request ends is not assumed: the clients set no deadline, and the
  server never answers `GetProcessProps`. `DestructorReturns` has it as a proviso.
* Program: the main thread and the waiter are scheduled, and a thread that wants
  the mutex of the exit condition gets it if it is released again and again
  (strong fairness: without it endless spurious wake-ups could keep the mutex).
  Signals, a finished runner and spurious wake-ups are free.
* SystemInfoCall: the gRPC threads of the two sides run. Nobody has to cancel,
  lose the connection, or make the call.
* ServerLifecycle: the main thread runs unless it waits, handlers that were
  started go on and `OnDone` follows `Finish`. Signals and clients are free.
* PingRunner: threads are scheduled and requests complete, with or without an
  error. Signals are free.
* AssertPrinter: threads are scheduled and the printing ends (its flush has a
  timeout).

## 6. Proofs

TLAPS checks the theorems for every value of the constants that meets the
assumptions stated with them: finite sets of threads, calls and types, positive
sizes, special values that are no members of the sets they are told from. TLC
evaluates the assumptions in the runs. Safety of every part is proved but for
what section 7 lists.

| Module | Theorems | Inductive invariant, and why the property alone is not inductive |
|---|---|---|
| AsyncLoggerProofs | `TypeCorrect`, `AccountingCorrect`, `NoLostWakeup`, `FlushDrainsCorrect`, `ChannelImplemented`, `RecordsInPushOrder`, `NoCallIsStuck` | `TypeInv /\ PendingAccounting`. `TypeInv` adds `BatchInv`: the read queue is empty while the worker waits, so that a swap loses nothing; it is left non-empty only by a stop; and during a stop no producer is in a call. Without it a swap could bring old records behind new ones, and the counter could be settled for a batch twice. `ItemsKept` for `FlushDrainsCorrect`: the write queue holds the names given out last, without a gap, so an overflow takes one that has a queue's length of newer ones behind it. `PushOrder` and `NothingLostWithRoom` are invariants of LogChannel, over what was delivered and what waits, and hold of the logger because it implements the channel; `BatchNotEmpty` says that the worker holds a lock only with something to send |
| LoggerProofs, of LoggerChain | `GroupsAreWhole`, `RecordsKeepOrder`, `ScopesLeaveNothing` | `ChainInv`: the indentation and the blocks of a thread are the scopes it has open (`Balanced`), only a block holds records (`HeldInBlocks`), an open block has a group of its own (`GroupsGiven`), and the records held and those on their way are in order, whole and numbered as they were written (`RecordsKept`), for what is in the blocks of both loggers followed by what the channel has |
| LoggerProofs, of Tee | `SinksStayLive` | `TeeInv`: the counter of a sink is the number of its owners (`CountedRight`; a lemma for each way an owner is added, moved or dropped), the lock excludes, a call that uses a sink is inside of it, and a sink that is not made yet has no owner |
| LoggerProofs, of ThreadData | `PlacesStayOwn` | `PlacesInv`: live loggers have different ids and the main one the first (`OwnIds`); no thread has anything stored in a place that no live logger has (`EmptyIfFree`) |
| WaitsProofs, of ClientBase | `ClientTypes`, `ClientOutlivesContexts`, `NoLostNotification` | `ClientInv` adds `CountsContexts`: the counter is the number of contexts. The unlocked read of the destructor is right because of that and because no request starts after the release |
| WaitsProofs, of Program | `ProgramTypes`, `HangUpSurvived`, `ThreadsEndFirst`, `SignalReported`, `EarlyRecordsKept`, `SignalNotMissed`, `WaitsSurviveHangUp` | `ProgramInv`, in four parts: from the start of the waiter to the shutdown SIGHUP is caught; where each setter can be in each phase; the signal is stored before the exit condition is set; what was delivered continues with what is pending (`Ordered`, with the lemma `MoveOne` for one step of the draining). `ConditionInv` for `SignalNotMissed`: the main thread holds the mutex between its look at the value and its sleep (`MutexInv`), so the value is not set in between (`WakeUpInv`), and a waiter without a handler has set it or is about to (`ListenInv`) |
| WaitsProofs, of PingRunner | `PingTypes`, `RunnerIsLast`, `LastIdleNotMissed`, `WaitsForRunners` | `PingInv`: a live completion belongs to a worker that has not closed its client, and a freed runner has joined every worker. `BusyInv` for `LastIdleNotMissed`: `m_busy` is the number of its users, a set of pairs of a worker with 0 or with the number of a completion, and once somebody has come the counter is positive or the program asked to exit |
| WaitsProofs, of AssertPrinter | `FailureIsFinite` | `PrinterInv`, which is only types: what is proved is a descent. Each thread has a rank, the numbers below the ranks are a finite set (`ToDo`), and each step makes it smaller or leaves it and makes smaller the set of the threads whose next compare-exchange fails (`Mistaken`) |
| PidFileProofs | `TypeCorrect`, `WrittenTextStays`, `PathCleared`, `OneServes` | `OpenWhileUsed` (a file is open exactly in the states that use it, so that its number is not reused) and `OneHolder` (the lock is exclusive) for the first; for the others also that the path never names a file its holder has unlinked, that a named file has somebody who will unlink it, and that somebody who could open the path has not given up |
| ServerLifecycleProofs | `TypeCorrect`, `DefinedUntilTheEnd`, `NothingLeftCorrect`, `LifeIsFinite`, `OnlyCallsDelayExit` | the application is the only owner of the plugin manager (`HostInv`), where the server is on the way up, that a call in progress needs a server that runs or stops, and what is gone at each step down in both orders. For `DefinedUntilTheEnd` also `UseInv`: while the service is registered and the plugin manager is not freed there is a plugin in the list, and its library. For the last also `Latecomers`: only a call of ProcessList is left open by its handler |
| SystemInfoCallProofs | `TypeCorrect`, `HandlerInOrder`, `NothingCutShort`, `CallIsFinite`, `NobodyIsStuck` | `Flight` (what is in the stream follows what has been read, without a gap), `Progress` (where the server is, as long as the connection holds) and `Ending` (a call ends without an error only behind the status OK). For the last also `Reasons`: a side that is through has a trailer, an abort or an empty stream to show for it |
| ReflectableProofs | `HashCorrect`, `UpdateCopiesCorrect` | `Shape`: which functions the variables are, without a type for the values. The main lemmas: without differences `update()` changes nothing, and differences lead from one record to the other |
| RuntimeProofs, of FileSink | `SinkLogsReadBack` | `SinkInv`: what was renamed is gone from where it was unless a rename failed (`Emptied`, so that the next rename overwrites nothing); the bytes of the record being written are in the log and nowhere else, up to `written` (`WrittenSoFar`); and the files, oldest first, read back right (`ReadBack`). The main lemmas, about any row of files: a file may be emptied, the oldest one only loses what is older than the rest, and a file may move up to an empty place |
| RuntimeProofs, of ProcessCollector | `CollectorReplies` | `CollectorInv`: the process that had the pid first is the oldest (`FirstIsOldest`), `stat` is of one process (`StatIsOne`), and the fields read so far are those that come before `pc` (`OutIsRead`), each of the process that had the pid then |
| RuntimeProofs, of StatLine | `NamesAreOneField` | `LineInv`: how far the line has been read is a function of the number of fields taken, and the scan stands where the text of the field begins or where it ends; the second field ends where the name does, because no closing parenthesis comes after that of the kernel. With it a loop over characters needs no induction over them |
| RuntimeProofs, of LuaTypes | `PinnedObjectsLive`, `ObjectsReadAsPushed` | `TypesInv`: variables and slots of the registry hold only objects that are alive or not Lua's, and pointers that were pushed (`ObjectTypes`); a handle is of the object in its slot (`HandlesFit`); what has a metatable was registered under its name (`Registered`) |
| RuntimeProofs, of LuaStack | `SingleResultsAreOwn`, `OnlyOneUnwinds`, `ExceptionsReported` | `StackInv`: every function but the innermost is in a call, with the message handler or nothing above its saved top (`CallsNest`); an exception that waits belongs to a destructor (`OneAtATime`). The step formula `HeardOf` is proved along with it, with `RaiseKeeps` for an error at any place: caught there, or the end of a call |
| RuntimeProofs, of LuaSelector | `SelectorsRunOnce`, `PanicsWhenCut` | `SelectorInv`: each call is in one selector, made once, or lost, and no two selectors have one call (`CallsInv`); the tables on the path of a selector are there until it is marked as cut (`PathsThere`) |

The parts of MCLoggerChain, MCWaits and MCRuntimeParts share no variable: an
invariant of one part is kept by the steps of the others, and the theorems that
state a property of a run are about the specification that the run checks; the
others of WaitsProofs are about the part's own. TLC explores MCLoggerChain up to
symmetry and LuaTypes with a first type and a first name; the proofs do without.

`ChannelImplemented` proves the refinement for safety: `Init` maps to the
initial state of LogChannel and each step to a step of it or a stutter. The
step that matters is `WorkerSwap`: it swaps the queues, and leaves `rQueue \o
wQueue` alone because `BatchInv` says that the read queue is empty.

`NothingLeftCorrect` holds in spite of the wrong
release that section 8 describes: the proof has `undefined` as any Boolean and
`Crash` enabled whenever it is true, so a process that dies of it is `killed`
and not `exited`.

Liveness is out of reach, but what it rests on is not: that nobody waits for
something that cannot come, and that there is only so much to do. These theorems
list the guards of the actions as operators of their own (`ServerReady`,
`ClientReady`, `ExitReady`, `SetupReady`, `ProducerReady`, `PrinterReady`), since `ENABLED` cannot
be proved about.

* `NobodyIsStuck` and `CallIsFinite` stand behind `BothSidesEnd`: until both sides
  are freed one of them can go on, and each step makes the natural number `Work`
  smaller.
* `OnlyCallsDelayExit` and `LifeIsFinite` stand behind `ExitsUnlessCallOpen`: `Work`
  counts phases, plugins and entries, and the only thing that can hold the process
  after a signal is a call, for ever only one that its handler has left open.
* `NoCallIsStuck` stands behind `CallsReturn`: the lock a producer waits for is held
  by a worker that sends a record in each step. A producer may still starve by the
  lock going to others: for that the fairness of section 5 is needed.
* `NoLostNotification`, `SignalNotMissed` and `LastIdleNotMissed` stand behind
  `DestructorReturns`, `SignalEndsProgram` and `PingEnds`: no sleeper misses its
  wake-up.
* `FailureIsFinite` stands behind `FailureAborts`: who has failed waits for nobody,
  and all threads together can only do so much before one aborts, if the depth of
  reports within reports has a bound; the code has none.

That the fair scheduler then takes these steps is the part that stays with TLC.

## 7. What only TLC checks

* Liveness: `CallsReturn`, `DestructorReturns`, `SignalEndsProgram`,
  `BothSidesEnd`, `ExitsUnlessCallOpen`, `PingEnds`, `FailureAborts` and
  the fairness part of `ImplementsChannel`. They need `ENABLED`.
  Section 6 says what part of each is proved.
* What recursive definitions compute: `LookupsAgree` of PropertyTree and `Arrives`
  of Marshalling are about recursion over trees. Induction over data cannot be
  cited, and these are checked for all small trees and errors.
* The properties of the five runs that find a violation, which have no proof.

## 8. Behaviour found

Five places where the code does not do what the repository says of it; each has
a run whose counterexample shows it.

1. *`flush()` answers true while its own request is still queued*
   (`async_logger.cxx:128`: "wait until really flushed"). Records are counted
   after they are queued, in another critical section. A record that another
   thread has pushed and not counted is taken off the counter by the worker;
   with the flush request in the queue the counter is then zero.
2. *`GetProcessProps` is never answered* (`proctree_service.cxx:96`). The
   handler fills the reply and returns its reactor without `Finish()`. Clients
   wait, without a deadline (`process_list_client.cxx:39`): the destructor of a
   client hangs in `waitRunningContexts()` for as long as the server lives, and
   the shutdown of the server waits for the call.
3. *The plugin releases a reference it does not own* (`plugin.cxx:26`).
   `queryInterface()` returns a weak reference; the plugin keeps it in a pointer
   that releases it. The first plugin that is destroyed takes the plugin manager
   and the libraries with it; the code of the plugin that is being destroyed and
   of the services registered is unloaded. Handlers that are in progress then use
   what is gone (`undefined`), since the server goes last (`server_app.cxx:295`).
4. *Two assertions print at the same time* (`assert.cxx:92`). The
   compare-exchange stores the value it found in `expected`, which is not reset,
   so the second attempt of a waiting thread succeeds. It is also what keeps an
   assertion that fails while a report is printed from waiting for its own
   thread: `FailureAborts` holds because of it, and the mutant that resets
   `expected` breaks it.
5. *A call from C++ to Lua reads the arguments of its caller*
   (`luaxx_primitives.hxx:286`). Multiple results are read at the indices 1, 2, ...
   of the Lua stack. In a C++ function that Lua has called these are the arguments
   of that function, so `Lua::function<std::tuple<...>()>` and `GetTuple<...>()`
   return them instead of the results. Single results are read from the top and
   are right everywhere (`SinglesAreOwn`); the unit test
   (`luaxx_reference.cpp:123`) calls from outside of Lua, where the stack is empty.

Behaviour that surprises and contradicts no statement; the models have it unless
the item says otherwise:

* A flush request is an item of the queue: when others push `MaxQueueSize` items
  behind it before the worker swaps, it is discarded, and `flush()` answers true
  though no sink was flushed ("force flushing all sinks", `async_logger.cxx:116`).
  `FlushDrains` has that exception (AsyncLogger, `Push`).
* Records that pass through the service logger end up with the indentation of
  the main logger: each logger stamps its own (LoggerChain, `Stamp`).
* The counter of the ping tool can fall to zero before all workers have counted
  themselves, and wakes the main thread early; a worker that then makes its
  first virtual call ends the process (PingRunner, `Enter`).
* The PID file is a local variable of `createPidfile()`: file and lock are gone
  before the server starts to serve (PidFile, `Outcome`).
* A lookup by path without a type returns the property at the longest part of
  the path that exists if the rest breaks off inside a container (PropertyTree,
  `FindByPath`).
* Empty properties lose their names on the wire, and all semantics are lost
  (Marshalling, `Unmarshal`).
* A process whose pid is reused in the middle of a call yields a reply with
  fields of both processes (ProcessCollector, `ReplyAsRead` says which).
* `marshalProcessPropertyMsk()` asks for every field whatever is required.
* A field that is NaN is reported as changed by every comparison (Reflectable).
* The waiter handles one signal. A second SIGTERM stays in the pipe, so a
  shutdown that hangs, as in 2, cannot be ended by another (Program,
  `WaiterHandle`).
* A write to a closed pipe or socket raises SIGPIPE, which ends the program like
  SIGTERM (Program, `Signals`).
* `exec()` returns `EXIT_FAILURE` whatever `run()` returns.
* `Tee::flush()` stops at the first sink that succeeds (`tee.cxx:54`), so
  sinks after it are not flushed.
* `addSink()` with a name that is taken ends the process (Tee, `AddSink`). The
  inner tee of a program that logs asynchronously has no mutex (`program.cxx:374`):
  its sinks may be added, removed and found only while nobody logs.
* `endBlock()` (`logger_base.hxx:106`) uses a reference into the vector of its
  thread after the records have gone through the logger behind it. If that one
  had a larger id, its `data()` could reallocate the vector. The main logger is
  made first and has the smallest id (ThreadData, `Make`); a logger in front of
  one that is made later is not safe.
* In Lua, all light userdata has one metatable. Pushing a pointer to an object of
  one type changes the type of all pointers pushed before (LuaTypes,
  `PushPointer`, and the last exception in `ReadAsPushed`).
* A type that is not registered is taken for anything without a metatable, and
  two types registered under one name for each other (LuaTypes, `IsType`).
* `registerCxxErrorCategory()` (`error.cxx:287`) keeps a `string_view` of a local
  string as the key of the category: from its return on, every lookup in the
  registry may compare with memory that is used for something else. No model has
  this; in Marshalling a local category is never looked up by name.
* A `Reference` must be gone before its `State`; nothing enforces it (LuaTypes,
  `Close`).
* `load()` and `loadString()` report the message of a failed script; the C++
  exception that caused it is dropped (LuaStack, `Scripts`). So it is by a state
  without `debug.traceback()`: opened without libraries, or by a script that has
  removed it (`luaxx_base_fun.cxx:34`; LuaStack, `Stored`). A `Lua::function`
  without an exception handler goes on with the error object as its result.
* Assigning a selector to a selector copies the C++ object and stores nothing in
  Lua; assigning over one that has a call to make loses the call (LuaSelector,
  `lost`). `state["f"]()["x"]` and an assignment through a path replace what is
  not a table on the way by a new table (`TableMade`).
* A path that a script has cut in the meantime ends the process when the selector
  is used, its destructor included (LuaSelector, `panicked`).
* The completion that makes the counter of contexts zero still unlocks a mutex
  and notifies a condition variable of a client that may be destroyed by then.

## 9. What is not modelled

* Of Program: the command line, the locale, and the terminate handler, which logs
  and aborts.
* Of reference counting: `queryInterface()`, which keeps no state, and disposal
  through parents, which no class of the server uses; the owners of handles.
* Of files: a `flock()` that fails for another reason than another's lock, and an
  `ftruncate()` that fails, whose result `LockFile` ignores.
* Of errors: the registry of categories (`error.cxx`), whose operations are single
  critical sections of one shared mutex; Marshalling has what a receiver knows as a
  constant. Undefined behaviour in it is noted in section 8.
* Of Lua: scalars, which are copied; coroutines; a script's `setmetatable()`, with
  which it could give a table of its own the metatable of a class, or take one away
  (LuaTypes has the metatables that the bindings set); libraries that are opened or
  cut down while calls are in progress (LuaStack has them fixed at the start); the arithmetic of `Int64` and
  `UInt64`, which are values without state (a division by zero there ends the
  process as it does in C++).
* Formatters, filters and the other sinks; strings, patterns, time, formatting
  of properties: pure text functions with unit tests, and no state between two
  calls.
* `mpl.hxx`, `flags.hxx`, `property_format.cxx`: templates and tables that the
  compiler evaluates or that only choose words.
* Wrappers of system calls (files, users, processes, stack traces), everything
  specific to Windows, generated gRPC code, build files, the test library.
* In modules that exist: the clock, text of records, numbers in properties and
  in the fields of the stat line, the listing of pids and the boot time. The
  clock hides one case of the asynchronous logger: `now - m_last`
  (`async_logger.cxx:61`) overflows when the first item of the queue was not a
  plain record; the model lets such a record wake the worker or not.

## 10. The plan

Done, in this order: AsyncLogger with LogChannel and its proofs, LoggerChain,
ClientBase, SystemInfoCall with its proofs, ServerLifecycle, PidFile, PingRunner,
FileSink, AssertPrinter, Reflectable, PropertyTree, Marshalling,
ProcessCollector, StatLine, Program with its proofs, Tee, ThreadData, LuaTypes,
LuaStack, LuaSelector.

To model next: the registry of error categories with registration during
lookups; blocks of a file that is read while its process changes; the composition
of Tee with FileSink, one sink of a tee failing.

To prove next: that what LoggerChain promises holds with AsyncLogger in the place
of LogChannel (the two refinement steps composed), and what the logs may still
lack after a rename that failed (`LogsReadBack` says nothing of gaps then).
