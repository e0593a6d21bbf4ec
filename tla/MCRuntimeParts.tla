---------------------------- MODULE MCRuntimeParts ----------------------------
(***************************************************************************)
(* Reflectable, FileSink, the modules of the Lua bindings, LuaTypes,       *)
(* LuaStack and LuaSelector, and ProcessCollector and StatLine, which fill *)
(* the records of processes, for TLC.  These parts share no state, so a    *)
(* behaviour is one of any one of them, chosen at the start: one run then  *)
(* checks all of them.                                                     *)
(***************************************************************************)
EXTENDS Reflectable, SequencesExt

CONSTANTS
    Keep, MaxSize, Parts, MaxRecords, MaxStarts, \* of FileSink
    FromStat, MaxProcesses, MaxPrograms,        \* of ProcessCollector
    Letters, NameLength, Rest,                  \* of StatLine
    Types, ClassNames, Variables, MaxClasses, MaxObjects,
                                                \* of LuaTypes
    Handles, None,                              \* of LuaTypes and LuaSelector
    MaxFrames, MaxLuaCalls, MaxArguments, MaxPcalls, Exceptions,
                                                \* of LuaStack
    Keys, MaxPath, MaxActive                    \* of LuaSelector

VARIABLES
    part,                                       \* the part that runs
    step, index, log, kept, size, written, records, starts, damaged, renameFailed,
                                                \* of FileSink
    process, program, born, kernel, private, nameless, pc, mask, owner, stat, out, first,
                                                \* of ProcessCollector
    comm, start, end, fields,                   \* of StatLine
    nameOf, class, shared, values, open, owned, made, refs, handle, methods, lent,
                                                \* of LuaTypes
    libraries, frames, control, luaCalls, exception, raisable, result, reported,
                                                \* of LuaStack
    global, selector, calls, runs, lost, panicked
                                                \* of LuaSelector

\* What the proofs need to know of the constants.  What stands for nothing is none of the
\* other things that it is told from.
ASSUME SinkAssumption == Keep \in Nat /\ Parts \in Nat \ {0}

ASSUME CollectorAssumption ==
    /\ MaxProcesses \in Nat /\ MaxPrograms \in Nat
    /\ FromStat \intersect {"Pid", "Ruid", "Comm", "CmdLine", "Exe", "UserName", "Env", "CpuUsage"} = {}

ASSUME StatAssumption ==
    Letters \intersect {"opening", "closing", "space"} = {} /\ NameLength \in Nat /\ Rest \in Seq(Letters)

ASSUME TypesAssumption ==
    IsFiniteSet(Types) /\ IsFiniteSet(Handles) /\ None \notin Types \union ClassNames

ASSUME SelectorAssumption ==
    /\ MaxPath \in Nat \ {0} /\ MaxActive \in Nat
    /\ None \notin [path : Seq(Keys), call : Nat, cut : BOOLEAN]

-----------------------------------------------------------------------------
\* The fields after the name, of one character each.
FieldsOfLine == <<"S", "1", "1">>

Sink == INSTANCE FileSink
Collector == INSTANCE ProcessCollector
Line == INSTANCE StatLine
Objects == INSTANCE LuaTypes
Stack == INSTANCE LuaStack
Select == INSTANCE LuaSelector WITH made <- calls

sinkVars == <<step, index, log, kept, size, written, records, starts, damaged, renameFailed>>
collectorVars == <<process, program, born, kernel, private, nameless, pc, mask, owner, stat, out, first>>
lineVars == <<comm, start, end, fields>>
typeVars == <<nameOf, class, shared, values, open, owned, made, refs, handle, methods, lent>>
stackVars == <<libraries, frames, control, luaCalls, exception, raisable, result, reported>>
selectorVars == <<global, selector, calls, runs, lost, panicked>>
luaVars == <<typeVars, stackVars, selectorVars>>
processVars == <<collectorVars, lineVars>>
allVars == <<part, vars, sinkVars, processVars, luaVars>>

\* The parts that do not run stay in one of their initial states.
PartsInit ==
    /\ part \in {"record", "sink", "collector", "line", "types", "stack", "selector"}
    /\ Init /\ Sink!Init /\ Collector!Init /\ Line!Init
    /\ Objects!Init /\ Stack!Init /\ Select!Init
    /\ part # "stack" => libraries = {}
    /\ part # "collector" => process = 0 /\ kernel = {} /\ private = {} /\ nameless = {}

RecordStep == part = "record" /\ Next /\ UNCHANGED <<part, sinkVars, processVars, luaVars>>
SinkStep == part = "sink" /\ Sink!Next /\ UNCHANGED <<part, vars, processVars, luaVars>>
CollectorStep == part = "collector" /\ Collector!Next /\ UNCHANGED <<part, vars, sinkVars, lineVars, luaVars>>
LineStep == part = "line" /\ Line!Next /\ UNCHANGED <<part, vars, sinkVars, collectorVars, luaVars>>
OtherThanLua == <<part, vars, sinkVars, processVars>>
\* The types are interchangeable, and so are the names: a first one is registered first.
FirstOf(S) == CHOOSE x \in S : TRUE
FirstComesFirst(registered) ==
    \A x \in DOMAIN registered : registered[x] # None => registered[FirstOf(DOMAIN registered)] # None
TypesStep ==
    /\ part = "types" /\ Objects!Next
    /\ FirstComesFirst(nameOf') /\ FirstComesFirst(class')
    /\ UNCHANGED <<OtherThanLua, stackVars, selectorVars>>
\* So are the exceptions: when none is around, the next one is the first.  Bound: the last
\* call is one by a destructor that an exception runs, or a call under such a one.
Pending == {frames[i].pending : i \in DOMAIN frames}
Around == Exceptions \intersect (raisable \union {exception} \union Pending)
StackStep ==
    /\ part = "stack" /\ Stack!Next
    /\ Around = {} => Around' \subseteq {FirstOf(Exceptions)}
    /\ luaCalls < MaxLuaCalls /\ luaCalls' = MaxLuaCalls => Pending' # {None}
    /\ UNCHANGED <<OtherThanLua, typeVars, selectorVars>>
SelectorStep == part = "selector" /\ Select!Next /\ UNCHANGED <<OtherThanLua, typeVars, stackVars>>
LuaStep == TypesStep \/ StackStep \/ SelectorStep

PartsNext == RecordStep \/ SinkStep \/ CollectorStep \/ LineStep \/ LuaStep

PartsSpec == PartsInit /\ [][PartsNext]_allVars

\* Each property is about the states of its part.

\* The logs are read back in order and whole, short of the oldest: see FileSink.
LogsReadBack == part = "sink" => Sink!LogsReadBack

\* The reply has what could be read, and all of a process that goes on: see ProcessCollector.
ReplyAsRead == part = "collector" => Collector!ReplyAsRead

\* No name of a process shifts the fields after it: see StatLine.
NameIsOneField == part = "line" => Line!NameIsOneField

\* C++ gets objects from Lua as what they are: see LuaTypes.
ReadAsPushed == part = "types" => Objects!ReadAsPushed

\* What C++ holds a reference to is not collected: see LuaTypes.
PinnedAlive == part = "types" => Objects!PinnedAlive

\* A single result is that of the call: see LuaStack.
SinglesAreOwn == part = "stack" => Stack!SinglesAreOwn

\* No exception leaves a destructor during another one: see LuaStack.
OneExceptionUnwinds == part = "stack" => Stack!OneExceptionUnwinds

\* Exceptions reach the exception handler as themselves: see LuaStack.
ExceptionReported == Stack!ExceptionReported

\* A call by way of a selector is made once: see LuaSelector.
RunsOnce == part = "selector" => Select!RunsOnce

\* A selector ends the process only if its path was cut: see LuaSelector.
PanicsOnlyIfCut == part = "selector" => Select!PanicsOnlyIfCut
===============================================================================
