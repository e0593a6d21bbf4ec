---------------------------- MODULE LoggerChain ----------------------------
(***************************************************************************)
(* What a record goes through before it reaches the queue of the global    *)
(* logger: LoggerBase (src/rtl-lib/logger/logger_base.hxx) with its        *)
(* per-thread indentation and atomic blocks, in the chain the server       *)
(* builds (src/server/server_app.cxx): a synchronous "service" logger      *)
(* whose only sink is the asynchronous "main" logger.  Behind the main     *)
(* logger is the channel that AsyncLogger implements.                      *)
(*                                                                         *)
(* Scopes (AtomicBlock, IndentScope of log.hxx) are objects on the stack   *)
(* of a thread: they are closed in the reverse order of their opening.     *)
(***************************************************************************)
EXTENDS Integers, Sequences, FiniteSets, SequencesExt

CONSTANTS
    Threads,
    Levels,             \* the levels at which the threads log
    Capacity,           \* of the channel behind the main logger
    MaxRecords,         \* bound of the model: records written
    MaxScopes,          \* bound of the model: open scopes of a thread
    MaxOpened,          \* bound of the model: scopes opened in all
    MaxLevelChanges     \* bound of the model: calls to setLevel()

VARIABLES
    level,      \* m_level of each logger
    indent,     \* PerThread::indent, by thread and logger
    block,      \* PerThread::block
    atomic,     \* PerThread::atomic
    scopes,     \* the stack of open scopes of each thread
    channel, sinks, sent, closed,   \* see LogChannel
    written,    \* history: the number of records written, which names them
    group,      \* history: the outermost AtomicBlock a thread has open, or 0
    opened,     \* history: the number of scopes opened so far
    changes     \* the number of setLevel() calls so far

chan == <<channel, sinks, sent, closed>>
vars == <<level, indent, block, atomic, scopes, chan, written, group, opened, changes>>

Loggers == {"service", "main"}
AllLevels == {"debug", "info"}

\* r->level() >= m_level
Enabled(logger, lvl) == level[logger] = "debug" \/ lvl = "info"

Log == INSTANCE LogChannel WITH Kinds <- {}

Init ==
    /\ level = [logger \in Loggers |-> "debug"]
    /\ indent = [t \in Threads |-> [logger \in Loggers |-> 0]]
    /\ block = [t \in Threads |-> [logger \in Loggers |-> 0]]
    /\ atomic = [t \in Threads |-> [logger \in Loggers |-> <<>>]]
    /\ scopes = [t \in Threads |-> <<>>]
    /\ Log!Init
    /\ written = 0
    /\ group = [t \in Threads |-> [logger \in Loggers |-> 0]]
    /\ opened = 0
    /\ changes = 0

ASSUME LevelsAssumption == Levels \subseteq AllLevels

-----------------------------------------------------------------------------
(***************************************************************************)
(* LoggerBase::write() and writeImpl().                                    *)
(***************************************************************************)

\* The elements of a finite set of integers, in order.
InOrder(S) ==
    CHOOSE f \in [1..Cardinality(S) -> S] :
        \A i, j \in 1..Cardinality(S) : i < j => f[i] < f[j]

\* The records of a group that pass the level of a logger, with the
\* indentation that the calling thread has in that logger.
Stamp(t, logger, records) ==
    LET passing == InOrder({i \in DOMAIN records : Enabled(logger, records[i].level)})
    IN  [k \in DOMAIN passing |-> [records[passing[k]] EXCEPT !.indent = indent[t][logger]]]

\* A full channel may lose any one of the items that wait.
Enqueue(records) ==
    \/ Len(channel) < Capacity /\ Log!Send(records)
    \/ \E i \in 1..Len(channel) : Log!SendAndLose(records, i)

\* Records reach the main logger; "buffers" is what the thread's groups are
\* once the loggers before it are done.
ReachMain(t, records, buffers) ==
    LET kept == Stamp(t, "main", records)
    IN  IF kept = <<>>
          THEN atomic' = [atomic EXCEPT ![t] = buffers] /\ UNCHANGED chan
        ELSE IF block[t]["main"] > 0
          THEN /\ atomic' = [atomic EXCEPT ![t] = [buffers EXCEPT !["main"] = @ \o kept]]
               /\ UNCHANGED chan
        ELSE atomic' = [atomic EXCEPT ![t] = buffers] /\ Enqueue(kept)

\* Records are written to the service logger, whose doWrite() hands them to
\* the main logger.
ReachService(t, records) ==
    LET kept == Stamp(t, "service", records)
    IN  IF kept = <<>>
          THEN UNCHANGED <<atomic, chan>>
        ELSE IF block[t]["service"] > 0
          THEN atomic' = [atomic EXCEPT ![t]["service"] = @ \o kept] /\ UNCHANGED chan
        ELSE ReachMain(t, kept, atomic[t])

\* ErLogXxx2(logger, ...)
Write(t, logger, lvl) ==
    LET record == [by |-> t, to |-> logger, name |-> written + 1, level |-> lvl,
                   indent |-> 0,
                   group |-> group[t][logger]]
    IN  /\ written < MaxRecords
        /\ Enabled(logger, lvl)
        /\ IF logger = "main" THEN ReachMain(t, <<record>>, atomic[t])
                              ELSE ReachService(t, <<record>>)
        /\ written' = written + 1
        /\ UNCHANGED <<level, indent, block, scopes, group, opened, changes>>

-----------------------------------------------------------------------------
(***************************************************************************)
(* Scopes.                                                                 *)
(***************************************************************************)
Open(t, scope) ==
    /\ Len(scopes[t]) < MaxScopes
    /\ opened < MaxOpened
    /\ opened' = opened + 1
    /\ scopes' = [scopes EXCEPT ![t] = Append(@, scope)]

\* AtomicBlock(logger)
BeginBlock(t, logger) ==
    /\ Open(t, [kind |-> "block", logger |-> logger, enable |-> TRUE])
    /\ block' = [block EXCEPT ![t][logger] = @ + 1]
    /\ group' = [group EXCEPT ![t][logger] = IF block[t][logger] = 0 THEN opened + 1 ELSE @]
    /\ UNCHANGED <<level, indent, atomic, chan, written, changes>>

\* IndentScope(logger, lvl) remembers whether it is enabled.
BeginIndent(t, logger, lvl) ==
    /\ Open(t, [kind |-> "indent", logger |-> logger, enable |-> Enabled(logger, lvl)])
    /\ indent' = [indent EXCEPT ![t][logger] = IF Enabled(logger, lvl) THEN @ + 1 ELSE @]
    /\ UNCHANGED <<level, block, atomic, chan, written, group, changes>>

\* The destructor of the innermost scope.
Closing(t, kind) ==
    /\ scopes[t] # <<>>
    /\ Last(scopes[t]).kind = kind
    /\ scopes' = [scopes EXCEPT ![t] = Front(@)]

\* Whether ~IndentScope() has to undo an indentation.
UndoByLevel(scope) == Enabled(scope.logger, "debug")   \* mutant: asks the level again
Undo(scope) == scope.enable

EndIndent(t) ==
    /\ Closing(t, "indent")
    /\ LET scope == Last(scopes[t])
       IN  indent' = IF Undo(scope)
                       THEN [indent EXCEPT ![t][scope.logger] = @ - 1] ELSE indent
    /\ UNCHANGED <<level, block, atomic, chan, written, group, opened, changes>>

\* The buffers of the thread after doWrite(AtomicRecord::make(std::move(td.atomic))).
BuffersCopied(t, logger) == atomic[t]    \* mutant: the group is copied, not moved
BuffersMoved(t, logger) == [atomic[t] EXCEPT ![logger] = <<>>]

\* endBlock() sends the group when the outermost block ends.
Outermost(t, logger) == block[t][logger] = 1
InnerToo(t, logger) == TRUE              \* mutant: an inner block sends it as well
GroupEnds(t, logger) == Outermost(t, logger)

EndBlock(t) ==
    /\ Closing(t, "block")
    /\ LET logger == Last(scopes[t]).logger
           moved  == BuffersMoved(t, logger)
       IN  /\ block' = [block EXCEPT ![t][logger] = @ - 1]
           /\ group' = IF Outermost(t, logger)
                         THEN [group EXCEPT ![t][logger] = 0] ELSE group
           /\ IF GroupEnds(t, logger) /\ atomic[t][logger] # <<>>
                THEN IF logger = "service"
                       THEN ReachMain(t, atomic[t][logger], moved)
                       ELSE atomic' = [atomic EXCEPT ![t] = moved] /\ Enqueue(atomic[t][logger])
                ELSE UNCHANGED <<atomic, chan>>
    /\ UNCHANGED <<level, indent, written, opened, changes>>

SetLevel(logger, lvl) ==
    /\ changes < MaxLevelChanges
    /\ level[logger] # lvl
    /\ level' = [level EXCEPT ![logger] = lvl]
    /\ changes' = changes + 1
    /\ UNCHANGED <<indent, block, atomic, scopes, chan, written, group, opened>>

Deliver ==
    /\ Log!Deliver
    /\ UNCHANGED <<level, indent, block, atomic, scopes, written, group, opened, changes>>

-----------------------------------------------------------------------------
Next ==
    \/ \E t \in Threads, logger \in Loggers, lvl \in Levels : Write(t, logger, lvl)
    \/ \E t \in Threads, logger \in Loggers : BeginBlock(t, logger)
    \/ \E t \in Threads, logger \in Loggers, lvl \in Levels : BeginIndent(t, logger, lvl)
    \/ \E t \in Threads : EndIndent(t)
    \/ \E t \in Threads : EndBlock(t)
    \/ \E logger \in Loggers, lvl \in AllLevels : SetLevel(logger, lvl)
    \/ Deliver

Spec == Init /\ [][Next]_vars

-----------------------------------------------------------------------------
(***************************************************************************)
(* Properties.                                                             *)
(***************************************************************************)
Records == [by : Threads, to : Loggers, name : 1..MaxRecords, level : Levels,
            indent : 0..MaxScopes, group : Nat]

\* Every variable keeps its type; a block that is open has no more nesting
\* levels than the thread has scopes.
TypeOK ==
    /\ level \in [Loggers -> AllLevels]
    /\ indent \in [Threads -> [Loggers -> 0..MaxScopes]]
    /\ block \in [Threads -> [Loggers -> 0..MaxScopes]]
    /\ \A t \in Threads, logger \in Loggers :
          \A i \in DOMAIN atomic[t][logger] : atomic[t][logger][i] \in Records
    /\ \A i \in DOMAIN channel : channel[i].id \in 1..sent
    /\ sent \in 0..MaxRecords
    /\ written \in 0..MaxRecords

\* The items the sinks have got or will get, in order.
Stream == sinks \o channel

\* The records of one outermost AtomicBlock reach the sinks in one item: no
\* other thread's record can come between them, and no part of the group
\* arrives before the block ends.
GroupsStayWhole ==
    \A i, j \in DOMAIN Stream :
        \A m \in DOMAIN Stream[i].what, n \in DOMAIN Stream[j].what :
            LET a == Stream[i].what[m]
                b == Stream[j].what[n]
            IN  /\ a.group # 0 /\ a.group = b.group => i = j
                /\ i = j => a.by = b.by

\* The records a thread writes to one logger keep their order through the
\* blocks of both loggers and the channel.
RecordsInOrder ==
    \A i, j \in DOMAIN Stream :
        \A m \in DOMAIN Stream[i].what, n \in DOMAIN Stream[j].what :
            LET a == Stream[i].what[m]
                b == Stream[j].what[n]
            IN  (i < j \/ (i = j /\ m < n)) /\ a.by = b.by /\ a.to = b.to => a.name < b.name

\* A thread without open scopes leaves nothing behind in the per-thread data
\* of a logger: the next logger that is given the same slot of the thread's
\* data (thread_data.hxx) starts from zero.
NothingLeftBehind ==
    \A t \in Threads, logger \in Loggers :
        (\A i \in DOMAIN scopes[t] : scopes[t][i].logger # logger)
            => /\ indent[t][logger] = 0
               /\ block[t][logger] = 0
               /\ atomic[t][logger] = <<>>
=============================================================================
