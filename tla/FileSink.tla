------------------------------ MODULE FileSink ------------------------------
(***************************************************************************)
(* The log file sink (src/rtl-lib/logger/file_sink.cxx): records are       *)
(* appended to the log, which is rotated out when it has grown to its      *)
(* limit and at every start.  write() is a loop over partial writes, the   *)
(* rotation a chain of removals and renames whose errors are ignored; the  *)
(* process may be killed between any two of these steps.                   *)
(*                                                                         *)
(* Every call of write() runs under the mutex of the sink, so the callers  *)
(* are one sequence of records.  A record is Parts bytes; a byte is its    *)
(* place in its record, and a file is the sequence of the bytes it holds.  *)
(* A file that is absent is one that holds nothing.                        *)
(***************************************************************************)
EXTENDS Integers, Sequences

CONSTANTS
    Keep,           \* m_logsToKeep, which may be 0
    MaxSize,        \* m_maxFileSize, at least 1
    Parts,          \* the size of a record, at least 1
    MaxRecords,     \* bound: records written
    MaxStarts       \* bound: lives of the process

VARIABLES
    step,           \* what the sink is doing
    index,          \* the loop variable of rotateLogs()
    log,            \* the bytes in the log
    kept,           \* the bytes in log.0, log.1, ...
    size,           \* m_currentSize
    written,        \* how much of the current record has been written
    records,        \* how many records write() has been called for
    starts,         \* lives of the process so far
    damaged,        \* history: records cut short by an error or a kill
    renameFailed    \* history: a file was not renamed and the error ignored

vars == <<step, index, log, kept, size, written, records, starts, damaged, renameFailed>>

Steps == {"remove", "rename", "makeLog", "ready", "writing", "broken", "down"}

Oldest == Keep - 1

\* The constructor rotates first.  keepCount may be zero.
BeginRotation ==
    /\ step' = IF Keep = 0 THEN "makeLog" ELSE "remove"
    /\ index' = Oldest

Init ==
    /\ step = "down"
    /\ index = 0
    /\ log = <<>>
    /\ kept = [i \in 0..Oldest |-> <<>>]
    /\ size = 0
    /\ written = 0
    /\ records = 0
    /\ starts = 0
    /\ damaged = {}
    /\ renameFailed = FALSE

-----------------------------------------------------------------------------
(***************************************************************************)
(* rotateLogs(), oldest file first, and makeLog().                         *)
(***************************************************************************)
RemoveDest ==
    /\ step = "remove"
    /\ kept' = [kept EXCEPT ![index] = <<>>]
    /\ step' = "rename"
    /\ UNCHANGED <<index, log, size, written, records, starts, damaged, renameFailed>>

\* remove() fails and its error is ignored: rename() takes the place of what is there.
RemoveFails ==
    /\ step = "remove"
    /\ step' = "rename"
    /\ UNCHANGED <<index, log, kept, size, written, records, starts, damaged, renameFailed>>

NextIndex ==
    IF index = 0 THEN step' = "makeLog" /\ UNCHANGED index
                 ELSE step' = "remove" /\ index' = index - 1

\* The file each is renamed from: log.(i-1), and the log itself for log.0.
Source == index - 1
Moving == IF index = 0 THEN log ELSE kept[Source]

\* What is left under the old name.
Copied(file) == file                  \* mutant: copied, not renamed
Moved(file) == <<>>
Rename ==
    /\ step = "rename"
    /\ IF index = 0
       THEN kept' = [kept EXCEPT ![0] = log] /\ log' = Moved(log)
       ELSE /\ kept' = [kept EXCEPT ![index] = kept[Source], ![Source] = Moved(@)]
            /\ UNCHANGED log
    /\ NextIndex
    /\ UNCHANGED <<size, written, records, starts, damaged, renameFailed>>

\* "no error handling here": what is not there cannot be renamed, and what is may not be.
RenameFails ==
    /\ step = "rename"
    /\ NextIndex
    /\ renameFailed' = (renameFailed \/ Moving # <<>>)
    /\ UNCHANGED <<log, kept, size, written, records, starts, damaged>>

\* open(O_TRUNC): what the log still holds is gone.
NewSize == 0
MakeLog ==
    /\ step = "makeLog"
    /\ log' = <<>>
    /\ size' = NewSize
    /\ step' = "ready"
    /\ UNCHANGED <<index, kept, written, records, starts, damaged, renameFailed>>

\* It throws, and no later write() has a file to write to.
MakeLogFails ==
    /\ step = "makeLog"
    /\ step' = "broken"
    /\ UNCHANGED <<index, log, kept, size, written, records, starts, damaged, renameFailed>>

-----------------------------------------------------------------------------
(***************************************************************************)
(* write()                                                                 *)
(***************************************************************************)
BeginWrite ==
    /\ step = "ready" /\ records < MaxRecords
    /\ records' = records + 1
    /\ written' = 0
    /\ step' = "writing"
    /\ UNCHANGED <<index, log, kept, size, starts, damaged, renameFailed>>

\* The bytes first..last of the current record.
Byte(r, k) == [record |-> r, at |-> k]
Bytes(first, last) == [k \in 1..(last - first + 1) |-> Byte(records, first + k - 1)]

\* The bytes a call of ::write() is asked for: from where the last one ended.
FromTheStart(n) == Bytes(1, n)        \* mutant: data instead of data + written
Portion(n) == Bytes(written + 1, written + n)

\* One turn of the loop: ::write() may write less than it is asked to, or nothing
\* when a signal interrupts it.
WriteSome ==
    /\ step = "writing" /\ written < Parts
    /\ \E n \in 1..(Parts - written) :
          /\ log' = log \o Portion(n)
          /\ written' = written + n
    /\ UNCHANGED <<step, index, kept, size, records, starts, damaged, renameFailed>>

\* Any other error is thrown, before m_currentSize is brought up to date.
WriteFails ==
    /\ step = "writing" /\ written < Parts
    /\ damaged' = damaged \union {records}
    /\ step' = "ready"
    /\ UNCHANGED <<index, log, kept, size, written, records, starts, renameFailed>>

Full(s) == s >= MaxSize

EndWrite ==
    /\ step = "writing" /\ written = Parts
    /\ size' = size + written
    /\ IF Full(size') THEN BeginRotation ELSE step' = "ready" /\ UNCHANGED index
    /\ UNCHANGED <<log, kept, written, records, starts, damaged, renameFailed>>

-----------------------------------------------------------------------------
\* The process ends or is killed, and is started again.
Kill ==
    /\ step # "down"
    /\ step' = "down"
    /\ damaged' = IF step = "writing" /\ written < Parts THEN damaged \union {records} ELSE damaged
    /\ UNCHANGED <<index, log, kept, size, written, records, starts, renameFailed>>

\* FileSink(): nothing is rotated that the last life left half rotated; the chain
\* simply starts again.
OnlyMakeLog == step' = "makeLog" /\ index' = 0   \* mutant: no rotation at the start
AtStart == BeginRotation
Start ==
    /\ step = "down" /\ starts < MaxStarts
    /\ starts' = starts + 1
    /\ AtStart
    /\ UNCHANGED <<log, kept, size, written, records, damaged, renameFailed>>

Rotate == RemoveDest \/ RemoveFails \/ Rename \/ RenameFails \/ MakeLog \/ MakeLogFails
Write == BeginWrite \/ WriteSome \/ WriteFails \/ EndWrite

Ended == step = "down" /\ starts = MaxStarts /\ UNCHANGED vars

Next == Rotate \/ Write \/ Kill \/ Start \/ Ended

Spec == Init /\ [][Next]_vars

-----------------------------------------------------------------------------
\* The files from the oldest to the log, as a reader of the logs strings them together.
Files == [j \in 1..(Keep + 1) |-> IF j > Keep THEN log ELSE kept[Keep - j]]
RecordsIn(f) == {f[k].record : k \in DOMAIN f}
Before(a, b) == a.record < b.record \/ (a.record = b.record /\ a.at < b.at)

InOrder ==
    \A i, j \in DOMAIN Files : \A k \in DOMAIN Files[i], l \in DOMAIN Files[j] :
        i < j \/ (i = j /\ k < l) => Before(Files[i][k], Files[j][l])
NotSplit ==
    \A i, j \in DOMAIN Files : i # j => RecordsIn(Files[i]) \cap RecordsIn(Files[j]) = {}

IsThere(byte) == \E i \in DOMAIN Files : \E k \in DOMAIN Files[i] : Files[i][k] = byte
NoGaps ==
    \A r \in 1..records :
        /\ \E i \in DOMAIN Files : \E old \in RecordsIn(Files[i]) : old < r
        /\ r \notin damaged
        /\ r = records => written = Parts
        => \A k \in 1..Parts : IsThere(Byte(r, k))

\* Read from the oldest file to the log, the records are in the order they were written,
\* none appears twice and none is split over two files, whatever errors of writing,
\* removing and renaming occur and wherever in the chain of renames the process is killed
\* and started again.  Only the oldest go: a record that was written completely is in the
\* files if an older one still is, unless a file could not be renamed, also when a
\* rotation was cut short or a file to be replaced could not be removed.
LogsReadBack == InOrder /\ NotSplit /\ (~renameFailed => NoGaps)
=============================================================================
