-------------------------- MODULE ProcessCollector --------------------------
(***************************************************************************)
(* Collecting the properties of a process from /proc                       *)
(* (src/proctree/server/linux/process_props_collector.cxx, procfs.cxx) and *)
(* sending them (src/proctree/protocol.cxx).                               *)
(*                                                                         *)
(* The files of a process are read one after the other, while the process  *)
(* runs: it may execute another program or exit in between, and its pid    *)
(* may be given to another one.  A value is modelled by what it was read   *)
(* from: the process and the program it ran, or the empty string.          *)
(* GetProcessProps() of the service builds its reply from this; it is not  *)
(* asked for pid 0 here, for which readStat() fails an assertion.          *)
(***************************************************************************)
EXTENDS Integers, FiniteSets

CONSTANTS
    FromStat,       \* the fields taken from /proc/<pid>/stat, Comm apart
    MaxProcesses,   \* bound: processes that get the pid
    MaxPrograms     \* bound: programs that one of them executes

VARIABLES
    process,    \* the process that has the pid; 0 if there is none
    program,    \* the program it runs
    born,       \* how many processes have had the pid
    kernel,     \* those of them that are kernel threads, which have no exe and environ
    private,    \* those whose exe and environ may not be read
    nameless,   \* those whose user has no name
    pc,         \* how far the collector has come
    mask,       \* the fields it was asked for
    owner,      \* Stat::ruid, from the status of the directory
    stat,       \* the rest of Stat
    out,        \* the fields that were set
    first       \* history: what had the pid, and ran, when the call began

vars == <<process, program, born, kernel, private, nameless, pc, mask, owner, stat, out, first>>
system == <<process, program, born, kernel, private, nameless>>

Fields == FromStat \union {"Pid", "Ruid", "Comm", "CmdLine", "Exe", "UserName", "Env", "CpuUsage"}
Nothing == <<0, 0>>
Now == <<process, program>>
Empty == <<-1, -1>>          \* an empty string
Failed == <<-2, -2>>         \* std::unexpected

\* The files in the order in which the collector comes to them.
Files == <<"owner", "stat", "Comm", "CmdLine", "Exe", "UserName", "Env", "done">>
After(file) == Files[1 + CHOOSE i \in 1..7 : Files[i] = file]

Init ==
    /\ process \in {0, 1} /\ born = process
    /\ program = process
    /\ kernel \in SUBSET (1..MaxProcesses)
    /\ private \in SUBSET ((1..MaxProcesses) \ kernel)
    /\ nameless \in SUBSET (1..MaxProcesses)
    /\ pc = "idle"
    /\ mask = {}
    /\ owner = Nothing /\ stat = Nothing
    /\ out = <<>>
    /\ first = Nothing

-----------------------------------------------------------------------------
(***************************************************************************)
(* The process.                                                            *)
(***************************************************************************)

Execute ==
    /\ process \notin kernel \union {0}
    /\ program < MaxPrograms
    /\ program' = program + 1
    /\ UNCHANGED <<process, born, kernel, private, nameless, pc, mask, owner, stat, out, first>>

Exit ==
    /\ process # 0
    /\ process' = 0 /\ program' = 0
    /\ UNCHANGED <<born, kernel, private, nameless, pc, mask, owner, stat, out, first>>

Born ==
    /\ process = 0 /\ born < MaxProcesses
    /\ born' = born + 1 /\ process' = born'
    /\ program' = 1
    /\ UNCHANGED <<kernel, private, nameless, pc, mask, owner, stat, out, first>>

-----------------------------------------------------------------------------
(***************************************************************************)
(* The files of the process that has the pid at the time.                  *)
(***************************************************************************)

\* tryLoadFile(): a file that can be opened may still fail to be read, if the process
\* exits in between.
Load(readable, content) == IF process # 0 /\ readable THEN content ELSE Failed

CommFile == Load(TRUE, Now)
CmdLineFile == Load(TRUE, IF process \in kernel THEN Empty ELSE Now)
EnvFile == Load(process \notin private, IF process \in kernel THEN Empty ELSE Now)

\* A link: kernel threads have none.
ExeLink == IF process \in {0} \union kernel \union private THEN Failed ELSE Now

-----------------------------------------------------------------------------
(***************************************************************************)
(* The call.                                                               *)
(***************************************************************************)

\* marshalProcessPropertyMsk(): whatever is required, every field is asked for.
MarshalMask(required) == Fields

\* unmarshalProcessPropertyMask(): no field stands for all of them.
UnmarshalMask(fields) == IF fields = {} THEN Fields ELSE fields

\* A request, of this client library or of another one.
Request ==
    /\ pc = "idle"
    /\ \E fields \in {MarshalMask({})} \union {Fields \ {f} : f \in Fields} \union {{f} : f \in Fields} \union {{}} :
        mask' = UnmarshalMask(fields)
    /\ pc' = "owner"
    /\ first' = Now
    /\ UNCHANGED <<system, owner, stat, out>>

\* ErSet(): the field gets its value and becomes valid.
WithField(fields, f, v) == [g \in DOMAIN fields \union {f} |-> IF g = f THEN v ELSE fields[g]]

\* readStat() fails with the directory or the file: there is no reply but the error.
StatFails == pc' = "error"

\* readStat(): stat64() of the directory.
ReadOwner ==
    /\ pc = "owner"
    /\ IF process = 0 THEN StatFails /\ UNCHANGED owner
       ELSE owner' = Now /\ pc' = "stat"
    /\ UNCHANGED <<system, mask, stat, out, first>>

\* readStat(): the file, and all the fields that come from it.
MaskOnly(f) == f \in mask                 \* mutant: Pid is set only if asked for
IsSet(f) == f \in mask \union {"Pid"}
ReadStat ==
    /\ pc = "stat"
    /\ IF process = 0 THEN StatFails /\ UNCHANGED <<stat, out>>
       ELSE /\ stat' = Now
            /\ out' = [f \in {f \in FromStat \union {"Pid", "Ruid"} : IsSet(f)} |-> IF f = "Ruid" THEN owner ELSE Now]
            /\ pc' = "Comm"
    /\ UNCHANGED <<system, mask, owner, first>>

\* The name in stat stands in for the file.
NoStandIn == out                          \* mutant
StandIn == WithField(out, "Comm", stat)
ReadComm ==
    /\ pc = "Comm" /\ "Comm" \in mask
    /\ out' = IF CommFile = Failed THEN StandIn ELSE WithField(out, "Comm", CommFile)

\* Also an empty one counts.
ReadCmdLine ==
    /\ pc = "CmdLine" /\ "CmdLine" \in mask
    /\ out' = IF CmdLineFile = Failed THEN out ELSE WithField(out, "CmdLine", CmdLineFile)

\* An empty one does not.
ReadExe ==
    /\ pc = "Exe" /\ "Exe" \in mask
    /\ out' = IF ExeLink \in {Failed, Empty} THEN out ELSE WithField(out, "Exe", ExeLink)

\* lookupUserName(): not from /proc; every error is an empty name.
UserName == IF owner[1] \in nameless THEN Empty ELSE owner
LookUpUser ==
    /\ pc = "UserName" /\ "UserName" \in mask
    /\ out' = IF UserName = Empty THEN out ELSE WithField(out, "UserName", UserName)

\* An empty one does not count.
ReadEnv ==
    /\ pc = "Env" /\ "Env" \in mask
    /\ out' = IF EnvFile \in {Failed, Empty} THEN out ELSE WithField(out, "Env", EnvFile)

\* The next file, and past those that nobody has asked for.
ReadNext ==
    /\ \/ ReadComm \/ ReadCmdLine \/ ReadExe \/ LookUpUser \/ ReadEnv
       \/ pc \in {"Comm", "CmdLine", "Exe", "UserName", "Env"} \ mask /\ UNCHANGED out
    /\ pc' = After(pc)
    /\ UNCHANGED <<system, mask, owner, stat, first>>

\* The reply is built, the next call may come.
Return ==
    /\ pc \in {"done", "error"}
    /\ pc' = "idle"
    /\ mask' = {} /\ out' = <<>>
    /\ owner' = Nothing /\ stat' = Nothing /\ first' = Nothing
    /\ UNCHANGED system

Next ==
    \/ Execute \/ Exit \/ Born
    \/ Request \/ ReadOwner \/ ReadStat \/ ReadNext \/ Return

Spec == Init /\ [][Next]_vars

-----------------------------------------------------------------------------
(***************************************************************************)
(* The reply.                                                              *)
(***************************************************************************)

\* marshalProcessProperties(): the fields that are valid; the assertion is that
\* the pid always is.
MarshalProps(fields) == [f \in Fields \intersect DOMAIN fields |-> fields[f]]

\* unmarshalProcessProperties(): the pid has no presence of its own and is taken
\* from any message.
UnmarshalProps(message) ==
    [f \in DOMAIN message \union {"Pid"} |-> IF f \in DOMAIN message THEN message[f] ELSE Nothing]

Reply == UnmarshalProps(MarshalProps(out))

-----------------------------------------------------------------------------
(***************************************************************************)
(* Properties.                                                             *)
(***************************************************************************)

TypeOK ==
    /\ process \in 0..MaxProcesses /\ born \in 0..MaxProcesses
    /\ program \in 0..MaxPrograms
    /\ pc \in {"idle", "error"} \union {Files[i] : i \in 1..8}
    /\ mask \subseteq Fields
    /\ DOMAIN out \subseteq Fields

\* The fields that a process can be asked for and has.
Has(p) ==
    ((mask \union {"Pid"}) \ {"CpuUsage"})
        \ ((IF p \in kernel \union private THEN {"Exe", "Env"} ELSE {}) \union (IF p \in nameless THEN {"UserName"} ELSE {}))

Steady == first[1] # 0 /\ first = Now

\* A process that keeps running its program gets all that was asked for of what it
\* has into the reply, and all of it is its own; an error needs that there was no
\* process.  One that ends or is replaced while its files are read costs the reply no
\* more than what these files hold: the pid, the fields of stat and the name are
\* there, the numbers of stat are of one process, and no field is older than the
\* call.
ReplyAsRead ==
    /\ Steady => pc # "error"
    /\ Steady /\ pc = "done" => DOMAIN Reply = Has(process) /\ \A f \in DOMAIN Reply : Reply[f] \in {Now, Empty}
    /\ pc = "done" =>
        /\ {"Pid"} \union (mask \intersect (FromStat \union {"Ruid", "Comm"})) \subseteq DOMAIN Reply
        /\ \A f \in DOMAIN Reply \intersect (FromStat \union {"Pid"}) : Reply[f] = stat
        /\ \A f \in DOMAIN Reply : Reply[f] = Empty \/ Reply[f][1] >= stat[1] \/ (f \in {"Ruid", "UserName"} /\ Reply[f][1] >= first[1])
        /\ DOMAIN Reply \subseteq mask \union {"Pid"}
=============================================================================
