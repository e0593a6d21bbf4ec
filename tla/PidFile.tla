------------------------------- MODULE PidFile -------------------------------
(***************************************************************************)
(* The PID file of the server: LockFile (src/rtl-lib/util/lock_file.cxx),  *)
(* PidFile (include/erebus/rtl/util/pid_file.hxx) and their use in         *)
(* ServerApplication::createPidfile().                                     *)
(*                                                                         *)
(* Several instances start on one path.  Each opens or creates the file,   *)
(* takes an exclusive lock on what it opened, and writes its PID; one that *)
(* is refused, or cannot open the file, reads the PID it finds.  The PidFile is a local variable of  *)
(* createPidfile(), so the path is unlinked and the lock released when     *)
(* that function returns: the file guards the start, not the run.  Between *)
(* the open and the lock of one instance another may unlink the path.      *)
(***************************************************************************)
EXTENDS FiniteSets

CONSTANTS
    Procs,      \* the instances started in the life of the path
    Inodes,     \* the files the file system can hold
    Nothing     \* no file, no text

ASSUME NothingAssumption == Nothing \notin Procs \union Inodes

VARIABLES
    pc,         \* where each instance is
    fd,         \* the file each has open
    entry,      \* the file the path names
    text,       \* what each file holds: the PID of an instance, or nothing
    short,      \* history: the instances whose write() was short
    unable      \* history: the instances whose open() has failed

vars == <<pc, fd, entry, text, short, unable>>
history == <<short, unable>>

\* From flock() to the closing of the file an instance holds the lock.
Holding == {"locked", "truncated", "written", "unlinked"}
Reading == {"refused", "reading"}
Over == {"serving", "failed", "dead"}
PcStates == {"start", "opened"} \union Holding \union Reading \union Over

Holders(i) == {p \in Procs : pc[p] \in Holding /\ fd[p] = i}

Init ==
    /\ pc = [p \in Procs |-> "start"]
    /\ fd = [p \in Procs |-> Nothing]
    /\ entry = Nothing
    /\ text = [i \in Inodes |-> Nothing]
    /\ short = {}
    /\ unable = {}

-----------------------------------------------------------------------------
\* A file lives as long as the path names it or an instance has it open; its
\* number may serve again after that.
Free(i) == entry # i /\ \A p \in Procs : fd[p] # i

\* open(O_WRONLY | O_CREAT)
Open(p) ==
    /\ pc[p] = "start"
    /\ \/ /\ entry # Nothing
          /\ fd' = [fd EXCEPT ![p] = entry]
          /\ UNCHANGED <<entry, text>>
       \/ /\ entry = Nothing
          /\ \E i \in Inodes :
                /\ Free(i)
                /\ entry' = i
                /\ fd' = [fd EXCEPT ![p] = i]
                /\ text' = [text EXCEPT ![i] = Nothing]
    /\ pc' = [pc EXCEPT ![p] = "opened"]
    /\ UNCHANGED history

\* open() may fail: no rights on the file, no directory, no descriptor left.  The
\* constructor throws, as it does when it is refused the lock.
OpenFails(p) ==
    /\ pc[p] = "start"
    /\ unable' = unable \union {p}
    /\ pc' = [pc EXCEPT ![p] = "refused"]
    /\ UNCHANGED <<fd, entry, text, short>>

\* flock(LOCK_EX | LOCK_NB)
LockShared(i) == TRUE                 \* mutant: LOCK_SH
LockAvailable(i) == Holders(i) = {}
Lock(p) ==
    /\ pc[p] = "opened"
    /\ LockAvailable(fd[p])
    /\ pc' = [pc EXCEPT ![p] = "locked"]
    /\ UNCHANGED <<fd, entry, text, history>>

\* The constructor throws: the file is closed, the destructor does not run.
Refused(p) ==
    /\ pc[p] = "opened"
    /\ ~LockAvailable(fd[p])
    /\ pc' = [pc EXCEPT ![p] = "refused"]
    /\ fd' = [fd EXCEPT ![p] = Nothing]
    /\ UNCHANGED <<entry, text, history>>

\* put(): ftruncate() ...
Truncate(p) ==
    /\ pc[p] = "locked"
    /\ text' = [text EXCEPT ![fd[p]] = Nothing]
    /\ pc' = [pc EXCEPT ![p] = "truncated"]
    /\ UNCHANGED <<fd, entry, history>>

\* ... and write() of the PID ...
Write(p) ==
    /\ pc[p] = "truncated" /\ p \notin short
    /\ text' = [text EXCEPT ![fd[p]] = p]
    /\ pc' = [pc EXCEPT ![p] = "written"]
    /\ UNCHANGED <<fd, entry, history>>

\* ... which may be short: put() throws.
WriteFails(p) ==
    /\ pc[p] = "truncated" /\ p \notin short
    /\ short' = short \union {p}
    /\ UNCHANGED <<pc, fd, entry, text, unable>>

\* ~LockFile(), on the return from createPidfile() or because put() has thrown:
\* unlink() takes whatever file the path names by now ...
Kept(p) == entry                      \* mutant: unlink() only closes the file
AfterUnlink(p) == Nothing
Unlink(p) ==
    /\ pc[p] = IF p \in short THEN "truncated" ELSE "written"
    /\ entry' = AfterUnlink(p)
    /\ pc' = [pc EXCEPT ![p] = "unlinked"]
    /\ UNCHANGED <<fd, text, history>>

\* createPidfile() goes on unless put() has thrown.
IfStillNamed(p) == IF entry = fd[p] THEN "serving" ELSE "refused"  \* mutant: the path must still name the file
Outcome(p) == IF p \in short THEN "refused" ELSE "serving"

\* ... and the lock is released.
Unlock(p) ==
    /\ pc[p] = "unlinked"
    /\ pc' = [pc EXCEPT ![p] = Outcome(p)]
    /\ fd' = [fd EXCEPT ![p] = Nothing]
    /\ UNCHANGED <<entry, text, history>>

\* PidFile::read() of the path: it may name no file, or one that cannot be opened, or
\* one still empty, which strtoull() turns into PID 0.
OpenForReading(p) ==
    /\ pc[p] = "refused"
    /\ \/ /\ entry # Nothing
          /\ fd' = [fd EXCEPT ![p] = entry]
          /\ pc' = [pc EXCEPT ![p] = "reading"]
       \/ /\ pc' = [pc EXCEPT ![p] = "failed"]
          /\ UNCHANGED fd
    /\ UNCHANGED <<entry, text, history>>

\* The PID is reported and createPidfile() returns false.
Report(p) ==
    /\ pc[p] = "reading"
    /\ pc' = [pc EXCEPT ![p] = "failed"]
    /\ fd' = [fd EXCEPT ![p] = Nothing]
    /\ UNCHANGED <<entry, text, history>>

\* The process is killed: the system closes its file and drops its lock, the path
\* keeps naming the file.
Crash(p) ==
    /\ pc[p] \notin Over
    /\ pc' = [pc EXCEPT ![p] = "dead"]
    /\ fd' = [fd EXCEPT ![p] = Nothing]
    /\ UNCHANGED <<entry, text, history>>

Step(p) ==
    \/ Open(p) \/ OpenFails(p) \/ Lock(p) \/ Refused(p)
    \/ Truncate(p) \/ Write(p) \/ WriteFails(p) \/ Unlink(p) \/ Unlock(p)
    \/ OpenForReading(p) \/ Report(p)

\* Every start is over.
Done == (\A p \in Procs : pc[p] \in Over) /\ UNCHANGED vars

Next == (\E p \in Procs : Step(p) \/ Crash(p)) \/ Done

Spec == Init /\ [][Next]_vars

-----------------------------------------------------------------------------
\* Every variable has its type.
TypeOK ==
    /\ pc \in [Procs -> PcStates]
    /\ fd \in [Procs -> Inodes \union {Nothing}]
    /\ entry \in Inodes \union {Nothing}
    /\ text \in [Inodes -> Procs \union {Nothing}]
    /\ short \subseteq Procs
    /\ unable \subseteq Procs

\* An instance that has written its PID finds it in its file until it lets go of
\* the lock, whatever other instances do to the path in the meantime: put() runs
\* under the lock of the file it writes to.
OwnText == \A p \in Procs : pc[p] = "written" => text[fd[p]] = p

AllOver == \A p \in Procs : pc[p] \in Over
NobodyDied == \A p \in Procs : pc[p] # "dead"

\* If nobody was killed the path is gone when all starts are over, although an
\* instance may create the file anew between the lock and the unlink of another,
\* and one that is refused leaves the file it may have created.
NoFileLeft == AllOver /\ NobodyDied => entry = Nothing

\* Instances that start together and can open the path never all give up: one that is
\* refused was refused by one that goes on, unless that one was killed or could not
\* write.  One that cannot open the path gives up whatever the others do.
SomebodyServes ==
    AllOver /\ NobodyDied /\ short = {} /\ Procs \ unable # {} => \E p \in Procs : pc[p] = "serving"
=============================================================================
