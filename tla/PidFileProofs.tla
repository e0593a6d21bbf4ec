---------------------------- MODULE PidFileProofs ----------------------------
(***************************************************************************)
(* The invariants the runs check hold for any number of instances and      *)
(* files.                                                                  *)
(*                                                                         *)
(* OwnText is not inductive: two instances that hold the lock of one file  *)
(* could overwrite each other's PID, and one that holds no file could not  *)
(* be told from the rest.  IInv adds that an instance has a file open from *)
(* its open() to its close, and that no two hold the lock of one file.     *)
(* NoFileLeft and SomebodyServes speak of the end; the two conjuncts added *)
(* for them, in IInv2, say who will still unlink the path and who will     *)
(* still go on in every state before it.                                   *)
(***************************************************************************)
EXTENDS PidFile, TLAPS

\* An instance has a file open exactly while its code has.
OpenWhileUsed ==
    \A p \in Procs : fd[p] \in Inodes <=> pc[p] \in Holding \union {"opened", "reading"}

\* The lock is exclusive.
OneHolder ==
    \A p, q \in Procs :
        pc[p] \in Holding /\ pc[q] \in Holding /\ fd[p] = fd[q] => p = q

IInv == TypeOK /\ OpenWhileUsed /\ OneHolder /\ OwnText

USE DEF Holding, Reading, Over, PcStates, history

\* The invariant holds when nothing has started.
LEMMA InitIInv == Init => IInv
<1> SUFFICES ASSUME Init PROVE IInv
  OBVIOUS
<1>1. Nothing \notin Inodes
  BY NothingAssumption
<1>2. QED
  BY <1>1 DEF Init, IInv, TypeOK, OpenWhileUsed, OneHolder, OwnText

\* Every step keeps it.  Only Open, Truncate and Write change a text, the first of
\* a file nobody has open, the others of the file the instance has locked.
LEMMA NextIInv == IInv /\ [Next]_vars => IInv'
<1> SUFFICES ASSUME IInv, [Next]_vars PROVE IInv'
  OBVIOUS
<1>0. TypeOK /\ OpenWhileUsed /\ OneHolder /\ OwnText /\ Nothing \notin Inodes
  BY NothingAssumption DEF IInv
<1>1. ASSUME NEW p \in Procs, Open(p) PROVE IInv'
  BY <1>0, <1>1 DEF Open, Free, IInv, TypeOK, OpenWhileUsed, OneHolder, OwnText
<1>1a. ASSUME NEW p \in Procs, OpenFails(p) PROVE IInv'
  BY <1>0, <1>1a DEF OpenFails, IInv, TypeOK, OpenWhileUsed, OneHolder, OwnText
<1>2. ASSUME NEW p \in Procs, Lock(p) PROVE IInv'
  <2>1. \A q \in Procs : pc[q] \in Holding => fd[q] # fd[p]
    BY <1>2 DEF Lock, LockAvailable, Holders
  <2>2. QED
    BY <1>0, <1>2, <2>1 DEF Lock, IInv, TypeOK, OpenWhileUsed, OneHolder, OwnText
<1>3. ASSUME NEW p \in Procs, Refused(p) PROVE IInv'
  BY <1>0, <1>3 DEF Refused, IInv, TypeOK, OpenWhileUsed, OneHolder, OwnText
<1>4. ASSUME NEW p \in Procs, Truncate(p) PROVE IInv'
  BY <1>0, <1>4 DEF Truncate, IInv, TypeOK, OpenWhileUsed, OneHolder, OwnText
<1>5. ASSUME NEW p \in Procs, Write(p) PROVE IInv'
  BY <1>0, <1>5 DEF Write, IInv, TypeOK, OpenWhileUsed, OneHolder, OwnText
<1>6. ASSUME NEW p \in Procs, WriteFails(p) PROVE IInv'
  BY <1>0, <1>6 DEF WriteFails, IInv, TypeOK, OpenWhileUsed, OneHolder, OwnText
<1>7. ASSUME NEW p \in Procs, Unlink(p) PROVE IInv'
  BY <1>0, <1>7 DEF Unlink, AfterUnlink, IInv, TypeOK, OpenWhileUsed, OneHolder, OwnText
<1>8. ASSUME NEW p \in Procs, Unlock(p) PROVE IInv'
  BY <1>0, <1>8 DEF Unlock, Outcome, IInv, TypeOK, OpenWhileUsed, OneHolder, OwnText
<1>9. ASSUME NEW p \in Procs, OpenForReading(p) PROVE IInv'
  BY <1>0, <1>9 DEF OpenForReading, IInv, TypeOK, OpenWhileUsed, OneHolder, OwnText
<1>10. ASSUME NEW p \in Procs, Report(p) PROVE IInv'
  BY <1>0, <1>10 DEF Report, IInv, TypeOK, OpenWhileUsed, OneHolder, OwnText
<1>11. ASSUME NEW p \in Procs, Crash(p) PROVE IInv'
  BY <1>0, <1>11 DEF Crash, IInv, TypeOK, OpenWhileUsed, OneHolder, OwnText
<1>12. CASE UNCHANGED vars
  BY <1>0, <1>12 DEF vars, IInv, TypeOK, OpenWhileUsed, OneHolder, OwnText
<1>13. QED
  BY <1>1, <1>1a, <1>2, <1>3, <1>4, <1>5, <1>6, <1>7, <1>8, <1>9, <1>10, <1>11, <1>12
     DEF Next, Step, Done

\* The invariant holds in every reachable state.
THEOREM Invariance == Spec => []IInv
  BY InitIInv, NextIInv, PTL DEF Spec

\* Every variable of the model keeps its type, for any number of instances.
THEOREM TypeCorrect == Spec => []TypeOK
<1>1. IInv => TypeOK
  BY DEF IInv
<1>2. QED
  BY Invariance, <1>1, PTL

\* put() writes under the lock of the file it has open: an instance that has written
\* its PID finds it there until it lets go, whatever happens to the path.
THEOREM WrittenTextStays == Spec => []OwnText
<1>1. IInv => OwnText
  BY DEF IInv
<1>2. QED
  BY Invariance, <1>1, PTL

-----------------------------------------------------------------------------
\* The path never names a file whose holder has unlinked it already: no number is
\* used again while somebody has the file open.
UnlinkedIsUnnamed == \A p \in Procs : pc[p] = "unlinked" => fd[p] # entry

\* As long as nobody has died, a path that names a file has somebody to unlink it.
SomebodyUnlinks ==
    NobodyDied /\ entry # Nothing =>
        \E p \in Procs : pc[p] \in {"opened", "locked", "truncated", "written"} /\ fd[p] = entry

\* As long as nobody has died and no write was short, once one has opened the path
\* somebody who has opened it has not given up.
SomebodyGoesOn ==
    NobodyDied /\ short = {} /\ (\E q \in Procs \ unable : pc[q] # "start") =>
        \E p \in Procs : pc[p] \in {"opened", "serving"} \union Holding

IInv2 == IInv /\ UnlinkedIsUnnamed /\ SomebodyUnlinks /\ SomebodyGoesOn

\* The stronger invariant is inductive too: an instance is refused only while
\* another holds the lock of the same file.
LEMMA InitIInv2 == Init => IInv2
<1>1. Init => IInv
  BY InitIInv
<1>2. QED
  BY <1>1 DEF Init, IInv2, UnlinkedIsUnnamed, SomebodyUnlinks, SomebodyGoesOn

LEMMA NextIInv2 == IInv2 /\ [Next]_vars => IInv2'
<1> SUFFICES ASSUME IInv2, [Next]_vars PROVE IInv2'
  OBVIOUS
<1> DEFINE Rest == UnlinkedIsUnnamed /\ SomebodyUnlinks /\ SomebodyGoesOn
<1>0. TypeOK /\ OpenWhileUsed /\ Rest /\ Nothing \notin Inodes
  BY NothingAssumption DEF IInv2, IInv
<1>1. ASSUME NEW p \in Procs, Open(p) PROVE Rest'
  BY <1>0, <1>1 DEF Open, Free, TypeOK, OpenWhileUsed, NobodyDied, UnlinkedIsUnnamed,
     SomebodyUnlinks, SomebodyGoesOn
<1>1a. ASSUME NEW p \in Procs, OpenFails(p) PROVE Rest'
  BY <1>0, <1>1a DEF OpenFails, TypeOK, OpenWhileUsed, NobodyDied, UnlinkedIsUnnamed,
     SomebodyUnlinks, SomebodyGoesOn
<1>2. ASSUME NEW p \in Procs, Lock(p) PROVE Rest'
  BY <1>0, <1>2 DEF Lock, LockAvailable, Holders, TypeOK, OpenWhileUsed, NobodyDied,
     UnlinkedIsUnnamed, SomebodyUnlinks, SomebodyGoesOn
<1>3. ASSUME NEW p \in Procs, Refused(p) PROVE Rest'
  BY <1>0, <1>3 DEF Refused, LockAvailable, Holders, TypeOK, OpenWhileUsed, NobodyDied,
     UnlinkedIsUnnamed, SomebodyUnlinks, SomebodyGoesOn
<1>4. ASSUME NEW p \in Procs, Truncate(p) PROVE Rest'
  BY <1>0, <1>4 DEF Truncate, TypeOK, OpenWhileUsed, NobodyDied, UnlinkedIsUnnamed,
     SomebodyUnlinks, SomebodyGoesOn
<1>5. ASSUME NEW p \in Procs, Write(p) PROVE Rest'
  BY <1>0, <1>5 DEF Write, TypeOK, OpenWhileUsed, NobodyDied, UnlinkedIsUnnamed,
     SomebodyUnlinks, SomebodyGoesOn
<1>6. ASSUME NEW p \in Procs, WriteFails(p) PROVE Rest'
  BY <1>0, <1>6 DEF WriteFails, TypeOK, OpenWhileUsed, NobodyDied, UnlinkedIsUnnamed,
     SomebodyUnlinks, SomebodyGoesOn
<1>7. ASSUME NEW p \in Procs, Unlink(p) PROVE Rest'
  BY <1>0, <1>7 DEF Unlink, AfterUnlink, TypeOK, OpenWhileUsed, NobodyDied, UnlinkedIsUnnamed,
     SomebodyUnlinks, SomebodyGoesOn
<1>8. ASSUME NEW p \in Procs, Unlock(p) PROVE Rest'
  BY <1>0, <1>8 DEF Unlock, Outcome, TypeOK, OpenWhileUsed, NobodyDied, UnlinkedIsUnnamed,
     SomebodyUnlinks, SomebodyGoesOn
<1>9. ASSUME NEW p \in Procs, OpenForReading(p) PROVE Rest'
  BY <1>0, <1>9 DEF OpenForReading, TypeOK, OpenWhileUsed, NobodyDied, UnlinkedIsUnnamed,
     SomebodyUnlinks, SomebodyGoesOn
<1>10. ASSUME NEW p \in Procs, Report(p) PROVE Rest'
  BY <1>0, <1>10 DEF Report, TypeOK, OpenWhileUsed, NobodyDied, UnlinkedIsUnnamed,
     SomebodyUnlinks, SomebodyGoesOn
<1>11. ASSUME NEW p \in Procs, Crash(p) PROVE Rest'
  BY <1>0, <1>11 DEF Crash, TypeOK, OpenWhileUsed, NobodyDied, UnlinkedIsUnnamed,
     SomebodyUnlinks, SomebodyGoesOn
<1>12. ASSUME UNCHANGED vars PROVE Rest'
  BY <1>0, <1>12 DEF vars, NobodyDied, UnlinkedIsUnnamed, SomebodyUnlinks, SomebodyGoesOn
<1>13. IInv'
  BY NextIInv DEF IInv2
<1>14. QED
  BY <1>1, <1>1a, <1>2, <1>3, <1>4, <1>5, <1>6, <1>7, <1>8, <1>9, <1>10, <1>11, <1>12, <1>13
     DEF Next, Step, Done, IInv2

\* The stronger invariant holds in every reachable state.
THEOREM Invariance2 == Spec => []IInv2
  BY InitIInv2, NextIInv2, PTL DEF Spec

\* When every start is over and nobody was killed, the path is gone.
THEOREM PathCleared == Spec => []NoFileLeft
<1>1. IInv2 => NoFileLeft
  BY DEF IInv2, SomebodyUnlinks, NoFileLeft, AllOver, NobodyDied
<1>2. QED
  BY Invariance2, <1>1, PTL

\* When every start is over, nobody was killed and no write was short, somebody serves,
\* unless nobody could open the path.
THEOREM OneServes == Spec => []SomebodyServes
<1>1. IInv2 => SomebodyServes
  BY DEF IInv2, SomebodyGoesOn, SomebodyServes, AllOver, NobodyDied
<1>2. QED
  BY Invariance2, <1>1, PTL
=============================================================================
