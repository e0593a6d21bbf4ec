---------------------------- MODULE AssertPrinter ----------------------------
(***************************************************************************)
(* Failed assertions (src/rtl-lib/assert.cxx and the macro ErAssert).      *)
(*                                                                         *)
(* A thread whose assertion fails takes its turn with a compare-exchange   *)
(* on a counter of active assertions, prints a report through the logger,  *)
(* and aborts the process.  The printing itself may run into an assertion, *)
(* on the same thread: the function is then entered again.                 *)
(*                                                                         *)
(* A compare-exchange that fails stores the value it found in "expected".  *)
(***************************************************************************)
EXTENDS Integers, FiniteSets

CONSTANTS
    Threads,
    MaxDepth    \* bound: assertions that fail within the printing of one

VARIABLES
    pc,         \* where each thread is
    depth,      \* how many calls of printFailedAssertion() it is in
    expected,   \* the variable of the innermost one
    active,     \* g_activeAssertions
    aborted     \* std::abort() has been called

vars == <<pc, depth, expected, active, aborted>>

PcStates == {"run", "try", "print", "leave", "abort"}

Init ==
    /\ pc = [t \in Threads |-> "run"]
    /\ depth = [t \in Threads |-> 0]
    /\ expected = [t \in Threads |-> 0]
    /\ active = 0
    /\ aborted = FALSE

\* An assertion fails, in the program or in the printing of a report.
Fail(t) ==
    /\ ~aborted
    /\ pc[t] \in {"run", "print"} /\ depth[t] < MaxDepth
    /\ depth' = [depth EXCEPT ![t] = @ + 1]
    /\ expected' = [expected EXCEPT ![t] = 0]
    /\ pc' = [pc EXCEPT ![t] = "try"]
    /\ UNCHANGED <<active, aborted>>

\* The compare-exchange succeeds, or leaves in expected what it found; the loop
\* sleeps and tries again with that.
AlwaysZero(t) == active = 0           \* mutant: expected is reset in the loop
Exchanged(t) == active = expected[t]
TryAgain(t) ==
    /\ ~aborted /\ pc[t] = "try"
    /\ IF Exchanged(t)
       THEN /\ active' = 1
            /\ pc' = [pc EXCEPT ![t] = "print"]
            /\ UNCHANGED expected
       ELSE /\ expected' = [expected EXCEPT ![t] = active]
            /\ UNCHANGED <<active, pc>>
    /\ UNCHANGED <<depth, aborted>>

\* The report is formatted and printed.
Report(t) ==
    /\ ~aborted /\ pc[t] = "print"
    /\ pc' = [pc EXCEPT ![t] = "leave"]
    /\ UNCHANGED <<depth, expected, active, aborted>>

Released == 0
Leave(t) ==
    /\ ~aborted /\ pc[t] = "leave"
    /\ active' = Released
    /\ pc' = [pc EXCEPT ![t] = "abort"]
    /\ UNCHANGED <<depth, expected, aborted>>

Abort(t) ==
    /\ ~aborted /\ pc[t] = "abort"
    /\ aborted' = TRUE
    /\ UNCHANGED <<pc, depth, expected, active>>

Step(t) == TryAgain(t) \/ Report(t) \/ Leave(t) \/ Abort(t)

\* The process is gone.
Dead == aborted /\ UNCHANGED vars

Next == Dead \/ \E t \in Threads : Fail(t) \/ Step(t)

Spec == Init /\ [][Next]_vars

\* Threads are scheduled; the printing ends (the flush has a timeout).
FairSpec == Spec /\ \A t \in Threads : WF_vars(Step(t))

-----------------------------------------------------------------------------
\* A failed assertion ends the process: neither another thread that is printing nor a
\* report whose printing fails an assertion itself can keep a thread waiting for ever.
FailureAborts == (\E t \in Threads : pc[t] # "run") ~> aborted

-----------------------------------------------------------------------------
\* "we cannot afford two parallel active assertions" (assert.cxx:90).  A thread that
\* has failed once expects 1, and finds it.
OneActiveAssertion == Cardinality({t \in Threads : pc[t] = "print"}) <= 1
=============================================================================
