------------------------------- MODULE MCWaits -------------------------------
(***************************************************************************)
(* ClientBase, Program, PingRunner and AssertPrinter for TLC: where a      *)
(* destructor, the main thread or one that has failed an assertion waits   *)
(* until other threads are done.  They share no state, so a behaviour is   *)
(* one of any one of them, chosen at the start.                            *)
(***************************************************************************)
EXTENDS ClientBase, PingConstants

CONSTANTS
    MaxSignals, MaxEarly, MaxLate,              \* of Program
    MaxDepth                                    \* of AssertPrinter

ASSUME PrinterAssumption == MaxDepth \in Nat

VARIABLES
    part,                                       \* the part that runs
    main, setter, value, owner, action, pipe, armed, stopped, signalReceived, reported, sent,
    destroyed, killed, global, logged, pending, delivered,
                                                \* of Program
    pingMain, exit, busy, thread, left, stop, alive, wait, endless,
                                                \* of PingRunner
    pc, depth, expected, active, aborted        \* of AssertPrinter

Exec == INSTANCE Program
Ping == INSTANCE PingRunner WITH main <- pingMain, pending <- alive
Printer == INSTANCE AssertPrinter

execVars == <<main, setter, value, owner, action, pipe, armed, stopped, signalReceived, reported,
              sent, destroyed, killed, global, logged, pending, delivered>>
pingVars == <<pingMain, exit, busy, thread, left, stop, alive, wait, endless>>
printerVars == <<pc, depth, expected, active, aborted>>
allVars == <<part, vars, execVars, pingVars, printerVars>>

\* The parts that do not run stay in one of their initial states.
WaitsInit ==
    /\ part \in {"client", "program", "ping", "printer"}
    /\ Init /\ Exec!Init /\ Ping!Init /\ Printer!Init
    /\ part # "ping" => ~wait /\ endless

ClientStep(A) == part = "client" /\ A /\ UNCHANGED <<part, execVars, pingVars, printerVars>>
ProgramStep(A) == part = "program" /\ A /\ UNCHANGED <<part, vars, pingVars, printerVars>>
PingStep(A) == part = "ping" /\ A /\ UNCHANGED <<part, vars, execVars, printerVars>>
PrinterStep(A) == part = "printer" /\ A /\ UNCHANGED <<part, vars, execVars, pingVars>>

WaitsNext == ClientStep(Next) \/ ProgramStep(Exec!Next) \/ PingStep(Ping!Next) \/ PrinterStep(Printer!Next)

\* The fairness is that of the four parts.
WaitsSpec ==
    /\ WaitsInit /\ [][WaitsNext]_allVars
    /\ \A c \in Calls : WF_allVars(ClientStep(LeaveStep(c)))
    /\ WF_allVars(ClientStep(Check)) /\ WF_allVars(ClientStep(Wait))
    /\ WF_allVars(ProgramStep(Exec!Alive /\ Exec!Main))
    /\ WF_allVars(ProgramStep(Exec!Alive /\ Exec!Waiter))
    /\ \A t \in {"waiter", "runner"} : SF_allVars(ProgramStep(Exec!Alive /\ Exec!Setting(t)))
    /\ WF_allVars(PingStep(Ping!Main))
    /\ \A t \in Threads : WF_allVars(PingStep(Ping!Work(t))) /\ WF_allVars(PingStep(Ping!Complete(t)))
    /\ \A t \in Threads : WF_allVars(PrinterStep(Printer!Step(t)))

\* The program survives the signal it sends itself: see Program.
OwnSignalHarmless == Exec!OwnSignalHarmless

\* A signal ends the program: see Program.
SignalEndsProgram == Exec!SignalEndsProgram

\* Nobody uses the runner of the ping tool when it is gone: see PingRunner.
NobodyOutlivesRunner == Ping!NobodyOutlivesRunner

\* The ping tool ends: when it is asked to, with requests in flight and also when it was
\* to repeat them for ever, and by itself when it is done.
PingEnds == Ping!StopsWhenAsked /\ Ping!EndsByItself

\* A failed assertion ends the process, whoever else is printing: see AssertPrinter.
FailureAborts == Printer!FailureAborts
===============================================================================
