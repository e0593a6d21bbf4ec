---------------------------- MODULE PingConstants ----------------------------
(***************************************************************************)
(* The parameters of PingRunner.                                           *)
(***************************************************************************)
EXTENDS Naturals, FiniteSets

CONSTANTS
    Threads,        \* the worker threads, 1..parallel
    Iterations,     \* the request repeat count
    MaxPending      \* bound: completions of a thread not destroyed yet

ASSUME ThreadsAssumption == IsFiniteSet(Threads)
ASSUME IterationsAssumption == Iterations \in Nat
ASSUME MaxPendingAssumption == MaxPending \in Nat \ {0}
===============================================================================
