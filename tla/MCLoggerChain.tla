--------------------------- MODULE MCLoggerChain ---------------------------
(***************************************************************************)
(* LoggerChain, Tee and ThreadData, the parts of a logger, for TLC.  They  *)
(* share no state, so a behaviour is one of any, chosen at the start.      *)
(***************************************************************************)
EXTENDS LoggerChain, TLC

CONSTANTS Names, Pointers, MaxSinks, None,      \* of Tee
    Main, Service, Other                        \* the loggers of ThreadData

VARIABLES
    part,                                       \* the part that runs
    named, refs, alive, made, pointer, call,    \* of Tee
    id, td, sending, stored                     \* of ThreadData

\* No number is taken for "nothing", which is neither an id nor a sink.
ASSUME NoneAssumption == None \notin Int
ASSUME TeeAssumption == MaxSinks \in Nat /\ IsFiniteSet(Threads) /\ IsFiniteSet(Names) /\ IsFiniteSet(Pointers)

\* The threads are interchangeable.
ThreadSymmetry == Permutations(Threads)

Sinks == INSTANCE Tee WITH sinks <- named
Places == INSTANCE ThreadData WITH Loggers <- {Main, Service, Other}

teeVars == <<named, refs, alive, made, pointer, call>>
placeVars == <<id, td, sending, stored>>
allVars == <<part, vars, teeVars, placeVars>>

LoggerInit == part \in {"chain", "tee", "places"} /\ Init /\ Sinks!Init /\ Places!Init
ChainStep == part = "chain" /\ Next /\ UNCHANGED <<part, teeVars, placeVars>>
TeeStep == part = "tee" /\ Sinks!Next /\ UNCHANGED <<part, vars, placeVars>>
PlacesStep == part = "places" /\ Places!Next /\ UNCHANGED <<part, vars, teeVars>>
LoggerSpec == LoggerInit /\ [][ChainStep \/ TeeStep \/ PlacesStep]_allVars

\* Sinks live for as long as somebody has them: see Tee.
SinksLiveWhileUsed == part = "tee" => Sinks!SinksLiveWhileUsed

\* What a logger keeps for a thread is its own: see ThreadData.
PlacesAreOwn == part = "places" => Places!PlacesAreOwn
=============================================================================
