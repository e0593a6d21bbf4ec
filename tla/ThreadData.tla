----------------------------- MODULE ThreadData -----------------------------
(***************************************************************************)
(* What loggers keep per thread (erebus/rtl/util/thread_data.hxx): every   *)
(* thread has a vector, in which each logger has the place of its id, and  *)
(* an id is given again when its logger is gone.  data() returns a         *)
(* reference into the vector, which growing the vector invalidates;        *)
(* endBlock() of logger_base.hxx uses its reference again after the        *)
(* records have gone through another logger.                               *)
(*                                                                         *)
(* The loggers are those of the server: the main one is made first and     *)
(* goes last, and every other one has it for its only sink.                *)
(***************************************************************************)
EXTENDS Integers, FiniteSets, SequencesExt

CONSTANTS
    Threads,
    Loggers, Main,
    None

VARIABLES
    id,         \* m_instanceId of each logger; None: it is not there
    td,         \* the vector of each thread: what is stored in each place
    sending,    \* the reference that endBlock() of a thread will use again
    stored      \* history: what each logger has stored for each thread

vars == <<id, td, sending, stored>>

Ids == 0..Cardinality(Loggers)
Live == {l \in Loggers : id[l] # None}
Empty == 0                                  \* no indentation, no open block, no records
Contents == {Empty, 1}

Init ==
    /\ id = [l \in Loggers |-> None]
    /\ td = [t \in Threads |-> <<>>]
    /\ sending = [t \in Threads |-> None]
    /\ stored = [t \in Threads |-> [l \in Loggers |-> Empty]]

-----------------------------------------------------------------------------
\* allocateInstanceId(): the first id that is free.
Counted == Cardinality(Live)                \* mutant: as many as there are
FirstFree == Min(Ids \ {id[l] : l \in Live})
Make(l) ==
    /\ l \notin Live /\ (l = Main \/ Main \in Live)
    /\ id' = [id EXCEPT ![l] = FirstFree]
    /\ UNCHANGED <<td, sending, stored>>

\* releaseInstanceId(); the threads keep what is in that place, which is nothing by then
\* (NothingLeftBehind of LoggerChain).
Destroy(l) ==
    /\ l \in Live /\ (l = Main => Live = {Main})
    /\ \A t \in Threads : stored[t][l] = Empty /\ (sending[t] # None => sending[t].logger # l)
    /\ id' = [id EXCEPT ![l] = None]
    /\ UNCHANGED <<td, sending, stored>>

-----------------------------------------------------------------------------
\* data(): resize() if the vector is too short.
Place(l) == id[l] + 1
Cut(t, l) ==                                \* mutant: resize() in any case
    [i \in 1..Place(l) |-> IF i \in DOMAIN td[t] THEN td[t][i] ELSE Empty]
Grown(t, l) == td[t] \o [i \in 1..(Place(l) - Len(td[t])) |-> Empty]

Data(t, l, v) ==
    /\ td' = [td EXCEPT ![t] = [Grown(t, l) EXCEPT ![Place(l)] = v]]
    /\ stored' = [stored EXCEPT ![t][l] = v]

\* write(), indent(), beginBlock() and so on; the main logger is also written to by
\* endBlock() of another one.
Access(t, l, v) ==
    /\ l \in Live /\ (sending[t] = None \/ l = Main)
    /\ Data(t, l, v)
    /\ UNCHANGED <<id, sending>>

\* endBlock(): the reference is taken and the records are moved out ...
EndBlock(t, l) ==
    /\ l \in Live \ {Main} /\ sending[t] = None
    /\ stored[t][l] # Empty
    /\ Data(t, l, Empty)
    /\ sending' = [sending EXCEPT ![t] = [logger |-> l, size |-> Len(Grown(t, l))]]
    /\ UNCHANGED id

\* ... and used again when they have been written: ErAssert(td.atomic.empty()).
Sent(t) ==
    /\ sending[t] # None
    /\ sending' = [sending EXCEPT ![t] = None]
    /\ UNCHANGED <<id, td, stored>>

Next ==
    \/ \E l \in Loggers : Make(l) \/ Destroy(l)
    \/ \E t \in Threads, l \in Loggers : EndBlock(t, l) \/ \E v \in Contents : Access(t, l, v)
    \/ \E t \in Threads : Sent(t)

Spec == Init /\ [][Next]_vars

-----------------------------------------------------------------------------
\* Every logger finds in each thread what it has stored there itself, and nothing before
\* that, whatever loggers come and go; and the reference that endBlock() uses again is
\* still one to the vector, into the place of its logger.
PlacesAreOwn ==
    \A t \in Threads :
        /\ \A l \in Live : stored[t][l] = IF Place(l) \in DOMAIN td[t] THEN td[t][Place(l)] ELSE Empty
        /\ sending[t] # None => sending[t].size = Len(td[t])
=============================================================================
