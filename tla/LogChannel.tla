----------------------------- MODULE LogChannel -----------------------------
(***************************************************************************)
(* What an asynchronous logger promises to the threads that log: a bounded *)
(* channel to the sinks.  It keeps the order of the records and never      *)
(* duplicates one; a full channel loses one of the records that wait, never *)
(* the new one.  (ILogger and ISink of include/erebus/rtl/log.hxx state the  *)
(* interface.)                                                             *)
(***************************************************************************)
EXTENDS Integers, Sequences

CONSTANTS
    Kinds,      \* what an item can be
    Capacity    \* a send loses nothing while fewer items than this wait

VARIABLES
    channel,    \* the items that wait, the oldest first
    sinks,      \* the items the sinks have got, in order
    sent,       \* the number of items sent so far, which names them
    closed      \* the logger is being destroyed

chanVars == <<channel, sinks, sent, closed>>

Item(kind) == [what |-> kind, id |-> sent + 1]

Init ==
    /\ channel = <<>>
    /\ sinks = <<>>
    /\ sent = 0
    /\ closed = FALSE

Send(kind) ==
    /\ ~closed
    /\ sent' = sent + 1
    /\ channel' = Append(channel, Item(kind))
    /\ UNCHANGED <<sinks, closed>>

\* The item at position i is lost.
SendAndLose(kind, i) ==
    /\ ~closed
    /\ Len(channel) >= Capacity
    /\ sent' = sent + 1
    /\ channel' = Append(SubSeq(channel, 1, i - 1) \o SubSeq(channel, i + 1, Len(channel)),
                         Item(kind))
    /\ UNCHANGED <<sinks, closed>>

Deliver ==
    /\ channel # <<>>
    /\ sinks' = Append(sinks, Head(channel))
    /\ channel' = Tail(channel)
    /\ UNCHANGED <<sent, closed>>

Close == ~closed /\ closed' = TRUE /\ UNCHANGED <<channel, sinks, sent>>

Next ==
    \/ \E kind \in Kinds : Send(kind)
    \/ \E kind \in Kinds : \E i \in 1..Len(channel) : SendAndLose(kind, i)
    \/ Deliver
    \/ Close

\* While the logger lives, what waits is sent on.
Spec     == Init /\ [][Next]_chanVars
FairSpec == Spec /\ WF_chanVars(~closed /\ Deliver)
=============================================================================
