--------------------------- MODULE SystemInfoCall ---------------------------
(***************************************************************************)
(* One call of GetSystemInfo from end to end: the reactor of the service   *)
(* (src/ipc/grpc/grpc-server-lib/system_info_service.cxx) streams a bag of *)
(* properties to the reader of the client                                  *)
(* (src/ipc/grpc/grpc-client-lib/system_info_client.cxx).                  *)
(*                                                                         *)
(* Between them is gRPC, modelled from how the code uses it: an ordered    *)
(* stream with room for Window messages, a trailing status that the reader *)
(* gets only after all messages, and a call that either side finds aborted *)
(* after it was cancelled or the connection was lost.                      *)
(***************************************************************************)
EXTENDS Integers, Sequences

CONSTANTS
    MaxProperties,  \* bound of the model: properties that match the pattern
    Window          \* messages in flight before a write has to wait

ASSUME MaxPropertiesAssumption == MaxProperties \in Nat
ASSUME WindowAssumption == Window \in Nat \ {0}

VARIABLES
    bag,        \* the number of properties found, or Throws
    broken,     \* the properties for which unmarshalProperty() or onProperty() throws
    reactor,    \* what the SystemInfoReplyReactor has come to
    next,       \* m_next: the property to be written next
    reply,      \* m_reply: the property being written
    stream,     \* messages in flight
    trailer,    \* the status sent by the server
    abort,      \* why the call was aborted
    reader,     \* what the PropertyStreamReader has come to
    taken,      \* history: messages the reader has read
    got,        \* history: properties that onProperty() has taken
    result      \* history: "error" if onError() was called, "ended" if the
                \* handler was only released

vars == <<bag, broken, reactor, next, reply, stream, trailer, abort, reader, taken, got, result>>

server == <<reactor, next, reply>>
caller == <<taken, got, result>>

None == "none"
Throws == -1        \* SystemInfo::get() throws
Statuses == {"OK", "CANCELLED", "INTERNAL"}

Init ==
    /\ bag \in Throws..MaxProperties
    /\ broken \in SUBSET (1..MaxProperties)
    /\ reactor = "none"
    /\ next = 1
    /\ reply = 0
    /\ stream = <<>>
    /\ trailer = None
    /\ abort = None
    /\ reader = "none"
    /\ taken = 0
    /\ got = <<>>
    /\ result = None

-----------------------------------------------------------------------------
(***************************************************************************)
(* The service.                                                            *)
(***************************************************************************)

\* Finish(status): the status is sent unless the call is gone.
Finish(status) ==
    /\ reactor' = "finished"
    /\ trailer' = IF abort = None THEN status ELSE trailer

\* m_next != m_bag.end()
More(n) == n <= bag

\* ++m_next
Stay(n) == n                          \* mutant: m_next is not advanced
Advance(n) == n + 1

\* Continue(), "n" being m_next: another write or the end of the stream.
Continue(n) ==
    IF More(n)
      THEN reactor' = "writing" /\ reply' = n /\ next' = Advance(n) /\ UNCHANGED trailer
      ELSE Finish("OK") /\ UNCHANGED <<next, reply>>

\* GetSystemInfo()
Serve ==
    /\ reactor = "none"
    /\ reader # "none"
    /\ \/ abort # None /\ Finish("CANCELLED") /\ UNCHANGED <<next, reply>>
       \/ bag = Throws /\ Finish("INTERNAL") /\ UNCHANGED <<next, reply>>
       \/ bag # Throws /\ Continue(1)
    /\ UNCHANGED <<bag, broken, stream, abort, reader, caller>>

\* OnWriteDone(true): the message is on its way.  A write may still succeed
\* after the call was aborted; over a lost connection it goes nowhere.
Written ==
    /\ reactor = "writing"
    /\ Len(stream) < Window
    /\ stream' = IF abort = "lost" THEN stream ELSE Append(stream, reply)
    /\ Continue(next)
    /\ UNCHANGED <<bag, broken, abort, reader, caller>>

\* OnWriteDone(false)
IgnoreFailure == UNCHANGED <<reactor, trailer>>   \* mutant: nothing is finished
FinishFailed == Finish("CANCELLED")

WriteFailed ==
    /\ reactor = "writing"
    /\ abort # None
    /\ FinishFailed
    /\ UNCHANGED <<bag, broken, next, reply, stream, abort, reader, caller>>

\* OnDone(): the reactor deletes itself.
Freed ==
    /\ reactor = "finished"
    /\ reactor' = "freed"
    /\ UNCHANGED <<bag, broken, next, reply, stream, trailer, abort, reader, caller>>

-----------------------------------------------------------------------------
(***************************************************************************)
(* The client.                                                             *)
(***************************************************************************)

\* getSystemInfo(): StartRead() and StartCall().
Call ==
    /\ reader = "none"
    /\ reader' = "reading"
    /\ UNCHANGED <<bag, broken, server, stream, trailer, abort, caller>>

\* What is left of a reader when OnReadDone(true) returns: it always starts
\* the next read, also after an exception.
ReadOnUnlessThrown(message) ==        \* mutant: an exception skips StartRead()
    IF message \in broken THEN "stopped" ELSE "reading"
ReadOn(message) == "reading"

\* Whether OnReadDone() gets through to the end of its try block.
Taken(message) == message \notin broken

\* OnReadDone(true).  An exception is logged and the property is skipped; the
\* handler may cancel the call.
ReadDone ==
    /\ reader = "reading"
    /\ stream # <<>>
    /\ LET message == Head(stream)
       IN  /\ taken' = taken + 1
           /\ IF Taken(message)
                THEN got' = Append(got, message) /\ abort' \in (IF abort = None THEN {None, "cancelled"} ELSE {abort})
                ELSE UNCHANGED <<got, abort>>
           /\ reader' = ReadOn(message)
    /\ stream' = Tail(stream)
    /\ UNCHANGED <<bag, broken, server, trailer, result>>

\* OnReadDone(false): the end of the stream, or the call was aborted and what
\* was in flight is dropped.
ReadEnds ==
    /\ reader = "reading"
    /\ \/ stream = <<>> /\ trailer # None
       \/ abort # None
    /\ reader' = "ended"
    /\ UNCHANGED <<bag, broken, server, stream, trailer, abort, caller>>

\* The status of the call.  The status of the server counts if it had arrived
\* when the call was aborted and everything before it had been read.
Status ==
    IF abort = None THEN {trailer}
    ELSE {abort} \union IF stream = <<>> /\ trailer # None THEN {trailer} ELSE {}

\* Whether onError() is called.
TellUnlessCancelled(status) ==        \* mutant: a lost connection is not told
    status \notin {"OK", "lost"}
Tell(status) == status # "OK"

\* OnDone(): only after the last read, and with no message left unless the
\* call was aborted.  The handler is released, the reader deletes itself.
Done ==
    /\ reader \in {"ended", "stopped"}
    /\ abort # None \/ (stream = <<>> /\ trailer # None)
    /\ \E status \in Status : result' = IF Tell(status) THEN "error" ELSE "ended"
    /\ reader' = "freed"
    /\ UNCHANGED <<bag, broken, server, stream, trailer, abort, taken, got>>

\* The connection is lost.
Lose ==
    /\ reader \notin {"none", "freed"}
    /\ abort = None
    /\ abort' = "lost"
    /\ UNCHANGED <<bag, broken, server, stream, trailer, reader, caller>>

Terminated ==
    /\ reader = "freed"
    /\ reactor = "freed"
    /\ UNCHANGED vars

-----------------------------------------------------------------------------
ServerStep == Serve \/ Written \/ WriteFailed \/ Freed
ClientStep == ReadDone \/ ReadEnds \/ Done

Next == Call \/ ServerStep \/ ClientStep \/ Lose \/ Terminated

Spec == Init /\ [][Next]_vars

\* The threads of gRPC on both sides are scheduled.  Neither the application
\* nor the network has to do anything.
Fairness == WF_vars(ServerStep) /\ WF_vars(ClientStep)

FairSpec == Spec /\ Fairness

-----------------------------------------------------------------------------
(***************************************************************************)
(* Properties.                                                             *)
(***************************************************************************)

\* Every variable keeps its type; a write is outstanding only for a property
\* of the bag, and what is in flight fits the window.
TypeOK ==
    /\ bag \in Throws..MaxProperties
    /\ broken \subseteq 1..MaxProperties
    /\ reactor \in {"none", "writing", "finished", "freed"}
    /\ next \in 1..MaxProperties + 1
    /\ reply \in 0..MaxProperties
    /\ reactor = "writing" => reply \in 1..bag
    /\ stream \in Seq(1..MaxProperties) /\ Len(stream) <= Window
    /\ trailer \in Statuses \union {None}
    /\ abort \in {None, "cancelled", "lost"}
    /\ reader \in {"none", "reading", "ended", "stopped", "freed"}
    /\ taken \in 0..MaxProperties
    /\ got \in Seq(1..MaxProperties)
    /\ result \in {None, "error", "ended"}

Elements(s) == {s[i] : i \in 1..Len(s)}
Ascending(s) == \A i, j \in 1..Len(s) : i < j => s[i] < s[j]

\* The handler gets the properties of the bag in order, each once, and misses
\* only those that have thrown among the ones read so far.
InOrder == Ascending(got) /\ Elements(got) = {m \in 1..taken : Taken(m)}

\* A handler that was not told of an error has got everything the server
\* found, short of what has thrown: OK never hides a stream cut short.
AllOrError ==
    result = "ended" => bag # Throws /\ Elements(got) = {m \in 1..bag : Taken(m)}

CallEnds == reader = "reading" ~> reader = "freed"
ReactorFreed == reactor = "writing" ~> reactor = "freed"

\* The call ends for the client, and its reader is freed, whatever happens in between:
\* an exception, a cancellation in the middle, a lost connection.  So is the reactor of
\* the server, which the shutdown of the server waits for, also when the client goes
\* away in the middle of a write.
BothSidesEnd == CallEnds /\ ReactorFreed
=============================================================================
