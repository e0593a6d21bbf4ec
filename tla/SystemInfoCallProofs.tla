------------------------ MODULE SystemInfoCallProofs ------------------------
(***************************************************************************)
(* Proofs about SystemInfoCall, for any number of properties and any room  *)
(* in the stream: what the handler gets is in order, a call that ends      *)
(* without an error has brought everything, a call is finite, and neither  *)
(* side of it gets stuck.                                                  *)
(***************************************************************************)
EXTENDS SystemInfoCall, TLAPS

\* What is in flight follows what has been read, without a gap.
Flight == \A i \in 1..Len(stream) : stream[i] = taken + i

\* What is being written comes next, as long as the connection holds; OK is sent after
\* everything has been written.
Progress ==
    /\ taken + Len(stream) <= MaxProperties
    /\ reactor = "none" => next = 1 /\ stream = <<>> /\ taken = 0 /\ trailer = None
    /\ reactor = "writing" =>
        next = reply + 1 /\ trailer = None /\ (abort # "lost" => reply = taken + Len(stream) + 1)
    /\ trailer = "OK" => bag = taken + Len(stream)

\* A call ends without an error only when OK has been reached.
Ending == result = "ended" => reader = "freed" /\ trailer = "OK" /\ stream = <<>>

IInv == TypeOK /\ Flight /\ Progress /\ Ending /\ InOrder

-----------------------------------------------------------------------------
\* The invariant holds when nothing has been sent.
LEMMA Start == Init => IInv
<1> USE MaxPropertiesAssumption, WindowAssumption
<1> SUFFICES ASSUME Init PROVE IInv
    OBVIOUS
<1>1. TypeOK
    BY DEF Init, TypeOK, Throws, None, Statuses
<1>2. Flight /\ Progress /\ Ending
    BY DEF Init, Flight, Progress, Ending, None
<1>3. InOrder
    BY DEF Init, InOrder, Elements, Ascending
<1> QED
    BY <1>1, <1>2, <1>3 DEF IInv

\* A message is taken: it goes to the end of what the handler has got, or is left out.
LEMMA TakenInOrder ==
    ASSUME TypeOK, InOrder,
           taken' = taken + 1, broken' = broken,
           got' = IF Taken(taken + 1) THEN Append(got, taken + 1) ELSE got
    PROVE  InOrder'
<1>1. taken \in Nat /\ got \in Seq(1..MaxProperties)
    BY DEF TypeOK
<1>2. \A i \in 1..Len(got) : got[i] \in 1..taken
    BY DEF InOrder, Elements
<1>3. \A m : Taken(m)' <=> Taken(m)
    BY DEF Taken
<1>4. CASE Taken(taken + 1)
    <2>1. got' = Append(got, taken + 1)
        BY <1>4
    <2>2. Len(got') = Len(got) + 1 /\ Len(got) \in Nat
        BY <2>1, <1>1
    <2>3. \A i \in 1..Len(got) : got'[i] = got[i]
        BY <2>1, <1>1
    <2>4. got'[Len(got) + 1] = taken + 1
        BY <2>1, <1>1
    <2>5. Ascending(got')
        <3>1. SUFFICES ASSUME NEW i \in 1..Len(got'), NEW j \in 1..Len(got'), i < j
                       PROVE  got'[i] < got'[j]
            BY DEF Ascending
        <3>2. i \in 1..Len(got) /\ (j \in 1..Len(got) \/ j = Len(got) + 1)
            BY <3>1, <2>2
        <3>3. got'[i] = got[i] /\ got[i] \in 1..taken
            BY <3>2, <2>3, <1>2
        <3>4. CASE j = Len(got) + 1
            BY <3>3, <3>4, <2>4, <1>1
        <3>5. CASE j \in 1..Len(got)
            BY <3>1, <3>2, <3>3, <3>5, <2>3 DEF InOrder, Ascending
        <3> QED
            BY <3>2, <3>4, <3>5
    <2>6. Elements(got') = Elements(got) \union {taken + 1}
        <3>1. 1..Len(got') = (1..Len(got)) \union {Len(got) + 1}
            BY <2>2
        <3> QED
            BY <3>1, <2>2, <2>3, <2>4 DEF Elements
    <2>7. 1..taken' = (1..taken) \union {taken + 1}
        BY <1>1
    <2>8. {m \in 1..taken' : Taken(m)'} = {m \in 1..taken : Taken(m)} \union {taken + 1}
        BY <2>7, <1>3, <1>4
    <2> QED
        BY <2>5, <2>6, <2>8 DEF InOrder
<1>5. CASE ~Taken(taken + 1)
    <2>1. got' = got
        BY <1>5
    <2>2. 1..taken' = (1..taken) \union {taken + 1}
        BY <1>1
    <2>3. {m \in 1..taken' : Taken(m)'} = {m \in 1..taken : Taken(m)}
        BY <2>2, <1>3, <1>5
    <2> QED
        BY <2>1, <2>3 DEF InOrder
<1> QED
    BY <1>4, <1>5

\* What was in order stays so in a step that takes nothing.
LEMMA Untaken ==
    ASSUME InOrder, UNCHANGED <<taken, broken, got>>
    PROVE  InOrder'
BY DEF InOrder, Elements, Ascending, Taken

-----------------------------------------------------------------------------
\* Every step preserves the invariant.
LEMMA Step == IInv /\ [Next]_vars => IInv'
<1> USE MaxPropertiesAssumption, WindowAssumption
<1> SUFFICES ASSUME IInv, [Next]_vars PROVE IInv'
    OBVIOUS
<1>t. TypeOK /\ Flight /\ Progress /\ Ending /\ InOrder
    BY DEF IInv
<1>b. bag \in Int /\ bag <= MaxProperties
    BY <1>t DEF TypeOK, Throws
<1>1. CASE Call
    <2>1. TypeOK'
        BY <1>1, <1>t DEF Call, TypeOK, server, caller
    <2>2. Flight' /\ Progress' /\ Ending'
        BY <1>1, <1>t DEF Call, TypeOK, Flight, Progress, Ending, server, caller
    <2>3. InOrder'
        BY <1>1, <1>t, Untaken DEF Call, caller
    <2> QED
        BY <2>1, <2>2, <2>3 DEF IInv
<1>2. CASE Serve
    <2>0. /\ reactor = "none" /\ next = 1 /\ stream = <<>> /\ taken = 0 /\ trailer = None
          /\ UNCHANGED <<bag, broken, stream, abort, reader, taken, got, result>>
        BY <1>2, <1>t DEF Serve, Progress, caller
    <2>1. CASE Finish("CANCELLED") /\ UNCHANGED <<next, reply>>
        <3>1. TypeOK'
            BY <2>0, <2>1, <1>t DEF Finish, TypeOK, Statuses
        <3>2. Flight' /\ Progress' /\ Ending'
            BY <2>0, <2>1, <1>t DEF Finish, TypeOK, Flight, Progress, Ending, None
        <3> QED
            BY <3>1, <3>2, <2>0, <1>t, Untaken DEF IInv
    <2>2. CASE Finish("INTERNAL") /\ UNCHANGED <<next, reply>>
        <3>1. TypeOK'
            BY <2>0, <2>2, <1>t DEF Finish, TypeOK, Statuses
        <3>2. Flight' /\ Progress' /\ Ending'
            BY <2>0, <2>2, <1>t DEF Finish, TypeOK, Flight, Progress, Ending, None
        <3> QED
            BY <3>1, <3>2, <2>0, <1>t, Untaken DEF IInv
    <2>3. CASE bag # Throws /\ Continue(1)
        <3>0. bag \in Nat
            BY <2>3, <1>t DEF TypeOK, Throws
        <3>1. TypeOK'
            BY <2>0, <2>3, <3>0, <1>t, <1>b DEF Continue, More, Advance, Finish, TypeOK, Statuses
        <3>2. Flight' /\ Progress' /\ Ending'
            BY <2>0, <2>3, <3>0, <1>t, <1>b DEF Continue, More, Advance, Finish, TypeOK, Flight,
               Progress, Ending, None
        <3> QED
            BY <3>1, <3>2, <2>0, <1>t, Untaken DEF IInv
    <2> QED
        BY <1>2, <2>1, <2>2, <2>3 DEF Serve
<1>3. CASE Written
    <2>0. /\ reactor = "writing" /\ Len(stream) < Window /\ reply \in 1..bag /\ next = reply + 1
          /\ stream' = IF abort = "lost" THEN stream ELSE Append(stream, reply)
          /\ abort # "lost" => reply = taken + Len(stream) + 1
          /\ trailer = None /\ Continue(next)
          /\ UNCHANGED <<bag, broken, abort, reader, taken, got, result>>
        BY <1>3, <1>t DEF Written, Progress, TypeOK, caller
    <2>1. /\ stream \in Seq(1..MaxProperties) /\ taken \in Nat /\ Len(stream) \in Nat
          /\ reply \in 1..MaxProperties /\ bag \in 1..MaxProperties
        BY <2>0, <1>t, <1>b DEF TypeOK
    <2>2. /\ stream' \in Seq(1..MaxProperties) /\ Len(stream') <= Window
          /\ Len(stream') = IF abort = "lost" THEN Len(stream) ELSE Len(stream) + 1
          /\ taken + Len(stream') <= MaxProperties
        <3>1. CASE abort = "lost"
            BY <2>0, <2>1, <3>1, <1>t DEF TypeOK, Progress
        <3>2. CASE abort # "lost"
            <4>1. stream' = Append(stream, reply)
                BY <2>0, <3>2
            <4>2. stream' \in Seq(1..MaxProperties) /\ Len(stream') = Len(stream) + 1
                BY <4>1, <2>1
            <4> QED
                BY <4>2, <2>0, <2>1, <3>2, <1>b
        <3> QED
            BY <3>1, <3>2
    <2>3. TypeOK'
        BY <2>0, <2>1, <2>2, <1>t DEF Continue, More, Advance, Finish, TypeOK, Statuses
    <2>4. Flight'
        <3>1. SUFFICES ASSUME NEW i \in 1..Len(stream') PROVE stream'[i] = taken + i
            BY <2>0 DEF Flight
        <3>2. CASE abort = "lost"
            BY <2>0, <3>1, <3>2, <1>t DEF Flight
        <3>3. CASE abort # "lost"
            <4>1. stream' = Append(stream, reply) /\ reply = taken + Len(stream) + 1
                BY <2>0, <3>3
            <4>2. CASE i \in 1..Len(stream)
                BY <4>1, <4>2, <2>1, <1>t DEF Flight
            <4>3. CASE i = Len(stream) + 1
                BY <4>1, <4>3, <2>1
            <4> QED
                BY <3>1, <3>3, <4>2, <4>3, <2>1, <2>2
        <3> QED
            BY <3>2, <3>3
    <2>5. Progress'
        <3>1. CASE More(next)
            <4>1. reactor' = "writing" /\ reply' = next /\ next' = next + 1 /\ trailer' = None
                BY <2>0, <3>1 DEF Continue, Advance
            <4>2. abort # "lost" => reply' = taken + Len(stream') + 1
                BY <4>1, <2>0, <2>1, <2>2
            <4> QED
                BY <4>1, <4>2, <2>0, <2>1, <2>2 DEF Progress, None
        <3>2. CASE ~More(next)
            <4>1. reactor' = "finished" /\ trailer' = IF abort = None THEN "OK" ELSE None
                BY <2>0, <3>2 DEF Continue, Finish
            <4>2. reply = bag
                BY <3>2, <2>0, <2>1 DEF More
            <4>3. abort = None => bag = taken + Len(stream')
                BY <4>2, <2>0, <2>1, <2>2 DEF None
            <4> QED
                BY <4>1, <4>3, <2>0, <2>2 DEF Progress, None
        <3> QED
            BY <3>1, <3>2
    <2>6. Ending'
        BY <2>0, <1>t DEF Ending, None
    <2> QED
        BY <2>0, <2>3, <2>4, <2>5, <2>6, <1>t, Untaken DEF IInv
<1>4. CASE WriteFailed
    <2>1. TypeOK'
        BY <1>4, <1>t DEF WriteFailed, FinishFailed, Finish, TypeOK, Statuses, caller
    <2>2. Flight' /\ Progress' /\ Ending'
        BY <1>4, <1>t DEF WriteFailed, FinishFailed, Finish, TypeOK, Flight, Progress, Ending,
           None, caller
    <2>3. InOrder'
        BY <1>4, <1>t, Untaken DEF WriteFailed, caller
    <2> QED
        BY <2>1, <2>2, <2>3 DEF IInv
<1>5. CASE Freed
    <2>1. TypeOK'
        BY <1>5, <1>t DEF Freed, TypeOK, caller
    <2>2. Flight' /\ Progress' /\ Ending'
        BY <1>5, <1>t DEF Freed, TypeOK, Flight, Progress, Ending, caller
    <2>3. InOrder'
        BY <1>5, <1>t, Untaken DEF Freed, caller
    <2> QED
        BY <2>1, <2>2, <2>3 DEF IInv
<1>6. CASE ReadDone
    <2>0. /\ reader = "reading" /\ stream # <<>> /\ taken' = taken + 1 /\ stream' = Tail(stream)
          /\ reader' = "reading"
          /\ UNCHANGED <<bag, broken, reactor, next, reply, trailer, result>>
          /\ abort' \in {abort} \union (IF abort = None THEN {None, "cancelled"} ELSE {abort})
        BY <1>6 DEF ReadDone, ReadOn, server
    <2>1. /\ stream \in Seq(1..MaxProperties) /\ taken \in Nat /\ Len(stream) \in Nat \ {0}
          /\ Len(stream) <= Window /\ taken + Len(stream) <= MaxProperties
        BY <2>0, <1>t DEF TypeOK, Progress
    <2>2. /\ Head(stream) = taken + 1 /\ taken + 1 \in 1..MaxProperties
          /\ Len(stream') = Len(stream) - 1 /\ stream' \in Seq(1..MaxProperties)
          /\ \A i \in 1..Len(stream') : stream'[i] = stream[i + 1]
        BY <2>0, <2>1, <1>t DEF Flight
    <2>3. /\ got' = IF Taken(taken + 1) THEN Append(got, taken + 1) ELSE got
          /\ got' \in Seq(1..MaxProperties)
        <3>1. got' = IF Taken(taken + 1) THEN Append(got, taken + 1) ELSE got
            BY <1>6, <2>2 DEF ReadDone
        <3>2. got \in Seq(1..MaxProperties)
            BY <1>t DEF TypeOK
        <3>3. Append(got, taken + 1) \in Seq(1..MaxProperties)
            BY <3>2, <2>2
        <3> QED
            BY <3>1, <3>2, <3>3
    <2>4. abort' \in {None, "cancelled", "lost"} /\ (abort = "lost" <=> abort' = "lost")
        BY <2>0, <1>t DEF TypeOK, None
    <2>5. TypeOK'
        BY <2>0, <2>1, <2>2, <2>3, <2>4, <1>t DEF TypeOK
    <2>6. Flight'
        BY <2>0, <2>1, <2>2, <1>t DEF Flight
    <2>7. Progress'
        BY <2>0, <2>1, <2>2, <2>4, <1>t DEF Progress
    <2>8. Ending'
        BY <2>0, <1>t DEF Ending
    <2>9. InOrder'
        BY <2>0, <2>3, <1>t, TakenInOrder
    <2> QED
        BY <2>5, <2>6, <2>7, <2>8, <2>9 DEF IInv
<1>7. CASE ReadEnds
    <2>1. TypeOK'
        BY <1>7, <1>t DEF ReadEnds, TypeOK, server, caller
    <2>2. Flight' /\ Progress' /\ Ending'
        BY <1>7, <1>t DEF ReadEnds, TypeOK, Flight, Progress, Ending, server, caller
    <2>3. InOrder'
        BY <1>7, <1>t, Untaken DEF ReadEnds, caller
    <2> QED
        BY <2>1, <2>2, <2>3 DEF IInv
<1>8. CASE Done
    <2>0. /\ reader' = "freed"
          /\ UNCHANGED <<bag, broken, reactor, next, reply, stream, trailer, abort, taken, got>>
          /\ result' \in {"error", "ended"}
        BY <1>8 DEF Done, server
    <2>1. result' = "ended" => trailer = "OK" /\ stream = <<>>
        <3>1. SUFFICES ASSUME result' = "ended" PROVE trailer = "OK" /\ stream = <<>>
            OBVIOUS
        <3>2. "OK" \in Status
            BY <1>8, <3>1 DEF Done, Tell
        <3>3. abort = None => stream = <<>> /\ trailer # None
            BY <1>8 DEF Done
        <3>4. abort # "OK"
            BY <1>t DEF TypeOK, None
        <3> QED
            BY <3>2, <3>3, <3>4 DEF Status
    <2>2. TypeOK'
        BY <2>0, <1>t DEF TypeOK
    <2>3. Flight' /\ Progress'
        BY <2>0, <1>t DEF Flight, Progress
    <2>4. Ending'
        BY <2>0, <2>1 DEF Ending
    <2> QED
        BY <2>0, <2>2, <2>3, <2>4, <1>t, Untaken DEF IInv
<1>9. CASE Lose
    <2>1. TypeOK'
        BY <1>9, <1>t DEF Lose, TypeOK, server, caller
    <2>2. Flight' /\ Progress' /\ Ending'
        BY <1>9, <1>t DEF Lose, TypeOK, Flight, Progress, Ending, server, caller
    <2>3. InOrder'
        BY <1>9, <1>t, Untaken DEF Lose, caller
    <2> QED
        BY <2>1, <2>2, <2>3 DEF IInv
<1>10. CASE UNCHANGED vars
    <2>1. TypeOK'
        BY <1>10, <1>t DEF vars, TypeOK
    <2>2. Flight' /\ Progress' /\ Ending'
        BY <1>10, <1>t DEF vars, Flight, Progress, Ending
    <2>3. InOrder'
        BY <1>10, <1>t, Untaken DEF vars
    <2> QED
        BY <2>1, <2>2, <2>3 DEF IInv
<1> QED
    BY <1>1, <1>2, <1>3, <1>4, <1>5, <1>6, <1>7, <1>8, <1>9, <1>10
    DEF Next, ServerStep, ClientStep, Terminated

-----------------------------------------------------------------------------
\* The invariant holds throughout.
LEMMA Invariance == Spec => []IInv
<1>1. Init => IInv
    BY Start
<1>2. IInv /\ [Next]_vars => IInv'
    BY Step
<1> QED
    BY <1>1, <1>2, PTL DEF Spec

\* Every variable keeps its type: a write is outstanding only for a property that was
\* found, and no more messages are in flight than there is room for.
THEOREM TypeCorrect == Spec => []TypeOK
<1>1. IInv => TypeOK
    BY DEF IInv
<1> QED
    BY <1>1, Invariance, PTL

\* The handler gets the properties in order, each once, and all of those that have been
\* read but for the ones that throw, whether or not the call is cancelled or the
\* connection is lost.
THEOREM HandlerInOrder == Spec => []InOrder
<1>1. IInv => InOrder
    BY DEF IInv
<1> QED
    BY <1>1, Invariance, PTL

\* A call that ends without onError() has brought all the properties that were found:
\* no cancellation, lost connection or failure of the server looks like the end of the
\* stream.
THEOREM NothingCutShort == Spec => []AllOrError
<1> USE MaxPropertiesAssumption
<1>1. IInv => AllOrError
    <2>1. SUFFICES ASSUME IInv, result = "ended"
                   PROVE  bag # Throws /\ Elements(got) = {m \in 1..bag : Taken(m)}
        BY DEF AllOrError
    <2>2. trailer = "OK" /\ stream = <<>>
        BY <2>1 DEF IInv, Ending
    <2>3. bag = taken /\ taken \in Nat
        BY <2>1, <2>2 DEF IInv, Progress, TypeOK
    <2> QED
        BY <2>1, <2>3 DEF IInv, InOrder, Throws
<1> QED
    BY <1>1, Invariance, PTL

-----------------------------------------------------------------------------
(***************************************************************************)
(* Why the call ends.  Two facts stand in for liveness, which needs        *)
(* ENABLED: no step leaves as much to do as there was, and whenever one of *)
(* the two sides is not freed yet one of them has a step.                  *)
(***************************************************************************)
ServerWork ==
    CASE reactor = "none"     -> 2 * MaxProperties + 4
      [] reactor = "writing"  -> 2 * (bag - reply) + 3
      [] reactor = "finished" -> 1
      [] OTHER                -> 0

ReaderWork ==
    CASE reader = "none"    -> 3
      [] reader = "reading" -> 2
      [] reader = "freed"   -> 0
      [] OTHER              -> 1

\* What there is left to do: writes and reads, the end of both sides, and one abort.
Work == ServerWork + Len(stream) + ReaderWork + (IF abort = None THEN 1 ELSE 0)

\* When a side is through, there is a reason for it.
Reasons ==
    /\ reactor \in {"none", "writing"} => trailer = None
    /\ reactor \in {"finished", "freed"} => trailer # None \/ abort # None
    /\ reader \in {"ended", "stopped", "freed"} => abort # None \/ (stream = <<>> /\ trailer # None)

\* The guards of ServerStep ...
ServerReady ==
    \/ reactor = "none" /\ reader # "none"
    \/ reactor = "writing" /\ (Len(stream) < Window \/ abort # None)
    \/ reactor = "finished"

\* ... and of ClientStep.
ClientReady ==
    \/ reader = "reading" /\ (stream # <<>> \/ trailer # None \/ abort # None)
    \/ reader \in {"ended", "stopped"} /\ (abort # None \/ (stream = <<>> /\ trailer # None))

\* Neither side waits for ever for the other.
NeverStuck ==
    \/ reader = "none"
    \/ reader = "freed" /\ reactor = "freed"
    \/ ServerReady
    \/ ClientReady

\* What there is to do is a number in every state.
Numbers == Len(stream) \in Nat /\ ServerWork \in Nat /\ ReaderWork \in Nat /\ Work \in Nat

LEMMA WorkIsNumber == TypeOK => Numbers
<1> USE MaxPropertiesAssumption
<1> SUFFICES ASSUME TypeOK PROVE Numbers
    OBVIOUS
<1>1. Len(stream) \in Nat
    BY DEF TypeOK
<1>2. reactor = "writing" => bag - reply \in Nat
    BY DEF TypeOK, Throws
<1>3. ServerWork \in Nat
    BY <1>2 DEF ServerWork
<1>4. ReaderWork \in Nat
    BY DEF ReaderWork
<1> QED
    BY <1>1, <1>3, <1>4 DEF Work, Numbers

LEMMA WorkIsNumberNext == TypeOK' => Numbers'
BY WorkIsNumber, PTL

\* Finish() is worth less than anything the reactor could still do.
LEMMA FinishIsLess ==
    ASSUME TypeOK, reactor \in {"none", "writing"}, NEW status, Finish(status)
    PROVE  ServerWork' <= ServerWork - 2
<1> USE MaxPropertiesAssumption
<1>1. ServerWork' = 1
    BY DEF Finish, ServerWork
<1>2. reactor = "writing" => bag - reply \in Nat
    BY DEF TypeOK, Throws
<1>3. ServerWork \in Nat /\ ServerWork >= 3
    BY <1>2 DEF ServerWork
<1> QED
    BY <1>1, <1>3

\* A write that was started leaves two things less to do: the message and its reading
\* are one of them each.
LEMMA ContinueIsLess ==
    ASSUME IInv, TypeOK', UNCHANGED bag,
           \/ reactor = "none" /\ bag # Throws /\ Continue(1)
           \/ reactor = "writing" /\ Continue(next)
    PROVE  ServerWork' <= ServerWork - 2
<1> USE MaxPropertiesAssumption
<1>1. TypeOK /\ TypeOK' /\ Progress
    BY DEF IInv
<1>2. PICK n : Continue(n) /\ ((reactor = "none" /\ n = 1) \/ (reactor = "writing" /\ n = reply + 1))
    BY <1>1 DEF Progress
<1>3. CASE More(n)
    <2>1. reactor' = "writing" /\ reply' = n /\ n <= bag
        BY <1>2, <1>3 DEF Continue, More
    <2>2. ServerWork' = 2 * (bag - n) + 3
        BY <2>1 DEF ServerWork
    <2>3. bag \in Int /\ bag <= MaxProperties /\ reply \in Int
        BY <1>1 DEF TypeOK, Throws
    <2>4. CASE reactor = "none"
        <3>1. n = 1 /\ ServerWork = 2 * MaxProperties + 4
            BY <2>4, <1>2 DEF ServerWork
        <3> QED
            BY <3>1, <2>2, <2>3
    <2>5. CASE reactor = "writing"
        <3>1. n = reply + 1 /\ ServerWork = 2 * (bag - reply) + 3
            BY <2>5, <1>2 DEF ServerWork
        <3> QED
            BY <3>1, <2>2, <2>3
    <2> QED
        BY <1>2, <2>4, <2>5
<1>4. CASE ~More(n)
    BY <1>1, <1>2, <1>4, FinishIsLess DEF Continue
<1> QED
    BY <1>3, <1>4

\* Every step leaves less to do.
LEMMA WorkStep == IInv /\ TypeOK' /\ Next => Work' < Work \/ UNCHANGED vars
<1> SUFFICES ASSUME IInv, TypeOK', Next PROVE Work' < Work \/ UNCHANGED vars
    OBVIOUS
<1> DEFINE aborts == IF abort = None THEN 1 ELSE 0
<1>1. TypeOK
    BY DEF IInv
<1>2. /\ Len(stream) \in Nat /\ ServerWork \in Nat /\ ReaderWork \in Nat
      /\ aborts \in {0, 1} /\ Work = ServerWork + Len(stream) + ReaderWork + aborts
    BY <1>1, WorkIsNumber DEF Work, Numbers
<1>3. /\ Len(stream') \in Nat /\ ServerWork' \in Nat /\ ReaderWork' \in Nat
      /\ aborts' \in {0, 1} /\ Work' = ServerWork' + Len(stream') + ReaderWork' + aborts'
    BY WorkIsNumberNext DEF Work, Numbers
<1> HIDE DEF aborts
<1>4. CASE Call
    <2>1. UNCHANGED <<bag, server, stream, abort>> /\ reader = "none" /\ reader' = "reading"
        BY <1>4 DEF Call
    <2>2. ServerWork' = ServerWork /\ Len(stream') = Len(stream) /\ aborts' = aborts
        BY <2>1 DEF ServerWork, server, aborts
    <2>3. ReaderWork' < ReaderWork
        BY <2>1 DEF ReaderWork, aborts
    <2> QED
        BY <1>2, <1>3, <2>2, <2>3
<1>5. CASE Serve
    <2>1. UNCHANGED <<bag, stream, abort, reader>>
        BY <1>5 DEF Serve
    <2>2. ServerWork' < ServerWork
        <3>1. \/ \E status : reactor = "none" /\ Finish(status)
              \/ reactor = "none" /\ bag # Throws /\ Continue(1)
            BY <1>5 DEF Serve
        <3>2. ServerWork' <= ServerWork - 2
            BY <1>1, <2>1, <3>1, FinishIsLess, ContinueIsLess
        <3> QED
            BY <1>2, <1>3, <3>2
    <2>3. ReaderWork' = ReaderWork /\ Len(stream') = Len(stream) /\ aborts' = aborts
        BY <2>1 DEF ReaderWork, aborts
    <2> QED
        BY <1>2, <1>3, <2>2, <2>3
<1>6. CASE Written
    <2>1. UNCHANGED <<bag, abort, reader>> /\ reactor = "writing" /\ Continue(next)
        BY <1>6 DEF Written
    <2>2. Len(stream') <= Len(stream) + 1
        BY <1>1, <1>6 DEF Written, TypeOK
    <2>3. ServerWork' <= ServerWork - 2
        BY <2>1, ContinueIsLess
    <2>4. ReaderWork' = ReaderWork /\ aborts' = aborts
        BY <2>1 DEF ReaderWork, aborts
    <2> QED
        BY <1>2, <1>3, <2>2, <2>3, <2>4
<1>7. CASE WriteFailed
    <2>1. UNCHANGED <<stream, abort, reader>> /\ reactor = "writing" /\ Finish("CANCELLED")
        BY <1>7 DEF WriteFailed, FinishFailed
    <2>2. ServerWork' <= ServerWork - 2
        BY <1>1, <2>1, FinishIsLess
    <2>3. ReaderWork' = ReaderWork /\ Len(stream') = Len(stream) /\ aborts' = aborts
        BY <2>1 DEF ReaderWork, aborts
    <2> QED
        BY <1>2, <1>3, <2>2, <2>3
<1>8. CASE Freed
    <2>1. UNCHANGED <<stream, abort, reader>> /\ reactor = "finished" /\ reactor' = "freed"
        BY <1>8 DEF Freed
    <2>2. ServerWork' < ServerWork
        BY <2>1 DEF ServerWork
    <2>3. ReaderWork' = ReaderWork /\ Len(stream') = Len(stream) /\ aborts' = aborts
        BY <2>1 DEF ReaderWork, aborts
    <2> QED
        BY <1>2, <1>3, <2>2, <2>3
<1>9. CASE ReadDone
    <2>1. UNCHANGED <<bag, server>> /\ reader' = reader
        BY <1>9 DEF ReadDone, ReadOn
    <2>2. Len(stream') = Len(stream) - 1
        BY <1>1, <1>9 DEF ReadDone, TypeOK
    <2>3. aborts' <= aborts
        BY <1>2, <1>3, <1>9 DEF ReadDone, aborts
    <2>4. ServerWork' = ServerWork /\ ReaderWork' = ReaderWork
        BY <2>1 DEF ServerWork, ReaderWork, server
    <2> QED
        BY <1>2, <1>3, <2>2, <2>3, <2>4
<1>10. CASE ReadEnds \/ Done
    <2>1. UNCHANGED <<bag, server, stream, abort>>
        BY <1>10 DEF ReadEnds, Done
    <2>2. ReaderWork' < ReaderWork
        BY <1>10 DEF ReadEnds, Done, ReaderWork
    <2>3. ServerWork' = ServerWork /\ Len(stream') = Len(stream) /\ aborts' = aborts
        BY <2>1 DEF ServerWork, server, aborts
    <2> QED
        BY <1>2, <1>3, <2>2, <2>3
<1>11. CASE Lose
    <2>1. UNCHANGED <<bag, server, stream, reader>> /\ aborts = 1 /\ aborts' = 0
        BY <1>11 DEF Lose, None, aborts
    <2>2. ServerWork' = ServerWork /\ Len(stream') = Len(stream) /\ ReaderWork' = ReaderWork
        BY <2>1 DEF ServerWork, ReaderWork, server
    <2> QED
        BY <1>2, <1>3, <2>1, <2>2
<1>12. CASE Terminated
    BY <1>12 DEF Terminated
<1> QED
    BY <1>4, <1>5, <1>6, <1>7, <1>8, <1>9, <1>10, <1>11, <1>12 DEF Next, ServerStep, ClientStep

\* A call is a finite number of steps, whatever is cancelled, lost or thrown: each step
\* leaves less to do.
THEOREM CallIsFinite == Spec => [](Work \in Nat) /\ [][Work' < Work]_vars
<1>1. IInv => Work \in Nat
    BY WorkIsNumber DEF IInv, Numbers
<1>2. IInv /\ IInv' /\ [Next]_vars => [Work' < Work]_vars
    BY WorkStep DEF IInv
<1> QED
    BY <1>1, <1>2, Invariance, PTL DEF Spec

LEMMA ReasonsStep == TypeOK /\ Reasons /\ [Next]_vars => Reasons'
<1> SUFFICES ASSUME TypeOK, Reasons, [Next]_vars PROVE Reasons'
    OBVIOUS
<1> USE DEF Reasons, None
<1>1. CASE UNCHANGED vars
    BY <1>1 DEF vars
<1>2. CASE Call
    BY <1>2 DEF Call, server, caller
<1>3. CASE Serve
    BY <1>3 DEF Serve, Finish, Continue
<1>4. CASE Written
    BY <1>4 DEF Written, Finish, Continue
<1>5. CASE WriteFailed
    BY <1>5 DEF WriteFailed, FinishFailed, Finish
<1>6. CASE Freed
    BY <1>6 DEF Freed
<1>7. CASE ReadDone
    BY <1>7 DEF ReadDone, ReadOn, server
<1>8. CASE ReadEnds
    BY <1>8 DEF ReadEnds, server, caller
<1>9. CASE Done
    BY <1>9 DEF Done, server
<1>10. CASE Lose
    BY <1>10 DEF Lose, server, caller
<1>11. CASE Terminated
    BY <1>11 DEF Terminated, vars
<1> QED
    BY <1>1, <1>2, <1>3, <1>4, <1>5, <1>6, <1>7, <1>8, <1>9, <1>10, <1>11 DEF Next, ServerStep,
       ClientStep

\* The server and the client never wait for each other: after the call was made, and
\* until both are freed, one of them has a step that needs nobody else.
THEOREM NobodyIsStuck == Spec => []NeverStuck
<1>1. Init => Reasons
    BY DEF Init, Reasons, None
<1>2. IInv => TypeOK
    BY DEF IInv
<1>3. IInv /\ Reasons => NeverStuck
    <2>1. SUFFICES ASSUME IInv, Reasons, ~ServerReady, reader # "none",
                          ~(reader = "freed" /\ reactor = "freed")
                   PROVE  ClientReady
        BY DEF NeverStuck
    <2>2. TypeOK /\ Window \in Nat \ {0}
        BY <2>1, WindowAssumption DEF IInv
    <2>3. CASE reactor = "writing"
        <3>1. abort = None /\ Len(stream) >= Window /\ trailer = None
            BY <2>1, <2>2, <2>3 DEF ServerReady, Reasons, TypeOK
        <3>2. stream # <<>>
            BY <2>2, <3>1
        <3> QED
            BY <2>1, <2>2, <3>1, <3>2 DEF Reasons, ClientReady, TypeOK
    <2>4. CASE reactor = "freed"
        BY <2>1, <2>2, <2>4 DEF Reasons, ClientReady, TypeOK
    <2> QED
        BY <2>1, <2>2, <2>3, <2>4 DEF ServerReady, TypeOK
<1> QED
    BY <1>1, <1>2, <1>3, ReasonsStep, Invariance, PTL DEF Spec
=============================================================================
