--------------------------------- MODULE Tee ---------------------------------
(***************************************************************************)
(* The tee of a logger (src/rtl-lib/logger/tee.cxx): sinks by name, that   *)
(* any thread writes to, adds, removes and finds.  A sink is counted by    *)
(* the pointers to it (ReferenceCountedPtr of erebus/iunknown.hxx, and     *)
(* ReferenceCountedBase of erebus/rtl/util/unknown_base.hxx) and deleted   *)
(* by the release() of the last.                                           *)
(***************************************************************************)
EXTENDS Integers, FiniteSets

CONSTANTS
    Threads,
    Names,          \* the names of sinks
    Pointers,       \* the SinkPtr variables that each thread has
    MaxSinks,       \* bound: the sinks made
    None

VARIABLES
    sinks,          \* m_sinks: what is under each name
    refs,           \* m_refs of each sink
    alive,          \* the sinks that have not been deleted
    made,           \* how many have been made
    pointer,        \* what each pointer of each thread points to
    call            \* the call of the tee that each thread is in

vars == <<sinks, refs, alive, made, pointer, call>>

Sinks == 1..MaxSinks

\* A call: the name it is about, its parameter, the sinks it has yet to visit, and the
\* one that it uses just now.
Calling(kind, n, sink, left) == [kind |-> kind, name |-> n, parameter |-> sink, left |-> left, at |-> None]
Idle == Calling("none", None, None, {})

Init ==
    /\ sinks = [n \in Names |-> None]
    /\ refs = [s \in Sinks |-> 0]
    /\ alive = {} /\ made = 0
    /\ pointer = [t \in Threads |-> [p \in Pointers |-> None]]
    /\ call = [t \in Threads |-> Idle]

-----------------------------------------------------------------------------
(***************************************************************************)
(* Reference counts.                                                       *)
(***************************************************************************)

AddRef(counts, s) == IF s = None THEN counts ELSE [counts EXCEPT ![s] = @ + 1]
Release(counts, s) == IF s = None THEN counts ELSE [counts EXCEPT ![s] = @ - 1]

\* The counts are now these; a sink whose count has come to zero is deleted.
Count(counts) ==
    /\ refs' = counts
    /\ alive' = {s \in alive : counts[s] > 0}

\* A new sink has one reference, that of the pointer it is made for.
MakeSink(t, p) ==
    /\ made < MaxSinks /\ pointer[t][p] = None
    /\ made' = made + 1
    /\ refs' = [refs EXCEPT ![made'] = 1]
    /\ alive' = alive \union {made'}
    /\ pointer' = [pointer EXCEPT ![t][p] = made']
    /\ UNCHANGED <<sinks, call>>

Assign(t, p, s) == pointer' = [pointer EXCEPT ![t][p] = s]

CopyPointer(t, p, q) ==
    /\ pointer[t][p] # pointer[t][q]
    /\ Assign(t, p, pointer[t][q])
    /\ Count(Release(AddRef(refs, pointer[t][q]), pointer[t][p]))
    /\ UNCHANGED <<sinks, made, call>>

\* Nothing moves between two pointers to the same sink.
MovePointer(t, p, q) ==
    /\ pointer[t][p] # pointer[t][q]
    /\ pointer' = [pointer EXCEPT ![t][p] = pointer[t][q], ![t][q] = None]
    /\ Count(Release(refs, pointer[t][p]))
    /\ UNCHANGED <<sinks, made, call>>

Reset(t, p) ==
    /\ pointer[t][p] # None
    /\ Assign(t, p, None)
    /\ Count(Release(refs, pointer[t][p]))
    /\ UNCHANGED <<sinks, made, call>>

-----------------------------------------------------------------------------
(***************************************************************************)
(* Calls of the tee.                                                       *)
(***************************************************************************)

Update(t, c) == call' = [call EXCEPT ![t] = c]
InCall(t, kinds) == call[t].kind \in kinds

\* The mutex is shared by write() and flush(); the other calls have it alone.
Sharing == {"write", "flush"}
AllShare(t, kind) ==                        \* mutant: every call takes a shared lock
    TRUE
MayEnter(t, kind) ==
    \A u \in Threads \ {t} :
        InCall(u, {"none", "leaving"} \union IF kind \in Sharing THEN Sharing ELSE {})

Enter(t, kind, n, sink, left) ==
    /\ InCall(t, {"none"}) /\ MayEnter(t, kind)
    /\ Update(t, Calling(kind, n, sink, left))
    /\ Count(AddRef(refs, sink))
    /\ UNCHANGED <<sinks, made, pointer>>

\* write() and flush() go through all sinks ...
BeginVisits(t, kind) == Enter(t, kind, None, None, {n \in Names : sinks[n] # None})
Visit(t) ==
    /\ InCall(t, Sharing) /\ call[t].at = None
    /\ \E n \in call[t].left : Update(t, [call[t] EXCEPT !.left = @ \ {n}, !.at = sinks[n]])
    /\ UNCHANGED <<sinks, refs, alive, made, pointer>>

Written(t) ==
    /\ InCall(t, {"write"}) /\ call[t].at # None
    /\ Update(t, [call[t] EXCEPT !.at = None])
    /\ UNCHANGED <<sinks, refs, alive, made, pointer>>

\* ... but flush() leaves out those after the first one that succeeds.
Flushed(t) ==
    /\ InCall(t, {"flush"}) /\ call[t].at # None
    /\ \E ok \in BOOLEAN : Update(t, [call[t] EXCEPT !.at = None, !.left = IF ok THEN {} ELSE @])
    /\ UNCHANGED <<sinks, refs, alive, made, pointer>>

EndVisits(t) ==
    /\ InCall(t, Sharing) /\ call[t].left = {} /\ call[t].at = None
    /\ Update(t, Idle)
    /\ UNCHANGED <<sinks, refs, alive, made, pointer>>

\* The mutex is released; the parameter goes last.
Leaving(t) == Update(t, [call[t] EXCEPT !.kind = "leaving", !.at = None])
Leave(t) ==
    /\ InCall(t, {"leaving"})
    /\ Update(t, Idle)
    /\ Count(Release(refs, call[t].parameter))
    /\ UNCHANGED <<sinks, made, pointer>>

\* addSink(): the name must be free, ErAssert() ends the process if it is not.
AddSink(t) ==
    /\ InCall(t, {"add"})
    /\ IF sinks[call[t].name] = None
       THEN /\ sinks' = [sinks EXCEPT ![call[t].name] = call[t].parameter]
            /\ Count(AddRef(refs, call[t].parameter))
            /\ Leaving(t)
       ELSE Update(t, [call[t] EXCEPT !.kind = "aborted"]) /\ UNCHANGED <<sinks, refs, alive>>
    /\ UNCHANGED <<made, pointer>>

RemoveSink(t) ==
    /\ InCall(t, {"remove"})
    /\ sinks' = [sinks EXCEPT ![call[t].name] = None]
    /\ Count(Release(refs, sinks[call[t].name]))
    /\ Leaving(t)
    /\ UNCHANGED <<made, pointer>>

\* findSink(): what has been found is copied before the mutex is released.
FindSink(t) ==
    /\ InCall(t, {"find"})
    /\ Update(t, [call[t] EXCEPT !.kind = "found", !.at = sinks[call[t].name]])
    /\ UNCHANGED <<sinks, refs, alive, made, pointer>>
CopyFound(t, p) ==
    /\ InCall(t, {"found"})
    /\ Assign(t, p, call[t].at)
    /\ Count(Release(AddRef(refs, call[t].at), pointer[t][p]))
    /\ Leaving(t)
    /\ UNCHANGED <<sinks, made>>

\* ~Tee(), after its last call; the next one starts empty too.
Destroy ==
    /\ \A t \in Threads : InCall(t, {"none"})
    /\ sinks' = [n \in Names |-> None]
    /\ Count([s \in Sinks |-> refs[s] - Cardinality({n \in Names : sinks[n] = s})])
    /\ UNCHANGED <<made, pointer, call>>

Aborted == \E t \in Threads : InCall(t, {"aborted"})
Over == Aborted /\ UNCHANGED vars

OfPointers(t) ==
    \E p \in Pointers :
        \/ MakeSink(t, p) \/ Reset(t, p)
        \/ \E q \in Pointers : CopyPointer(t, p, q) \/ MovePointer(t, p, q)
OfCalls(t) ==
    \/ \E kind \in Sharing : BeginVisits(t, kind)
    \/ \E n \in Names, p \in Pointers : pointer[t][p] # None /\ Enter(t, "add", n, pointer[t][p], {})
    \/ \E n \in Names, kind \in {"remove", "find"} : Enter(t, kind, n, None, {})
    \/ Visit(t) \/ Written(t) \/ Flushed(t) \/ EndVisits(t) \/ Leave(t)
    \/ AddSink(t) \/ RemoveSink(t) \/ FindSink(t) \/ \E p \in Pointers : CopyFound(t, p)

Next ==
    \/ ~Aborted /\ (Destroy \/ \E t \in Threads : (InCall(t, {"none"}) /\ OfPointers(t)) \/ OfCalls(t))
    \/ Over

Spec == Init /\ [][Next]_vars

-----------------------------------------------------------------------------
Owners(s) ==
    Cardinality({n \in Names : sinks[n] = s}) + Cardinality({t \in Threads : call[t].parameter = s})
        + Cardinality({tp \in Threads \X Pointers : pointer[tp[1]][tp[2]] = s})

\* A sink lives for exactly as long as the tee, a pointer or a call has it, whichever
\* thread removes, finds and copies it; and the sink that a record is written to, or
\* that is flushed or found, is still one of the tee's until that is done.
SinksLiveWhileUsed ==
    /\ \A s \in Sinks : refs[s] = Owners(s) /\ (s \in alive <=> Owners(s) > 0)
    /\ \A t \in Threads : call[t].at # None => \E n \in Names : sinks[n] = call[t].at
===============================================================================
