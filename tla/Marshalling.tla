----------------------------- MODULE Marshalling -----------------------------
(***************************************************************************)
(* What properties and errors look like at the other end of a connection:  *)
(* marshalProperty() and marshalException() and their inverses             *)
(* (src/ipc/grpc/grpc-common-lib/protocol.cxx), the registry of error      *)
(* categories (src/rtl-lib/error.cxx) and the message of an exception      *)
(* (src/rtl-lib/exception.cxx).                                            *)
(*                                                                         *)
(* A property is a record of name, semantics, type and value; the value of *)
(* a map is a function from names to properties.  A message of the wire    *)
(* has a name and at most one of a scalar, an object or an array.          *)
(* Protocol buffers deliver the entries of an object in any order.         *)
(***************************************************************************)
EXTENDS Integers, Sequences, FiniteSets, SequencesExt, Functions

CONSTANTS
    Properties,     \* the properties that are sent
    Errors,         \* the errors that are sent: category, code and properties
    Local,          \* the categories that cannot be sent
    Registered,     \* the categories that the receiver has registered
    Text(_, _),     \* message() of a category for a code
    NoText          \* the empty string

VARIABLES
    sent,           \* the property on its way, or NothingSent
    arrived,        \* what unmarshalProperty() has made of it
    error,          \* the error on its way, or NothingSent
    caught          \* what unmarshalException() has made of it

vars == <<sent, arrived, error, caught>>

NothingSent == [type |-> "nothing"]
Success == 0
Internal == [category |-> "Erebus", code |-> 2]     \* GenericError, Result::Internal

Empty == [type |-> "Empty", name |-> "", semantics |-> "default", value |-> NoText]

-----------------------------------------------------------------------------
(***************************************************************************)
(* Properties.                                                             *)
(***************************************************************************)

\* marshalProperty().  The semantics stay behind, and an empty property has a
\* name but no value.
RECURSIVE Marshal(_)
Marshal(p) ==
    [type |-> p.type, name |-> p.name,
     value |-> IF p.type \in {"Map", "Vector"} THEN [i \in DOMAIN p.value |-> Marshal(p.value[i])] ELSE p.value]

\* addProperty() to a map of one property after the other: it does not overwrite.
AddProperties(props) ==
    [n \in {p.name : p \in Range(props)} |-> props[SelectInSeq(props, LAMBDA p : p.name = n)]]

\* The functions that choose from each of the sets in "sets", and the orders in
\* which the entries of a map may be met.
Picks(sets) == {f \in [DOMAIN sets -> UNION Range(sets)] : \A i \in DOMAIN sets : f[i] \in sets[i]}
Orders(names) == {s \in [1..Cardinality(names) -> names] : Range(s) = names}

Received(m, value) == [type |-> m.type, name |-> m.name, semantics |-> "default", value |-> value]

\* unmarshalVector() and unmarshalMap(), "items" being what the entries become.
WithoutEmpty(m, items) == Received(m, SelectSeq(items, LAMBDA p : p.type # "Empty"))   \* mutant of UnmarshalVector
UnmarshalVector(m, items) == Received(m, items)
UnmarshalMap(m, items, order) == Received(m, AddProperties([i \in DOMAIN order |-> items[order[i]]]))

\* unmarshalProperty(): the properties that "m" may become.
RECURSIVE Unmarshal(_)
Unmarshal(m) ==
    CASE m.type = "Empty" -> {Empty}
      [] m.type = "Vector" ->
            {UnmarshalVector(m, items) : items \in Picks([i \in DOMAIN m.value |-> Unmarshal(m.value[i])])}
      [] m.type = "Map" ->
            {UnmarshalMap(m, items, order) :
                items \in Picks([n \in DOMAIN m.value |-> Unmarshal(m.value[n])]), order \in Orders(DOMAIN m.value)}
      [] OTHER -> {Received(m, m.value)}

Idle == sent = NothingSent /\ error = NothingSent

SendProperty ==
    /\ Idle
    /\ sent' \in Properties
    /\ arrived' \in Unmarshal(Marshal(sent'))
    /\ UNCHANGED <<error, caught>>

-----------------------------------------------------------------------------
(***************************************************************************)
(* Errors.                                                                 *)
(***************************************************************************)

Message(text) == [type |-> "String", name |-> "message", semantics |-> "default", value |-> text]

\* findProperty(..., Message::Name, String): the first property of that name, if
\* it is a string.
HasMessage(props) ==
    LET i == SelectInSeq(props, LAMBDA p : p.name = "message") IN i # 0 /\ props[i].type = "String"
MessageOf(props) == props[SelectInSeq(props, LAMBDA p : p.name = "message")].value

\* Exception::decode(): a message is made from the code if there is none.
Decode(e) ==
    IF HasMessage(e.properties) \/ e.code = Success \/ Text(e.category, e.code) = NoText THEN e
    ELSE [e EXCEPT !.properties = Append(@, Message(Text(e.category, e.code)))]

\* What decode() returns.
TextOf(e) == LET d == Decode(e) IN IF HasMessage(d.properties) THEN MessageOf(d.properties) ELSE NoText

\* marshalException(): a local category is replaced by its message, which comes
\* first; the code and the category are left out then.
MarshalException(e) ==
    LET props == [i \in DOMAIN e.properties |-> Marshal(e.properties[i])]
    IN  IF e.category \in Local
          THEN [error |-> {}, properties |-> <<Marshal(Message(Text(e.category, e.code)))>> \o props]
          ELSE [error |-> {[category |-> e.category, code |-> e.code]}, properties |-> props]

\* marshalError()
Undecoded(e) == MarshalException(e)      \* mutant
MarshalError(e) == MarshalException(Decode(e))

\* The error that unmarshalException() makes; what it does not know or what says
\* Success becomes an internal error.
IsKnown(w) == \E err \in w.error : err.category \in Registered /\ err.code # Success

UnmarshalException(w) ==
    LET err == IF IsKnown(w) THEN CHOOSE err \in w.error : TRUE ELSE Internal
    IN  {[category |-> err.category, code |-> err.code, properties |-> props] :
            props \in Picks([i \in DOMAIN w.properties |-> Unmarshal(w.properties[i])])}

SendError ==
    /\ Idle
    /\ error' \in Errors
    /\ caught' \in UnmarshalException(MarshalError(error'))
    /\ UNCHANGED <<sent, arrived>>

\* What has arrived is used up.
Used ==
    /\ ~Idle
    /\ sent' = NothingSent /\ arrived' = NothingSent
    /\ error' = NothingSent /\ caught' = NothingSent

-----------------------------------------------------------------------------
Init ==
    /\ sent = NothingSent /\ arrived = NothingSent
    /\ error = NothingSent /\ caught = NothingSent

Next == SendProperty \/ SendError \/ Used

Spec == Init /\ [][Next]_vars

-----------------------------------------------------------------------------
(***************************************************************************)
(* Properties of the model.                                                *)
(***************************************************************************)

\* What has to arrive of property "p": its name, type and value, short of the
\* empty properties, which keep their places in vectors and nothing else, and of
\* what they hide in a map under the name "", which all of them are given.
RECURSIVE Keeps(_, _)
Keeps(p, q) ==
    /\ p.type = q.type
    /\ p.type # "Empty" => p.name = q.name
    /\ CASE p.type = "Vector" -> DOMAIN p.value = DOMAIN q.value /\ \A i \in DOMAIN p.value : Keeps(p.value[i], q.value[i])
         [] p.type = "Map" ->
                LET full == {n \in DOMAIN p.value : p.value[n].type # "Empty"}
                    allFull == full = DOMAIN p.value
                IN  /\ \A n \in full : n # "" \/ allFull => n \in DOMAIN q.value /\ Keeps(p.value[n], q.value[n])
                    /\ DOMAIN q.value = full \union (IF allFull THEN {} ELSE {""})
         [] OTHER -> p.value = q.value

ErrorKept ==
    LET known == error.category \in Registered \ Local
        text == IF error.category \in Local THEN Text(error.category, error.code) ELSE TextOf(error)
    IN  /\ caught.code # Success
        /\ [category |-> caught.category, code |-> caught.code] =
             IF known THEN [category |-> error.category, code |-> error.code] ELSE Internal
        /\ text # NoText => TextOf(caught) = text
        /\ \E i \in 0..1 : \A k \in DOMAIN error.properties : Keeps(error.properties[k], caught.properties[k + i])

\* Trees of properties arrive whole, in whatever order the entries of their maps
\* were delivered: every property that is not empty has its value and its place.
\* An error arrives as an error, with its category and code if the receiver can
\* know them; the text that the sender would have shown, or that of its category
\* if that is local, is the one that the receiver shows; and every property of
\* the sender arrives, in order.
Arrives ==
    /\ sent # NothingSent => Keeps(sent, arrived)
    /\ error # NothingSent => ErrorKept
=============================================================================
