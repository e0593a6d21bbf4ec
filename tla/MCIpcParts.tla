------------------------------ MODULE MCIpcParts ------------------------------
(***************************************************************************)
(* SystemInfoCall, Marshalling and PropertyTree for TLC: what the services *)
(* send, how it is sent and how properties are read.  They share no state, *)
(* so a behaviour is one of any one of them, chosen at the start.  The     *)
(* last two are recursive, and have no theorems.                           *)
(***************************************************************************)
EXTENDS SystemInfoCall, SequencesExt

CONSTANTS
    Local, Registered, NoText,                  \* of Marshalling
    One, Two, Told, OutOfMemory,                \* values of properties and texts
    Names, JsonDepth, PathLength, Width,        \* of PropertyTree
    Characters                                  \* the value of a string

VARIABLES
    part,                                       \* the part that runs
    sent, arrived, error, caught,               \* of Marshalling
    document, other, tree, otherTree            \* of PropertyTree

-----------------------------------------------------------------------------
\* What Marshalling sends: scalars, maps and vectors of them, and one more level,
\* with empty properties in every place.
PropertyOf(type, name, value) == [type |-> type, name |-> name, semantics |-> "percent", value |-> value]
Leaves(name) == {PropertyOf("Int32", name, One), PropertyOf("String", name, Two), PropertyOf("Empty", name, NoText)}
Maps(name, inside) ==      \* "inside" gives the properties for each key
    {PropertyOf("Map", name, f) :
        f \in UNION {{f \in [keys -> UNION Range(inside)] : \A k \in keys : f[k] \in inside[k]} : keys \in SUBSET DOMAIN inside}}
Vectors(name, inside) == {PropertyOf("Vector", name, s) : s \in SeqOf(inside, 2)}
Trees(name) ==
    Leaves(name) \union Maps(name, [k \in {"", "a", "b"} |-> Leaves(k)]) \union Vectors(name, Leaves("") \union Leaves("a"))
SentProperties ==
    Trees("top") \union Maps("top", [k \in {"a"} |-> Trees(k)]) \union {PropertyOf("Vector", "top", <<p>>) : p \in Trees("a")}

\* Code 1 of every category has a message, code 9 has none.
SentErrors ==
    {[category |-> c, code |-> k, properties |-> props] :
        c \in {"Erebus", "POSIX", "Plugin"} \union Local, k \in {1, 9},
        props \in SeqOf({PropertyOf("String", "message", Told), PropertyOf("Int32", "message", One), PropertyOf("String", "object", Two)}, 2)}
MessageText(category, code) == IF code = 1 THEN OutOfMemory ELSE NoText

-----------------------------------------------------------------------------
\* The documents that PropertyTree loads: all flat arrays and objects of up to two
\* items, with nulls, repeated names and a number that is too large for int64; and
\* what is nested up to one level deeper than loadJson() goes.
Numeral(n) == [type |-> "Number", value |-> n]
Word == [type |-> "String", value |-> Characters]
JsonNull == [type |-> "Null", value |-> 0]
Item(name, d) == [name |-> name, value |-> d]
Array(ds) == [type |-> "Array", items |-> [i \in DOMAIN ds |-> Item("", ds[i])]]
Object(members) == [type |-> "Object", items |-> members]
Both(d) == Object(<<Item("a", d), Item("b", Numeral(1))>>)

FlatDocuments ==
    {Array(ds) : ds \in SeqOf({JsonNull, Numeral(1), Numeral(3)}, 2)}
        \union {Object(ms) : ms \in SeqOf({Item(n, d) : n \in Names, d \in {JsonNull, Numeral(1), Word}}, 2)}
NestedDocuments ==
    {Array(<<Numeral(1), d>>) : d \in FlatDocuments}
        \union {Object(<<Item("a", d), Item(n, Array(<<Numeral(1)>>))>>) : d \in FlatDocuments, n \in Names}
DeepDocuments ==
    {Object(<<Item("a", Array(<<d>>))>>) : d \in {Both(Word), Array(<<Word>>)}} \union {Array(<<Both(Both(Word))>>)}
JsonDocuments == FlatDocuments \union NestedDocuments \union DeepDocuments \union {Word}

-----------------------------------------------------------------------------
Wire == INSTANCE Marshalling WITH Properties <- SentProperties, Errors <- SentErrors, Text <- MessageText
Tree == INSTANCE PropertyTree WITH Documents <- JsonDocuments

wireVars == <<sent, arrived, error, caught>>
treeVars == <<document, other, tree, otherTree>>
allVars == <<part, vars, wireVars, treeVars>>

\* The parts that do not run stay in one of their initial states.
IpcInit ==
    /\ part \in {"call", "wire", "tree"}
    /\ Init /\ Wire!Init /\ Tree!Init
    /\ part # "call" => bag = 0 /\ broken = {}

CallStep(A) == part = "call" /\ A /\ UNCHANGED <<part, wireVars, treeVars>>
WireStep == part = "wire" /\ Wire!Next /\ UNCHANGED <<part, vars, treeVars>>
TreeStep == part = "tree" /\ Tree!Next /\ UNCHANGED <<part, vars, wireVars>>

\* The fairness is that of SystemInfoCall; the other parts are checked for safety.
IpcSpec ==
    /\ IpcInit
    /\ [][CallStep(Next) \/ WireStep \/ TreeStep]_allVars
    /\ WF_allVars(CallStep(ServerStep))
    /\ WF_allVars(CallStep(ClientStep))

\* Trees of properties arrive whole, and errors as errors: see Marshalling.
Arrives == Wire!Arrives

\* Lookups answer as the JSON document does, and alike in equal trees: see PropertyTree.
LookupsAgree == part = "tree" => Tree!LookupsAgree
===============================================================================
