---------------------------- MODULE PropertyTree ----------------------------
(***************************************************************************)
(* Trees of properties: loading them from a JSON document, looking up a    *)
(* path in them and comparing them (src/rtl-lib/property_bag.cxx,          *)
(* property.cxx, include/erebus/rtl/property_bag.hxx).                     *)
(*                                                                         *)
(* A document is what rapidjson has parsed: a null, a number, a string, an *)
(* array of documents or an object, whose members keep their order and may *)
(* repeat a name.  Other types of scalars are loaded the way strings are.  *)
(* A property has a name, a type and a value; semantics play no part here. *)
(*                                                                         *)
(* Loading and looking up are recursive, so this module is for TLC only.   *)
(***************************************************************************)
EXTENDS Integers, Sequences, SequencesExt

CONSTANTS
    Names,          \* the names of members
    Documents,      \* the documents that get loaded
    JsonDepth,      \* the depth that loadJson() is called with
    PathLength,     \* bound: components of a path
    Width           \* the width of integers, 64 in the code

VARIABLES
    document, other,    \* two documents
    tree, otherTree     \* what has been loaded from them

vars == <<document, other, tree, otherTree>>

NoDocument == [type |-> "None"]

-----------------------------------------------------------------------------
(***************************************************************************)
(* Loading.                                                                *)
(***************************************************************************)

\* An exception that leaves loadArray() or loadObject().
Thrown == [name |-> "", type |-> "Thrown", value |-> 0]
Empty == [name |-> "", type |-> "Empty", value |-> 0]

\* A number is cast to int64, whatever type rapidjson has given it.
Int64(n) == IF n >= 2^(Width - 1) THEN n - 2^Width ELSE n

\* emplace() does not overwrite: the first property of a name stays.
FirstOfName(props, n) == props[SelectInSeq(props, LAMBDA q : q.name = n)]
ToMap(props) == [n \in {props[i].name : i \in DOMAIN props} |-> FirstOfName(props, n)]

TooDeep(depth) == depth < 1

\* The property that document "d" makes under a name; what is inside an array or
\* an object goes through with one level less, and nulls are passed over.
RECURSIVE Load(_, _, _)
Load(name, d, depth) ==
    CASE d.type = "Number" -> [name |-> name, type |-> "Int64", value |-> Int64(d.value)]
      [] d.type = "String" -> [name |-> name, type |-> "String", value |-> d.value]
      [] d.type \in {"Array", "Object"} ->
            LET items == SelectSeq(d.items, LAMBDA m : m.value.type # "Null")
                props == [i \in DOMAIN items |-> Load(items[i].name, items[i].value, depth - 1)]
            IN  IF TooDeep(depth) \/ \E i \in DOMAIN props : props[i].type = "Thrown" THEN Thrown
                ELSE IF d.type = "Array" THEN [name |-> name, type |-> "Vector", value |-> props]
                ELSE [name |-> name, type |-> "Map", value |-> ToMap(props)]

\* loadJson(): a document that is a scalar makes an empty property.
LoadJson(d) == IF d.type \in {"Array", "Object"} THEN Load("", d, JsonDepth) ELSE Empty

-----------------------------------------------------------------------------
(***************************************************************************)
(* Looking up.  Null is a null pointer.                                    *)
(***************************************************************************)
Null == [name |-> "", type |-> "nullptr", value |-> 0]
AnyType == "any"

IsContainer(p) == p.type \in {"Map", "Vector"}

\* findProperty() without a type.
FindProperty(container, n) ==
    IF container.type = "Map"
      THEN IF n \in DOMAIN container.value THEN container.value[n] ELSE Null
      ELSE IF \E i \in DOMAIN container.value : container.value[i].name = n
             THEN FirstOfName(container.value, n)
             ELSE Null

\* FindByPath: one component of the path.  "at" is currentMap or currentVector;
\* after the search was cancelled split() comes with no more components.
KeepFound(search) == search.found     \* mutant: a path that leads below a scalar finds the scalar
NowhereToGo(search) == Null

FindByPath(search, n) ==
    IF search.cancelled THEN search
    ELSE IF ~IsContainer(search.at) THEN [search EXCEPT !.found = NowhereToGo(search), !.cancelled = TRUE]
    ELSE LET current == FindProperty(search.at, n)
         IN  IF current.type = "nullptr" THEN [search EXCEPT !.cancelled = TRUE]
             ELSE [found |-> current, at |-> IF IsContainer(current) THEN current ELSE Null, cancelled |-> FALSE]

\* findPropertyByPath(): the type is checked at the end.
FindPropertyByPath(bag, path, type) ==
    LET search == FoldLeft(FindByPath, [found |-> Null, at |-> bag, cancelled |-> FALSE], path)
    IN  IF type \in {AnyType, search.found.type} THEN search.found ELSE Null

-----------------------------------------------------------------------------
(***************************************************************************)
(* Comparing.                                                              *)
(***************************************************************************)

\* operator==: type and value count, names only as the keys of a map.
RECURSIVE Equal(_, _)
EqualItems(v, w) == DOMAIN v = DOMAIN w /\ \A i \in DOMAIN v : Equal(v[i], w[i])
EqualVectors(v, w) == EqualItems(v, w)
Equal(p, q) ==
    /\ p.type = q.type
    /\ CASE p.type = "Map" -> EqualItems(p.value, q.value)
         [] p.type = "Vector" -> EqualVectors(p.value, q.value)
         [] OTHER -> p.value = q.value

-----------------------------------------------------------------------------
Init ==
    /\ document = NoDocument /\ other = NoDocument
    /\ tree = Empty /\ otherTree = Empty

LoadFirst ==
    /\ document = NoDocument
    /\ document' \in Documents
    /\ tree' = LoadJson(document')
    /\ UNCHANGED <<other, otherTree>>

LoadOther ==
    /\ document # NoDocument /\ tree.type \notin {"Thrown", "Empty"}
    /\ other = NoDocument
    /\ other' \in Documents
    /\ otherTree' = LoadJson(other')
    /\ UNCHANGED <<document, tree>>

\* The trees are destroyed.
Discard ==
    /\ document # NoDocument
    /\ document' = NoDocument /\ other' = NoDocument
    /\ tree' = Empty /\ otherTree' = Empty

Next == LoadFirst \/ LoadOther \/ Discard

Spec == Init /\ [][Next]_vars

-----------------------------------------------------------------------------
(***************************************************************************)
(* Properties.                                                             *)
(***************************************************************************)

\* The paths a string can stand for: "" has no components, and no string has
\* the empty one alone.
Paths == SeqOf(Names \union {""}, PathLength) \ {<<"">>}
ScalarTypes == {"Int64", "String"}

\* The definition to compare with: how deep a document is nested, and the
\* document at the end of a path through the first members, nulls apart, of
\* each name.
RECURSIVE Height(_)
Height(d) ==
    IF d.type \notin {"Array", "Object"} THEN 0
    ELSE 1 + Max({Height(m.value) : m \in ToSet(d.items)} \union {0})

RECURSIVE At(_, _)
At(d, path) ==
    IF path = <<>> THEN {d}
    ELSE IF d.type \notin {"Array", "Object"} THEN {}
    ELSE LET named == SelectSeq(d.items, LAMBDA m : m.name = Head(path) /\ m.value.type # "Null")
         IN  IF named = <<>> THEN {} ELSE At(named[1].value, Tail(path))

Answer(d, path, type) ==
    {p \in {Load("", e, 0) : e \in {e \in At(d, path) : e.type \in {"Number", "String"}}} : p.type = type}

AnswersAsDocument(path, type) ==
    LET found == FindPropertyByPath(tree, path, type)
        answer == IF path = <<>> THEN {} ELSE Answer(document, path, type)
    IN  /\ found.type = "nullptr" <=> answer = {}
        /\ \A p \in answer : p.value = found.value
AnswersAsOther(path, type) ==
    LET p == FindPropertyByPath(tree, path, type)
        q == FindPropertyByPath(otherTree, path, type)
    IN  p.type = q.type /\ p.value = q.value

\* loadJson() throws for exactly the documents nested deeper than it was told to
\* go, and what it loads answers every lookup of a scalar, by path and type, as
\* the document does: never with the property that the search had come to when
\* the path broke off.  Two loaded trees that compare equal answer every lookup
\* alike, although operator== looks at no name in a vector.
LookupsAgree ==
    /\ document # NoDocument /\ other = NoDocument =>
        /\ tree.type = "Thrown" <=> Height(document) > JsonDepth
        /\ IsContainer(tree) => \A path \in Paths, type \in ScalarTypes : AnswersAsDocument(path, type)
    /\ IsContainer(tree) /\ IsContainer(otherTree) /\ Equal(tree, otherTree) =>
        \A path \in Paths, type \in ScalarTypes : AnswersAsOther(path, type)
=============================================================================
