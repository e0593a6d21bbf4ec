------------------------------ MODULE LuaTypes ------------------------------
(***************************************************************************)
(* C++ objects in Lua (luaxx_metatable_registry.cxx, luaxx_primitives.hxx, *)
(* luaxx_class.hxx, luaxx_obj.hxx, luaxx_references.hxx): pointers and     *)
(* objects pushed to Lua, read back as a type, pinned from C++ and         *)
(* collected by Lua, until the state is closed.                            *)
(*                                                                         *)
(* A value that Lua owns (full userdata) has its own metatable.  All       *)
(* pointers to what C++ owns (light userdata) share one: the last pushed   *)
(* registered type has set it for every pointer.  A metatable belongs to   *)
(* the name of a class, so two types with one name share one too.          *)
(***************************************************************************)
EXTENDS Integers, FiniteSetsExt

CONSTANTS
    Types,          \* the C++ types
    ClassNames,     \* the names given to SetClass()
    Variables,      \* the variables of the script
    Handles,        \* the References and Pointers that C++ holds
    MaxClasses,     \* bound: the types and names registered
    MaxObjects,     \* bound: objects that Lua comes to own
    None            \* no metatable; nothing

VARIABLES
    nameOf,         \* the metatable of each type, by its name; None: not registered
    class,          \* the type whose destructor each metatable has
    shared,         \* the metatable of all light userdata
    values,         \* the values of the variables of the script
    open,           \* the State is there
    owned,          \* the live objects that Lua owns
    made,           \* how many it has come to own
    refs,           \* the values in the Lua registry, by luaL_ref()
    handle,         \* what each Reference or Pointer holds
    methods,        \* the functions of classes: for which type, checking for which name
    lent            \* history: the types that pointers have been pushed of

vars == <<nameOf, class, shared, values, open, owned, made, refs, handle, methods, lent>>

RefNil == 0         \* LUA_REFNIL
Refs == 1..Cardinality(Handles)
Nil == [kind |-> "nil"]
Table(o) == [kind |-> "table", object |-> o]    \* a table, with the functions of an object or none
Light(o) == [kind |-> "light", object |-> o]
Full(o) == [kind |-> "full", object |-> o]

Borrowed(T) == [type |-> T, id |-> 0, table |-> None]       \* an object that C++ owns
LuasOwn == [type |-> None, id |-> 0, table |-> None]        \* what the address of a Lua table points to
IsOwned(o) == o.id > 0

Init ==
    /\ nameOf = [T \in Types |-> None]
    /\ class = [n \in ClassNames |-> None]
    /\ shared = None
    /\ values = [x \in Variables |-> Nil]
    /\ open = TRUE
    /\ owned = {} /\ made = 0
    /\ refs = [r \in Refs |-> Nil]
    /\ handle = [h \in Handles |-> None]
    /\ methods = {} /\ lent = {}

-----------------------------------------------------------------------------
(***************************************************************************)
(* Metatables.                                                             *)
(***************************************************************************)

MetatableOf(v) == CASE v.kind = "full" -> v.object.table [] v.kind = "light" -> shared [] OTHER -> None

\* MetatableRegistry::IsType(): a type that is not registered is what has no metatable.
AnyIfUnregistered(T, v) ==                  \* mutant: an unregistered type is anything
    nameOf[T] \in {None, MetatableOf(v)}
IsType(T, v) == nameOf[T] = MetatableOf(v)

AddressIn(v) == CASE v.kind \in {"light", "full"} -> v.object [] v.kind = "table" -> LuasOwn [] OTHER -> None

\* PushNewMetatable(): luaL_newmetatable() gives the table that the name has, if it has
\* one ...
NewMetatable(T, n) == nameOf' = [nameOf EXCEPT ![T] = n]

\* ... and what is registered in it takes the place of what was there: the destructor, as
\* __gc, and the members.  A script keeps the functions that it has got before.
SetDtor(T, n) == class' = [class EXCEPT ![n] = T]
SetMembers(T, n) == methods' = methods \union {<<T, n>>}

RegisterClass(T, n) == NewMetatable(T, n) /\ SetDtor(T, n) /\ SetMembers(T, n)

\* state[name].SetClass<T>()
SetClass(T, n) ==
    /\ RegisterClass(T, n)
    /\ Cardinality(methods') <= MaxClasses
    /\ UNCHANGED <<shared, values, open, owned, made, refs, handle, lent>>

-----------------------------------------------------------------------------
(***************************************************************************)
(* From C++ to Lua.                                                        *)
(***************************************************************************)

\* SetMetatable() does nothing for a type that is not registered.
TableForAll(T) == IF nameOf[T] = None THEN shared ELSE nameOf[T]

PushPointer(T, x) ==
    /\ values' = [values EXCEPT ![x] = Light(Borrowed(T))]
    /\ shared' = TableForAll(T)
    /\ lent' = lent \union {T}
    /\ UNCHANGED <<nameOf, class, open, owned, made, refs, handle, methods>>

NewObject(T, n, x) ==
    /\ made < MaxObjects
    /\ made' = made + 1
    /\ LET o == [type |-> T, id |-> made', table |-> n] IN
        /\ owned' = owned \union {o}
        /\ values' = [values EXCEPT ![x] = Full(o)]
    /\ UNCHANGED <<nameOf, class, shared, open, refs, handle, methods, lent>>

\* An rvalue is moved into Lua; CopyUnregisteredType is thrown if it cannot be.
IsRegisteredType(T) == nameOf[T] # None
PushObject(T, x) == IsRegisteredType(T) /\ NewObject(T, nameOf[T], x)

\* new(), as a script got it from the class: Ctor sets the metatable by its name.
Construct(T, n, x) == <<T, n>> \in methods /\ NewObject(T, n, x)

\* state[name].SetObj(): a table of functions that are bound to the object.
SetObj(T, x) ==
    /\ values' = [values EXCEPT ![x] = Table(Borrowed(T))]
    /\ UNCHANGED <<nameOf, class, shared, open, owned, made, refs, handle, methods, lent>>

\* The script copies or clears a variable.
Assign(x, v) ==
    /\ values' = [values EXCEPT ![x] = v]
    /\ UNCHANGED <<nameOf, class, shared, open, owned, made, refs, handle, methods, lent>>

-----------------------------------------------------------------------------
(***************************************************************************)
(* From Lua to C++.  Reading changes nothing; a handle keeps what it read. *)
(***************************************************************************)

\* A value that is converted from a selector or a result, by _get(): nullptr, or an
\* exception, if it is none of T.
Got(T, v) == IF IsType(T, v) THEN AddressIn(v) ELSE None

\* An argument of a C++ function, by _check_get(): an error of Lua.
CheckType(T, v) == IsType(T, v)
Argument(T, v) == IF CheckType(T, v) THEN AddressIn(v) ELSE None

\* A method that a script got from a class: luaL_checkudata() with the name of the class.
Method(n, v) == IF MetatableOf(v) = n THEN AddressIn(v) ELSE None

\* A function of the table of an object: the object is bound to it.
BoundTo(v) == IF v.kind = "table" /\ v.object # LuasOwn THEN v.object ELSE None

\* Reference<T> and Pointer<T>: the object, and the value kept in the registry for as
\* long as a copy of the handle is left.
Free == {r \in Refs : \A h \in Handles : handle[h] = None \/ handle[h].ref # r}
Pin(h, T, x) ==
    LET o == Got(T, values[x]) IN
    /\ handle[h] = None
    /\ IF o = None
       THEN handle' = [handle EXCEPT ![h] = [object |-> None, ref |-> RefNil]] /\ UNCHANGED refs
       ELSE LET r == Min(Free) IN
            /\ handle' = [handle EXCEPT ![h] = [object |-> o, ref |-> r]]
            /\ refs' = [refs EXCEPT ![r] = values[x]]
    /\ UNCHANGED <<nameOf, class, shared, values, open, owned, made, methods, lent>>

CopyHandle(h, g) ==
    /\ handle[h] = None /\ handle[g] # None
    /\ handle' = [handle EXCEPT ![h] = handle[g]]
    /\ UNCHANGED <<nameOf, class, shared, values, open, owned, made, refs, methods, lent>>

\* LuaRef: the shared pointer unrefs with the last copy.
EveryCopy(h) ==                             \* mutant: each copy unrefs
    {r \in Refs : r = handle[h].ref}
Unrefs(h) == {r \in Refs : r = handle[h].ref /\ \A g \in Handles \ {h} : handle[g] = None \/ handle[g].ref # r}
Drop(h) ==
    /\ handle[h] # None
    /\ refs' = [r \in Refs |-> IF r \in Unrefs(h) THEN Nil ELSE refs[r]]
    /\ handle' = [handle EXCEPT ![h] = None]
    /\ UNCHANGED <<nameOf, class, shared, values, open, owned, made, methods, lent>>

\* The handle is passed back to Lua.
PushHandle(h, x) ==
    /\ handle[h] # None
    /\ values' = [values EXCEPT ![x] = IF handle[h].ref = RefNil THEN Nil ELSE refs[handle[h].ref]]
    /\ UNCHANGED <<nameOf, class, shared, open, owned, made, refs, handle, methods, lent>>

\* Dtor::Apply() destroys an object as the type it was made for, which is that of the
\* class that has the metatable.
DestroyedAs(o) == class[o.table]

\* Lua finalises what neither a variable nor its registry holds.
Held == {values[x] : x \in Variables} \union {refs[r] : r \in Refs}
Collect(o) ==
    /\ o \in owned /\ Full(o) \notin Held
    /\ owned' = owned \ {o}
    /\ UNCHANGED <<nameOf, class, shared, values, open, made, refs, handle, methods, lent>>

\* ~State(): the garbage is collected and the state closed, in which Lua finalises what
\* is left; the registry with the destructors goes later.  No handle outlives the state.
Close ==
    /\ open' = FALSE
    /\ \A h \in Handles : handle[h] = None
    /\ values' = [x \in Variables |-> Nil]
    /\ UNCHANGED <<nameOf, class, shared, owned, made, refs, handle, methods, lent>>

Over == ~open /\ owned = {} /\ UNCHANGED vars

FromCpp(T, x) == PushPointer(T, x) \/ PushObject(T, x) \/ SetObj(T, x)
OfClass(T, n) == SetClass(T, n) \/ \E x \in Variables : Construct(T, n, x)
OfHandle(h) ==
    \/ Drop(h)
    \/ \E g \in Handles : CopyHandle(h, g)
    \/ \E x \in Variables : PushHandle(h, x) \/ \E T \in Types : Pin(h, T, x)
OfVariable(x) == Assign(x, Nil) \/ Assign(x, Table(LuasOwn)) \/ \E y \in Variables : Assign(x, values[y])

Next ==
    \/ /\ open
       /\ \/ \E T \in Types, x \in Variables : FromCpp(T, x)
          \/ \E T \in Types, n \in ClassNames : OfClass(T, n)
          \/ \E h \in Handles : OfHandle(h)
          \/ \E x \in Variables : OfVariable(x)
          \/ Close
    \/ \E o \in owned : Collect(o)
    \/ Over

Spec == Init /\ [][Next]_vars

-----------------------------------------------------------------------------
Namesakes(T, U) == \E n \in ClassNames : {<<T, n>>, <<U, n>>} \subseteq methods

\* What C++ would get out of Lua, as which type: everything that Lua holds by every
\* conversion, and what is destroyed.
Accesses ==
    {[as |-> T, object |-> Got(T, v)] : T \in Types, v \in Held}
        \union {[as |-> T, object |-> Argument(T, v)] : T \in Types, v \in Held}
        \union {[as |-> m[1], object |-> Method(m[2], v)] : m \in methods, v \in Held}
        \union {[as |-> BoundTo(v).type, object |-> BoundTo(v)] : v \in {v \in Held : BoundTo(v) # None}}
        \union {[as |-> DestroyedAs(o), object |-> o] : o \in owned}

\* C++ gets an object as the type it has, on every way out of Lua and in the destructor
\* that Lua calls.  The exceptions are these: two types were registered under one name;
\* the type asked for is not registered, and the value is none that Lua owns; and
\* pointers to objects of two types have been pushed.
ReadAsPushed ==
    \A a \in Accesses : a.object # None =>
        LET T == a.as  o == a.object IN
        \/ o.type = T
        \/ Namesakes(o.type, T)
        \/ ~IsOwned(o) /\ nameOf[T] = None
        \/ ~IsOwned(o) /\ o.type # None /\ Cardinality(lent) > 1

\* What a Reference or a Pointer points to has not been collected, whatever copies of
\* the handle are gone.
PinnedAlive ==
    \A h \in Handles :
        \/ handle[h] = None \/ handle[h].object = None
        \/ ~IsOwned(handle[h].object)
        \/ handle[h].object \in owned
===============================================================================
