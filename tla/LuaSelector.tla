----------------------------- MODULE LuaSelector -----------------------------
(***************************************************************************)
(* Selectors (luaxx_selector.hxx, luaxx_selector.cxx): the C++ objects     *)
(* that stand for a value in Lua by its path from the global table.  A     *)
(* selector looks its path up when it is used, and one that was "called"   *)
(* calls the function when its result is asked for, or else when it is     *)
(* destroyed.                                                              *)
(***************************************************************************)
EXTENDS Integers, Sequences, FiniteSets

CONSTANTS
    Keys,           \* the names in tables
    MaxPath,        \* bound: the length of a path
    Handles,        \* the selectors that C++ can hold
    MaxActive,      \* bound: active selectors made, by calls and copies
    None

VARIABLES
    global,         \* what Lua has at each path
    selector,       \* each selector: its path and the call that it has yet to make
    made,           \* the calls that selectors have come to hold
    runs,           \* how often each has been made
    lost,           \* the calls that an assignment has overwritten
    panicked        \* the selector that raised an error outside of any call

vars == <<global, selector, made, runs, lost, panicked>>

Paths == UNION {[1..n -> Keys] : n \in 1..MaxPath}
ProperPrefixes(p) == {SubSeq(p, 1, n) : n \in 1..(Len(p) - 1)}
Contents == {"nil", "number", "function", "table"}
Calls == 1..MaxActive
NoCall == 0

\* "cut" is history: a table on the path has been taken away since the path was made.
Selecting(p, c, cut) == [path |-> p, call |-> c, cut |-> cut]
MovedFrom == Selecting(<<>>, NoCall, FALSE)
Usable(s) == selector[s] # None /\ selector[s] # MovedFrom

Init ==
    /\ global = [p \in Paths |-> "nil"]
    /\ selector = [s \in Handles |-> None]
    /\ made = 0
    /\ runs = [c \in Calls |-> 0]
    /\ lost = {}
    /\ panicked = None

Alive == panicked = None

-----------------------------------------------------------------------------
(***************************************************************************)
(* Lua's tables.                                                           *)
(***************************************************************************)

\* lua_gettable() and lua_settable() on what is no table raise an error.
Reachable(p) == \A q \in ProperPrefixes(p) : global[q] = "table"

\* The tables once p holds v: what was in p is gone.
With(p, v) ==
    [q \in Paths |-> IF q = p THEN v ELSE IF p \in ProperPrefixes(q) THEN "nil" ELSE global[q]]

\* Selectors whose path has lost a table by that.
CutAt(p, v, selectors) ==
    [s \in Handles |->
        IF /\ selectors[s] # None
           /\ \E q \in ProperPrefixes(selectors[s].path) : global[q] = "table" /\ With(p, v)[q] # "table"
        THEN [selectors[s] EXCEPT !.cut = TRUE] ELSE selectors[s]]

\* A script assigns to a variable or to a field of a table.
Script(p, v) ==
    /\ Alive /\ Reachable(p)
    /\ global' = With(p, v)
    /\ selector' = CutAt(p, v, selector)
    /\ UNCHANGED <<made, runs, lost, panicked>>

\* The error of a selector outside of a protected call: lua_atpanic(), abort().
Panic(s) ==
    /\ ~Reachable(selector[s].path)
    /\ panicked' = selector[s]
    /\ UNCHANGED <<global, selector, made, runs, lost>>

-----------------------------------------------------------------------------
(***************************************************************************)
(* Making selectors.                                                       *)
(***************************************************************************)

\* state[k]
Make(s, k) ==
    /\ Alive /\ selector[s] = None
    /\ selector' = [selector EXCEPT ![s] = Selecting(<<k>>, NoCall, FALSE)]
    /\ UNCHANGED <<global, made, runs, lost, panicked>>

\* _check_create_table(): whatever else is at p is replaced by an empty table.
Untouched(p) == global                      \* mutant: no table is made
TableMade(p) == IF global[p] = "table" THEN global ELSE With(p, "table")

\* selector[k]: a new selector, or, if it is an rvalue, the same one changed in place,
\* with the call it has yet to make.
Index(s, t, k) ==
    /\ Alive /\ Usable(s) /\ Len(selector[s].path) < MaxPath
    /\ t = s \/ selector[t] = None
    /\ \/ Panic(s)
       \/ /\ Reachable(selector[s].path)
          /\ global' = TableMade(selector[s].path)
          /\ selector' = [selector EXCEPT ![t] =
                Selecting(Append(selector[s].path, k), IF t = s THEN selector[s].call ELSE NoCall, FALSE)]
          /\ UNCHANGED <<made, runs, lost, panicked>>

\* The new holder of a call; what the selector held before will not be made.
Hold(t, value) ==
    /\ selector' = [selector EXCEPT ![t] = value]
    /\ lost' = lost \union (IF selector[t] = None THEN {} ELSE {selector[t].call} \ {NoCall})

\* selector(...): a copy that has the call to make.
CallLater(s, t) ==
    /\ Alive /\ Usable(s) /\ selector[t] = None /\ made < MaxActive
    /\ made' = made + 1
    /\ Hold(t, [selector[s] EXCEPT !.call = made + 1])
    /\ UNCHANGED <<global, runs, panicked>>

\* Copied, or copied to one that exists: a call that is yet to be made is made by both.
Copy(s, t) ==
    /\ Alive /\ Usable(s) /\ t # s
    /\ IF selector[s].call = NoCall
       THEN Hold(t, selector[s]) /\ UNCHANGED made
       ELSE /\ made < MaxActive /\ made' = made + 1
            /\ Hold(t, [selector[s] EXCEPT !.call = made + 1])
    /\ UNCHANGED <<global, runs, panicked>>

\* MovingFlag: the call moves along.
KeepsFlag(s) == [MovedFrom EXCEPT !.call = selector[s].call]    \* mutant: a copied flag
LeftBehind(s) == MovedFrom
Move(s, t) ==
    /\ Alive /\ Usable(s) /\ t # s
    /\ selector' = [selector EXCEPT ![t] = selector[s], ![s] = LeftBehind(s)]
    /\ lost' = lost \union (IF selector[t] = None THEN {} ELSE {selector[t].call} \ {NoCall})
    /\ UNCHANGED <<global, made, runs, panicked>>

-----------------------------------------------------------------------------
(***************************************************************************)
(* Using selectors.                                                        *)
(***************************************************************************)

\* _evaluate_function_call(): the flag is cleared before the call.  What is called may
\* change a variable; what is no function is an error for the exception handler.
FlagKept(s) == selector[s]                  \* mutant: the flag is not cleared
FlagCleared(s) == [selector[s] EXCEPT !.call = NoCall]
Run(s, after) ==
    /\ runs' = [runs EXCEPT ![selector[s].call] = @ + 1]
    /\ \/ /\ UNCHANGED global
          /\ selector' = [selector EXCEPT ![s] = after]
       \/ /\ global[selector[s].path] = "function"
          /\ \E p \in Paths, v \in Contents :
                /\ Reachable(p)
                /\ global' = With(p, v)
                /\ selector' = CutAt(p, v, [selector EXCEPT ![s] = after])
    /\ UNCHANGED <<made, lost, panicked>>

\* A conversion of a selector reads its value, or the result of its call.
Convert(s) ==
    /\ Alive /\ Usable(s)
    /\ \/ Panic(s)
       \/ /\ Reachable(selector[s].path) /\ selector[s].call # NoCall
          /\ Run(s, FlagCleared(s))

\* exists() looks at the value, whatever call there is to make.
Exists(s) == Alive /\ Usable(s) /\ Panic(s)

\* An assignment of a value: _evaluate_store().
Store(s, v) ==
    /\ Alive /\ Usable(s)
    /\ \/ Panic(s)
       \/ /\ Reachable(selector[s].path)
          /\ global' = With(selector[s].path, v)
          /\ selector' = CutAt(selector[s].path, v, selector)
          /\ UNCHANGED <<made, runs, lost, panicked>>

\* ~Selector(): a call that nobody has asked for the result of is made now.
Destroy(s) ==
    /\ Alive /\ selector[s] # None
    /\ IF selector[s].call = NoCall
       THEN /\ selector' = [selector EXCEPT ![s] = None]
            /\ UNCHANGED <<global, made, runs, lost, panicked>>
       ELSE Panic(s) \/ (Reachable(selector[s].path) /\ Run(s, None))

Over == ~Alive /\ UNCHANGED vars

Next ==
    \/ Over
    \/ \E p \in Paths, v \in Contents : Script(p, v)
    \/ \E s \in Handles :
        \/ \E k \in Keys : Make(s, k) \/ \E t \in Handles : Index(s, t, k)
        \/ \E t \in Handles : CallLater(s, t) \/ Copy(s, t) \/ Move(s, t)
        \/ Convert(s) \/ Exists(s) \/ Destroy(s)
        \/ \E v \in Contents : Store(s, v)

Spec == Init /\ [][Next]_vars

-----------------------------------------------------------------------------
HoldersOf(c) == Cardinality({s \in Handles : selector[s] # None /\ selector[s].call = c})

\* Every call made by writing selector(...), or by copying such a selector, is waiting in
\* one selector or has been made once, however selectors are copied, moved, converted and
\* destroyed; it goes unmade only if another selector is assigned to the one that has it.
RunsOnce ==
    \A c \in 1..made : runs[c] + HoldersOf(c) + Cardinality(lost \intersect {c}) = 1

\* Using a selector ends the process only when a table on its path has been taken away
\* after the selector was made.
PanicsOnlyIfCut == panicked # None => panicked.cut
===============================================================================
