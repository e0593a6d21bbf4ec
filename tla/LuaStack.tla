------------------------------ MODULE LuaStack ------------------------------
(***************************************************************************)
(* Calls between C++ and Lua (luaxx_selector.cxx, luaxx_function.hxx,      *)
(* luaxx_state.cxx, luaxx_base_fun.cxx, luaxx_exception_handler.hxx):      *)
(* protected calls of Lua functions from C++, in which Lua calls C++       *)
(* functions, which call Lua.  Every C++ function that Lua has called has  *)
(* a stack of its own, which starts with its arguments.                    *)
(***************************************************************************)
EXTENDS Integers, Sequences

CONSTANTS
    MaxFrames,      \* bound: how deep the calls nest, the first C++ function included
    MaxLuaCalls,    \* bound: calls from C++ to Lua
    MaxArguments,   \* bound: arguments of a C++ function
    MaxPcalls,      \* bound: calls of pcall() in one another, in the scripts of one call
    Exceptions,     \* C++ exceptions
    None

VARIABLES
    libraries,      \* the libraries of Lua that are open, of "base" and "debug"
    frames,         \* the C++ functions that are running, the last one innermost
    control,        \* who runs: "cpp", from its "arguments" on, "lua", or an exception "unwinds" C++
    luaCalls,       \* the calls from C++ to Lua so far
    exception,      \* the exception that unwinds
    raisable,       \* what scripts can raise: a message, None, or an exception they have caught
    result,         \* what the last call read from the stack
    reported        \* the last call of the exception handler

vars == <<libraries, frames, control, luaCalls, exception, raisable, result, reported>>

\* What C++ does to call Lua, and how many results it asks for.
Selectors == {"convert", "tuple", "discard"}            \* int(selector), GetTuple<>(), ~Selector()
Functions == {"function", "functionVoid", "functionTuple"}
Scripts == {"script", "load"}                           \* state(code), loadString() and load()
Kinds == Selectors \union Functions \union Scripts
Tuples == {"tuple", "functionTuple"}
Wanted(kind) == CASE kind \in Tuples -> 2 [] kind \in {"discard"} \union Scripts -> 0 [] OTHER -> 1
SetsHandler(kind) == kind \notin Scripts                \* SetErrorHandler()

\* The cells of a stack.
Argument(n) == [is |-> "argument", of |-> n]
Handler == [is |-> "handler", of |-> 0]
ResultOf(c) == [is |-> "result", of |-> c]
ErrorOf(c, e) == [is |-> "error", of |-> c, stored |-> e]       \* a message has stored = None
NoCell == [is |-> "nil", of |-> 0]

\* A C++ function, and the call of Lua that it is in; "pcalls" are open in the scripts of
\* that call, and "pending" unwinds when it is made by the destructor of a selector.
Frame(arguments) ==
    [cells |-> arguments, kind |-> None, id |-> 0, saved |-> 0, listening |-> FALSE, pcalls |-> 0,
     pending |-> None]

\* State(): all libraries or none; openLib() opens one of them.

Init ==
    /\ libraries \in SUBSET {"base", "debug"}
    /\ raisable = {None}
    /\ frames = <<Frame(<<>>)>>
    /\ control = "cpp"
    /\ luaCalls = 0
    /\ exception = None
    /\ result = None /\ reported = None

Top == frames[Len(frames)]
WithTop(f) == [frames EXCEPT ![Len(frames)] = f]
Below == SubSeq(frames, 1, Len(frames) - 1)

-----------------------------------------------------------------------------
\* A protected call: the top is saved, the message handler stays below what is called.
\* A function<> that came as an argument has no exception handler.  While an exception
\* unwinds only ~Selector() calls Lua.
Call(kind, listening) ==
    /\ control = "cpp" \/ (control = "unwinds" /\ kind = "discard")
    /\ luaCalls < MaxLuaCalls
    /\ listening \/ kind \in Functions
    /\ luaCalls' = luaCalls + 1
    /\ frames' = WithTop([cells |-> IF SetsHandler(kind) THEN Append(Top.cells, Handler) ELSE Top.cells,
                          kind |-> kind, id |-> luaCalls + 1, saved |-> Len(Top.cells),
                          listening |-> listening, pcalls |-> 0, pending |-> exception])
    /\ control' = "lua"
    /\ exception' = None
    /\ result' = None /\ reported' = None
    /\ UNCHANGED <<libraries, raisable>>

\* Scripts call functions by way of pcall(), which return ...
PCall ==
    /\ control = "lua" /\ "base" \in libraries
    /\ Top.pcalls < MaxPcalls
    /\ frames' = WithTop([Top EXCEPT !.pcalls = @ + 1])
    /\ result' = None /\ reported' = None
    /\ UNCHANGED <<libraries, control, luaCalls, exception, raisable>>

PCallReturns ==
    /\ control = "lua" /\ Top.pcalls > 0
    /\ frames' = WithTop([Top EXCEPT !.pcalls = @ - 1])
    /\ result' = None /\ reported' = None
    /\ UNCHANGED <<libraries, control, luaCalls, exception, raisable>>

\* Lua calls a C++ function, by way of _lua_dispatcher() ...
CallBack(n) ==
    /\ control = "lua" /\ Len(frames) < MaxFrames
    /\ frames' = Append(frames, Frame([i \in 1..n |-> Argument(Len(frames) + 1)]))
    /\ control' = "arguments"
    /\ result' = None /\ reported' = None
    /\ UNCHANGED <<libraries, luaCalls, exception, raisable>>

\* ... which gets its arguments first: _get_args() ...
TakeArguments ==
    /\ control = "arguments"
    /\ control' = "cpp"
    /\ result' = None /\ reported' = None
    /\ UNCHANGED <<libraries, frames, luaCalls, exception, raisable>>

\* ... and returns ...
Answer ==
    /\ control = "cpp" /\ Len(frames) > 1
    /\ frames' = Below
    /\ control' = "lua"
    /\ result' = None /\ reported' = None
    /\ UNCHANGED <<libraries, luaCalls, exception, raisable>>

\* ... or throws, what it has got from a call or an exception of its own, TypeError too.
Throw(e) ==
    /\ control = "cpp" /\ Len(frames) > 1
    /\ control' = "unwinds"
    /\ exception' = e
    /\ result' = None /\ reported' = None
    /\ UNCHANGED <<libraries, frames, luaCalls, raisable>>

Catch ==
    /\ control = "unwinds"
    /\ control' = "cpp"
    /\ exception' = None
    /\ result' = None /\ reported' = None
    /\ UNCHANGED <<libraries, frames, luaCalls, raisable>>

-----------------------------------------------------------------------------
(***************************************************************************)
(* The protected call of frame f ends, and has left its results or an      *)
(* error on the stack.                                                     *)
(***************************************************************************)

\* lua_remove() of the message handler: selectors and multiple results only.
Removed(f, cells) ==
    IF f.kind \in Selectors \union {"functionTuple"}
    THEN SubSeq(cells, 1, f.saved) \o SubSeq(cells, f.saved + 2, Len(cells))
    ELSE cells

CellAt(cells, i) == IF i \in DOMAIN cells THEN cells[i] ELSE NoCell

\* _get() at -1, and _get_n() at the indices from 1.
FromBelow(f, cells) == cells[f.saved + 1]   \* mutant: the cell above the saved top
Single(f, cells) == cells[Len(cells)]
Read(f, cells) ==
    CASE f.kind \in Tuples -> <<CellAt(cells, 1), CellAt(cells, 2)>>
      [] f.kind \in {"convert", "function"} -> <<Single(f, cells)>>
      [] OTHER -> <<>>

\* ResetStackOnScopeExit
Reset(f) == Frame(SubSeq(f.cells, 1, f.saved))

\* ... and on with what C++ was doing.
Finish(below, f, cells) ==
    /\ frames' = Append(below, Reset(f))
    /\ result' = [of |-> f.id, kind |-> f.kind, cells |-> Read(f, cells)]
    /\ control' = IF f.pending = None THEN "cpp" ELSE "unwinds"
    /\ exception' = f.pending

\* The Lua function returns.
Return(n) ==
    /\ control = "lua" /\ Top.pcalls = 0
    /\ Finish(Below, Top, Removed(Top, Top.cells \o [i \in 1..Wanted(Top.kind) |-> IF i <= n THEN ResultOf(Top.id) ELSE NoCell]))
    /\ reported' = None
    /\ UNCHANGED <<libraries, luaCalls, raisable>>

\* ErrorHandler(): a traceback takes the place of a message, a stored exception stays.
TracebackOfAll(f, error) ==                 \* mutant: it takes the place of everything
    IF SetsHandler(f.kind) THEN [error EXCEPT !.stored = None] ELSE error
Handled(f, error) == error

\* The stack that a failed call leaves, without its message handler.
AfterError(f, error) == Removed(f, Append(f.cells, Handled(f, error)))

\* Handle_top_of_stack(), where there is an exception handler; load() and loadString()
\* take what is on top for a message.
Report(f, cells) ==
    IF ~f.listening THEN None
    ELSE [kind |-> f.kind, exception |-> IF f.kind = "load" THEN None ELSE cells[Len(cells)].stored]

\* The exception handler returns or throws.  ~Selector() catches what it throws while
\* any exception unwinds, in its own function or further down.
NeverCaught(below, f) == FALSE              \* mutant: uncaught_exceptions() is not asked
Swallowed(below, f) ==
    f.kind = "discard" /\ (f.pending # None \/ \E i \in DOMAIN below : below[i].pending # None)
HandlerThrows(below, f) ==
    /\ f.listening /\ ~Swallowed(below, f)
    /\ frames' = Append(below, [Reset(f) EXCEPT !.pending = f.pending])
    /\ result' = None
    /\ control' = IF f.pending = None THEN "unwinds" ELSE "terminated"
    /\ exception' \in Exceptions

\* The call of frame f fails with a stored exception e or a message.
Fail(below, f, e) ==
    LET cells == AfterError(f, ErrorOf(f.id, e)) IN
    /\ reported' = Report(f, cells)
    /\ Finish(below, f, cells) \/ HandlerThrows(below, f)
    /\ UNCHANGED <<libraries, luaCalls, raisable>>

\* The innermost pcall() of the scripts that frame f has called returns what was raised,
\* which no message handler has seen, and they go on and may raise it later.
Caught(below, f, e) ==
    /\ f.pcalls > 0
    /\ frames' = Append(below, [f EXCEPT !.pcalls = @ - 1])
    /\ control' = "lua"
    /\ exception' = None
    /\ raisable' = raisable \union {e}
    /\ result' = None /\ reported' = None
    /\ UNCHANGED <<libraries, luaCalls>>

\* An error in the scripts of frame f: they catch it, or the call fails.
Raise(below, f, e) == Caught(below, f, e) \/ (f.pcalls = 0 /\ Fail(below, f, e))

\* error() in a script ...
LuaError == control = "lua" /\ \E e \in raisable : Raise(Below, Top, e)

\* ... or _check_get() finds another type than that of the argument, or none, and its
\* exception ends as an error of Lua.
BadArgument == control = "arguments" /\ Raise(SubSeq(Below, 1, Len(Below) - 1), Below[Len(Below)], None)

\* _lua_dispatcher(): the exception of a C++ function is stored and raised as an error,
\* unless Traceback() has no debug.traceback(): its own error then leaves the function.
Stored(e) == IF "debug" \in libraries THEN e ELSE None
Dispatch ==
    /\ control = "unwinds" /\ Len(frames) > 1
    /\ Raise(SubSeq(Below, 1, Len(Below) - 1), Below[Len(Below)], Stored(exception))

Over ==
    /\ control = "terminated" \/ (control \in {"cpp", "unwinds"} /\ Len(frames) = 1)
    /\ UNCHANGED vars

Next ==
    \/ \E kind \in Kinds, listening \in BOOLEAN : Call(kind, listening)
    \/ \E n \in 0..MaxArguments : CallBack(n)
    \/ PCall \/ PCallReturns
    \/ TakeArguments \/ BadArgument \/ Answer \/ Catch \/ LuaError \/ Dispatch \/ Over
    \/ \E n \in 0..2 : Return(n)
    \/ \E e \in Exceptions : Throw(e)

Spec == Init /\ [][Next]_vars

-----------------------------------------------------------------------------
IsOwn(c) == c.is = "nil" \/ (c.is \in {"result", "error"} /\ c.of = result.of)
AllOwn == \A i \in DOMAIN result.cells : IsOwn(result.cells[i])

\* What a call reads is what Lua returned to that very call, or its error.
ReadsOwnResults == result # None => AllOwn

\* So it is of a single result, wherever the call is made; multiple results are right
\* in a C++ function that has no arguments.
SinglesAreOwn == result # None => AllOwn \/ (result.kind \in Tuples /\ Top.cells # <<>>)

\* A second exception never leaves a destructor that runs because of a first one, which
\* would end the process, whatever Lua and C++ functions that destructor calls.
OneExceptionUnwinds == control # "terminated"

\* An exception leaves a C++ function, and that one had been called from here.
LeavesFunction == control = "unwinds" /\ Len(frames) > 1 /\ Len(frames') < Len(frames)
Caller == frames[Len(frames) - 1]

\* What the scripts and the exception handler hear of in a step.
HeardByPcall ==
    /\ control' = "lua" /\ reported' = None
    /\ "debug" \in libraries => exception \in raisable'
HeardByHandler ==
    LET itself == "debug" \in libraries /\ Caller.kind # "load" IN
    reported' = [kind |-> Caller.kind, exception |-> IF itself THEN exception ELSE None]
HeardOf ==
    /\ LeavesFunction /\ Caller.pcalls > 0 => HeardByPcall
    /\ LeavesFunction /\ Caller.pcalls = 0 /\ Caller.listening => HeardByHandler
    /\ reported' # None => reported'.exception \in raisable \union {exception}

\* An exception that leaves a C++ function is what the innermost pcall() of the scripts
\* gets that have called that function, and no handler hears of it; without a pcall() it
\* reaches, as itself, the exception handler of the call from C++ that they are in, if the
\* call has one.  What a handler hears of is that exception or one that a script has
\* caught before and raises again, or else a message; load() and loadString() have only
\* messages to report, and a state without debug.traceback() loses the exceptions.
ExceptionReported == [][HeardOf]_vars
===============================================================================
