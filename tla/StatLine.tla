------------------------------ MODULE StatLine ------------------------------
(***************************************************************************)
(* Splitting a line of /proc/<pid>/stat into its fields: the loop of       *)
(* readStat() (src/proctree/server/linux/procfs.cxx).                      *)
(*                                                                         *)
(* The second field is the name of the process in parentheses, and the     *)
(* process may call itself anything, also with spaces and parentheses.     *)
(* A line is a sequence of characters, of which both parentheses and the   *)
(* space are called by their names; a field other than the name is one     *)
(* character here, and what strtol() and its like make of it is left out.  *)
(***************************************************************************)
EXTENDS Integers, Sequences, SequencesExt

CONSTANTS
    Letters,        \* the characters apart from both parentheses and the space
    NameLength,     \* bound: the length of a name
    Rest            \* the fields after the name

VARIABLES
    comm,           \* the name of the process
    start,          \* where the field begins that is being scanned
    end,            \* how far it has been scanned
    fields          \* the values of the fields before it

vars == <<comm, start, end, fields>>

Names == SeqOf(Letters \union {"opening", "closing", "space"}, NameLength)

\* What the kernel writes.
Line ==
    <<"pid", "space", "opening">> \o comm \o <<"closing">>
        \o [i \in 1..2 * Len(Rest) |-> IF i % 2 = 1 THEN "space" ELSE Rest[i \div 2]]

AllRead == start > Len(Line)

-----------------------------------------------------------------------------
Init ==
    /\ comm = <<>>
    /\ start = 1 /\ end = 1
    /\ fields = <<>>

\* Another process is read, or one that has taken another name.
ReadStat ==
    /\ AllRead
    /\ comm' \in Names
    /\ start' = 1 /\ end' = 1
    /\ fields' = <<>>

InField == end <= Len(Line) /\ Line[end] # "space"

\* A parenthesis takes the scan to the last closing one of the line: a line without
\* any would be an error, but there always is that of the name.
FirstClosing(from) ==                     \* mutant: strchr() for strrchr()
    CHOOSE k \in from..Len(Line) : Line[k] = "closing" /\ \A j \in from..k-1 : Line[j] # "closing"
Closing(from) ==
    CHOOSE k \in from..Len(Line) : Line[k] = "closing" /\ \A j \in k+1..Len(Line) : Line[j] # "closing"

Scan ==
    /\ ~AllRead /\ InField
    /\ end' = (IF Line[end] = "opening" THEN Closing(end) ELSE end) + 1
    /\ UNCHANGED <<comm, start, fields>>

\* The value of the field that has been scanned: all fields but the first begin with
\* the space before them, and the second loses its parentheses.
FieldValue ==
    CASE fields = <<>> -> SubSeq(Line, start, end - 1)
      [] Len(fields) = 1 -> IF end > start + 3 THEN SubSeq(Line, start + 2, end - 2) ELSE <<>>
      [] OTHER -> SubSeq(Line, start + 1, end - 1)

\* The field ends, and the space after it is skipped.
TakeField ==
    /\ ~AllRead /\ ~InField
    /\ fields' = Append(fields, FieldValue)
    /\ start' = end
    /\ end' = end + 1
    /\ UNCHANGED comm

Next == ReadStat \/ Scan \/ TakeField

Spec == Init /\ [][Next]_vars

-----------------------------------------------------------------------------
\* Whatever the process is called, its name is read as it is, and every field after
\* it keeps its number.
NameIsOneField ==
    AllRead => fields = <<<<"pid">>, comm>> \o [i \in DOMAIN Rest |-> <<Rest[i]>>]
=============================================================================
