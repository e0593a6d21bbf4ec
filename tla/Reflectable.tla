----------------------------- MODULE Reflectable -----------------------------
(***************************************************************************)
(* Records whose fields may be missing (include/erebus/rtl/reflectable.hxx)*)
(* such as the properties of a process.  A mask tells which fields are     *)
(* valid; the hash of the valid ones is computed when somebody asks and    *)
(* kept until a field changes; update() brings a record up to date with    *)
(* another one and tells what has changed.                                 *)
(*                                                                         *)
(* Values compare as operator== of the field does: NaN, of the fields that *)
(* are floating-point numbers, differs from itself.  A hash is modelled by *)
(* what is hashed: the values of the valid fields, in order and without    *)
(* the numbers of the fields.                                              *)
(***************************************************************************)
EXTENDS Integers, Sequences, FiniteSets

CONSTANTS
    Records,
    FieldCount,
    Values,
    NaN,        \* the value that differs from itself
    Unknown     \* a hash that is not computed

VARIABLES
    value,      \* the fields, valid or not
    valid,      \* _valid
    hash,       \* _hash, or Unknown while _hashValid is false
    told        \* the Diff that diff() or update() has returned last

vars == <<value, valid, hash, told>>

Fields == 1..FieldCount
NoDiff == [f \in Fields |-> "Unchanged"]

Init ==
    /\ value \in [Records -> [Fields -> {CHOOSE v \in Values : v # NaN}]]
    /\ valid = [r \in Records |-> {}]
    /\ hash = [r \in Records |-> Unknown]
    /\ told = NoDiff

\* _hashValid = false
Changed(r) == hash' = [hash EXCEPT ![r] = Unknown]

\* What updateHash() combines: of "fields", those in the mask.
Hashed(fields, mask) ==
    LET indices == SelectSeq([f \in Fields |-> f], LAMBDA f : f \in mask)
    IN  [i \in DOMAIN indices |-> fields[indices[i]]]

HashOf(r) == Hashed(value[r], valid[r])

Equal(v, w) == v = w /\ v # NaN

\* diff(): how "r" differs from "o".
DiffType(r, o, f) ==
    CASE f \in valid[r] /\ f \in valid[o] ->
            IF Equal(value[r][f], value[o][f]) THEN "Unchanged" ELSE "Changed"
      [] f \in valid[r] /\ f \notin valid[o] -> "Removed"
      [] f \notin valid[r] /\ f \in valid[o] -> "Added"
      [] OTHER -> "Unchanged"

Difference(r, o) == [f \in Fields |-> DiffType(r, o, f)]

-----------------------------------------------------------------------------
\* set()
Set(r, f, v) ==
    /\ value' = [value EXCEPT ![r][f] = v]
    /\ valid' = [valid EXCEPT ![r] = @ \union {f}]
    /\ Changed(r)
    /\ UNCHANGED told

\* setValid()
SetValid(r, f, on) ==
    /\ valid' = [valid EXCEPT ![r] = IF on THEN @ \union {f} ELSE @ \ {f}]
    /\ Changed(r)
    /\ UNCHANGED <<value, told>>

\* hash()
Hash(r) ==
    /\ hash' = [hash EXCEPT ![r] = IF @ = Unknown THEN HashOf(r) ELSE @]
    /\ UNCHANGED <<value, valid, told>>

\* diff()
Diff(r, o) ==
    /\ told' = Difference(r, o)
    /\ UNCHANGED <<value, valid, hash>>

\* What both versions of update() leave in "r".
UpdatedValue(r, o, d) == [f \in Fields |-> IF d[f] \in {"Changed", "Added"} THEN value[o][f] ELSE value[r][f]]
OnlyAdded(r, d) == valid[r] \union {f \in Fields : d[f] = "Added"}   \* mutant: what is missing stays
UpdatedValid(r, d) ==
    (valid[r] \ {f \in Fields : d[f] = "Removed"}) \union {f \in Fields : d[f] = "Added"}
KeptIfCounted(r, d) ==            \* mutant: a field removed does not invalidate the hash
    IF \A f \in Fields : d[f] \in {"Unchanged", "Removed"} THEN hash[r] ELSE Unknown
UpdatedHash(r, d) == IF d = NoDiff THEN hash[r] ELSE Unknown

\* update(const Reflectable&)
Update(r, o) ==
    /\ r # o
    /\ LET d == Difference(r, o)
       IN  /\ value' = [value EXCEPT ![r] = UpdatedValue(r, o, d)]
           /\ valid' = [valid EXCEPT ![r] = UpdatedValid(r, d)]
           /\ hash' = [hash EXCEPT ![r] = UpdatedHash(r, d)]
           /\ told' = d

\* Moving a field leaves it as it was or, a string for one, in a state of its own.
Left(v, moved) == {v} \union (IF moved THEN Values \ {NaN} ELSE {})

\* update(Reflectable&&): the fields that differ are moved, and nothing of "o" is valid.
UpdateMoved(r, o) ==
    /\ r # o
    /\ LET d == Difference(r, o)
       IN  /\ \E rest \in [Fields -> Values] :
                /\ \A f \in Fields : rest[f] \in Left(value[o][f], d[f] \in {"Changed", "Added"})
                /\ value' = [value EXCEPT ![r] = UpdatedValue(r, o, d), ![o] = rest]
           /\ valid' = [valid EXCEPT ![r] = UpdatedValid(r, d), ![o] = {}]
           /\ hash' = [hash EXCEPT ![r] = UpdatedHash(r, d), ![o] = Unknown]
           /\ told' = d

\* Either version of update() with the record itself.
UpdateSelf ==
    /\ told' = NoDiff
    /\ UNCHANGED <<value, valid, hash>>

\* A record is copied: the hash goes with the fields.
Copy(r, o) ==
    /\ r # o
    /\ value' = [value EXCEPT ![r] = value[o]]
    /\ valid' = [valid EXCEPT ![r] = valid[o]]
    /\ hash' = [hash EXCEPT ![r] = hash[o]]
    /\ UNCHANGED told

\* A record is moved: what was known of "o" is swapped with a fresh one.
Move(r, o) ==
    /\ r # o
    /\ \E rest \in [Fields -> Values] :
         /\ \A f \in Fields : rest[f] \in Left(value[o][f], TRUE)
         /\ value' = [value EXCEPT ![r] = value[o], ![o] = rest]
    /\ valid' = [valid EXCEPT ![r] = valid[o], ![o] = {}]
    /\ hash' = [hash EXCEPT ![r] = hash[o], ![o] = Unknown]
    /\ UNCHANGED told

Next ==
    \/ \E r \in Records, f \in Fields, v \in Values : Set(r, f, v)
    \/ \E r \in Records, f \in Fields, on \in BOOLEAN : SetValid(r, f, on)
    \/ \E r \in Records : Hash(r)
    \/ \E r, o \in Records : Diff(r, o)
    \/ \E r, o \in Records : Update(r, o)
    \/ \E r, o \in Records : UpdateMoved(r, o)
    \/ UpdateSelf
    \/ \E r, o \in Records : Copy(r, o)
    \/ \E r, o \in Records : Move(r, o)

Spec == Init /\ [][Next]_vars

-----------------------------------------------------------------------------
\* hash() never answers for fields the record had before: whatever sequence of
\* updates, copies and moves lies between, a hash that is kept is that of the
\* fields now valid.
HashIsCurrent == \A r \in Records : hash[r] = Unknown \/ hash[r] = HashOf(r)

\* update(), copying or moving, leaves in "r" exactly what was valid in "o", also
\* where the fields were missing or NaN, and returns what diff() would have.
UpdateCopies ==
    [][\A r, o \in Records :
        Update(r, o) \/ UpdateMoved(r, o) =>
            /\ valid'[r] = valid[o]
            /\ \A f \in valid[o] : value'[r][f] = value[o][f]
            /\ told' = Difference(r, o)]_vars
=============================================================================
