-------------------------- MODULE ReflectableProofs --------------------------
(***************************************************************************)
(* Proofs about Reflectable, for any number of records and fields and any  *)
(* values: a hash that is kept is current, and update() copies.  Nothing   *)
(* is assumed of the constants.                                            *)
(***************************************************************************)
EXTENDS Reflectable, TLAPS

\* A record has a value for every field, valid or not, a mask and a hash: what the
\* updates of the model need to be updates of functions.
Shape ==
    /\ value = [r \in Records |-> value[r]]
    /\ \A r \in Records : value[r] = [f \in Fields |-> value[r][f]]
    /\ valid \in [Records -> SUBSET Fields]
    /\ hash = [r \in Records |-> hash[r]]

IInv == Shape /\ HashIsCurrent

-----------------------------------------------------------------------------
\* What is hashed depends on the valid fields alone: a record keeps its hash while
\* its mask and its fields stay as they are.
LEMMA SameFieldsSameHash ==
    ASSUME NEW r \in Records, NEW o \in Records,
           value'[r] = value[o], valid'[r] = valid[o]
    PROVE  HashOf(r)' = HashOf(o)
  BY DEF HashOf

\* Without a difference update() leaves all the fields and the mask.
LEMMA NoDiffNoUpdate ==
    ASSUME Shape, NEW r \in Records, NEW o \in Records
    PROVE  /\ UpdatedValue(r, o, NoDiff) = value[r]
           /\ UpdatedValid(r, NoDiff) = valid[r]
<1>1. \A f \in Fields : NoDiff[f] = "Unchanged"
  BY DEF NoDiff
<1>2. {f \in Fields : NoDiff[f] = "Removed"} = {} /\ {f \in Fields : NoDiff[f] = "Added"} = {}
  BY <1>1
<1>3. UpdatedValid(r, NoDiff) = valid[r]
  BY <1>2 DEF UpdatedValid
<1>4. UpdatedValue(r, o, NoDiff) = [f \in Fields |-> value[r][f]]
  BY <1>1 DEF UpdatedValue
<1> QED
  BY <1>3, <1>4 DEF Shape

\* The mask that update() leaves is a mask of fields.
LEMMA UpdatedValidType ==
    ASSUME Shape, NEW r \in Records, NEW d
    PROVE  UpdatedValid(r, d) \in SUBSET Fields
  BY DEF Shape, UpdatedValid

\* The record that is updated has a current hash or none, in both versions of
\* update().
LEMMA UpdateKeepsHash ==
    ASSUME IInv, NEW r \in Records, NEW o \in Records, NEW d,
           value'[r] = UpdatedValue(r, o, d), valid'[r] = UpdatedValid(r, d),
           hash'[r] = UpdatedHash(r, d)
    PROVE  hash'[r] = Unknown \/ hash'[r] = HashOf(r)'
<1>1. CASE d = NoDiff
  <2>1. value'[r] = value[r] /\ valid'[r] = valid[r]
    BY <1>1, NoDiffNoUpdate DEF IInv
  <2>2. hash'[r] = hash[r]
    BY <1>1 DEF UpdatedHash
  <2>3. HashOf(r)' = HashOf(r)
    BY <2>1, SameFieldsSameHash
  <2> QED
    BY <2>2, <2>3 DEF IInv, HashIsCurrent
<1>2. CASE d # NoDiff
  BY <1>2 DEF UpdatedHash
<1> QED
  BY <1>1, <1>2

-----------------------------------------------------------------------------
LEMMA InitIInv == Init => IInv
<1> SUFFICES ASSUME Init PROVE IInv
  OBVIOUS
<1>1. Shape
  <2>1. value \in [Records -> [Fields -> {CHOOSE v \in Values : v # NaN}]]
    BY DEF Init
  <2>2. valid \in [Records -> SUBSET Fields] /\ hash = [r \in Records |-> hash[r]]
    BY DEF Init
  <2> QED
    BY <2>1, <2>2 DEF Shape
<1>2. HashIsCurrent
  BY DEF Init, HashIsCurrent
<1> QED
  BY <1>1, <1>2 DEF IInv

\* Every operation preserves the shape.
LEMMA ShapeStep == Shape /\ [Next]_vars => Shape'
<1> SUFFICES ASSUME Shape, [Next]_vars PROVE Shape'
  OBVIOUS
<1> USE DEF Shape
<1>1. ASSUME NEW r \in Records, NEW f \in Fields, NEW v \in Values, Set(r, f, v)
      PROVE  Shape'
  BY <1>1 DEF Set, Changed
<1>2. ASSUME NEW r \in Records, NEW f \in Fields, NEW on \in BOOLEAN, SetValid(r, f, on)
      PROVE  Shape'
  BY <1>2 DEF SetValid, Changed
<1>3. ASSUME NEW r \in Records, Hash(r)
      PROVE  Shape'
  BY <1>3 DEF Hash
<1>4. ASSUME NEW r \in Records, NEW o \in Records, Diff(r, o)
      PROVE  Shape'
  BY <1>4 DEF Diff
<1>5. ASSUME NEW r \in Records, NEW o \in Records, Update(r, o)
      PROVE  Shape'
  <2> DEFINE d == Difference(r, o)
  <2> HIDE DEF d
  <2>1. /\ value' = [value EXCEPT ![r] = UpdatedValue(r, o, d)]
        /\ valid' = [valid EXCEPT ![r] = UpdatedValid(r, d)]
        /\ hash' = [hash EXCEPT ![r] = UpdatedHash(r, d)]
    BY <1>5 DEF Update, d
  <2>2. UpdatedValid(r, d) \in SUBSET Fields
    BY UpdatedValidType
  <2>3. UpdatedValue(r, o, d) = [f \in Fields |-> UpdatedValue(r, o, d)[f]]
    BY DEF UpdatedValue
  <2> QED
    BY <2>1, <2>2, <2>3
<1>6. ASSUME NEW r \in Records, NEW o \in Records, UpdateMoved(r, o)
      PROVE  Shape'
  <2> DEFINE d == Difference(r, o)
  <2> HIDE DEF d
  <2>1. PICK rest \in [Fields -> Values] :
            value' = [value EXCEPT ![r] = UpdatedValue(r, o, d), ![o] = rest]
    BY <1>6 DEF UpdateMoved, d
  <2>2. /\ valid' = [valid EXCEPT ![r] = UpdatedValid(r, d), ![o] = {}]
        /\ hash' = [hash EXCEPT ![r] = UpdatedHash(r, d), ![o] = Unknown]
    BY <1>6 DEF UpdateMoved, d
  <2>3. UpdatedValid(r, d) \in SUBSET Fields
    BY UpdatedValidType
  <2>4. UpdatedValue(r, o, d) = [f \in Fields |-> UpdatedValue(r, o, d)[f]]
    BY DEF UpdatedValue
  <2> QED
    BY <2>1, <2>2, <2>3, <2>4
<1>7. CASE UpdateSelf
  BY <1>7 DEF UpdateSelf
<1>8. ASSUME NEW r \in Records, NEW o \in Records, Copy(r, o)
      PROVE  Shape'
  BY <1>8 DEF Copy
<1>9. ASSUME NEW r \in Records, NEW o \in Records, Move(r, o)
      PROVE  Shape'
  <2>1. PICK rest \in [Fields -> Values] : value' = [value EXCEPT ![r] = value[o], ![o] = rest]
    BY <1>9 DEF Move
  <2> QED
    BY <1>9, <2>1 DEF Move
<1>10. CASE UNCHANGED vars
  BY <1>10 DEF vars
<1> QED
  BY <1>1, <1>2, <1>3, <1>4, <1>5, <1>6, <1>7, <1>8, <1>9, <1>10 DEF Next

\* Every operation preserves the hashes, or drops them.
LEMMA HashStep == IInv /\ [Next]_vars => HashIsCurrent'
<1> SUFFICES ASSUME IInv, [Next]_vars, NEW q \in Records
             PROVE  hash'[q] = Unknown \/ hash'[q] = HashOf(q)'
  BY DEF HashIsCurrent
<1>0. Shape /\ (hash[q] = Unknown \/ hash[q] = HashOf(q))
  BY DEF IInv, HashIsCurrent
\* A record that a step leaves alone keeps what it has.
<1>a. ASSUME value'[q] = value[q], valid'[q] = valid[q], hash'[q] = hash[q]
      PROVE  hash'[q] = Unknown \/ hash'[q] = HashOf(q)'
  BY <1>0, <1>a, SameFieldsSameHash
<1>1. ASSUME NEW r \in Records, NEW f \in Fields, NEW v \in Values, Set(r, f, v)
      PROVE  hash'[q] = Unknown \/ hash'[q] = HashOf(q)'
  BY <1>0, <1>a, <1>1 DEF Set, Changed, Shape
<1>2. ASSUME NEW r \in Records, NEW f \in Fields, NEW on \in BOOLEAN, SetValid(r, f, on)
      PROVE  hash'[q] = Unknown \/ hash'[q] = HashOf(q)'
  BY <1>0, <1>a, <1>2 DEF SetValid, Changed, Shape
<1>3. ASSUME NEW r \in Records, Hash(r)
      PROVE  hash'[q] = Unknown \/ hash'[q] = HashOf(q)'
  <2>1. HashOf(q)' = HashOf(q)
    BY <1>3, SameFieldsSameHash DEF Hash
  <2>2. hash'[q] \in {hash[q], HashOf(q)}
    BY <1>0, <1>3 DEF Hash, Shape
  <2> QED
    BY <1>0, <2>1, <2>2
<1>4. ASSUME NEW r \in Records, NEW o \in Records, Diff(r, o)
      PROVE  hash'[q] = Unknown \/ hash'[q] = HashOf(q)'
  BY <1>a, <1>4 DEF Diff
<1>5. ASSUME NEW r \in Records, NEW o \in Records, Update(r, o)
      PROVE  hash'[q] = Unknown \/ hash'[q] = HashOf(q)'
  <2> DEFINE d == Difference(r, o)
  <2> HIDE DEF d
  <2>1. /\ value' = [value EXCEPT ![r] = UpdatedValue(r, o, d)]
        /\ valid' = [valid EXCEPT ![r] = UpdatedValid(r, d)]
        /\ hash' = [hash EXCEPT ![r] = UpdatedHash(r, d)]
    BY <1>5 DEF Update, d
  <2>2. CASE q = r
    <3>1. value'[r] = UpdatedValue(r, o, d) /\ valid'[r] = UpdatedValid(r, d) /\ hash'[r] = UpdatedHash(r, d)
      BY <1>0, <2>1 DEF Shape
    <3> QED
      BY <2>2, <3>1, UpdateKeepsHash
  <2>3. CASE q # r
    BY <1>0, <1>a, <2>1, <2>3 DEF Shape
  <2> QED
    BY <2>2, <2>3
<1>6. ASSUME NEW r \in Records, NEW o \in Records, UpdateMoved(r, o)
      PROVE  hash'[q] = Unknown \/ hash'[q] = HashOf(q)'
  <2> DEFINE d == Difference(r, o)
  <2> HIDE DEF d
  <2>1. PICK rest \in [Fields -> Values] :
            value' = [value EXCEPT ![r] = UpdatedValue(r, o, d), ![o] = rest]
    BY <1>6 DEF UpdateMoved, d
  <2>2. /\ r # o
        /\ valid' = [valid EXCEPT ![r] = UpdatedValid(r, d), ![o] = {}]
        /\ hash' = [hash EXCEPT ![r] = UpdatedHash(r, d), ![o] = Unknown]
    BY <1>6 DEF UpdateMoved, d
  <2>3. CASE q = r
    <3>1. value'[r] = UpdatedValue(r, o, d) /\ valid'[r] = UpdatedValid(r, d) /\ hash'[r] = UpdatedHash(r, d)
      BY <1>0, <2>1, <2>2 DEF Shape
    <3> QED
      BY <2>3, <3>1, UpdateKeepsHash
  <2>4. CASE q = o
    BY <1>0, <2>2, <2>4 DEF Shape
  <2>5. CASE q \notin {r, o}
    BY <1>0, <1>a, <2>1, <2>2, <2>5 DEF Shape
  <2> QED
    BY <2>3, <2>4, <2>5
<1>7. CASE UpdateSelf
  BY <1>a, <1>7 DEF UpdateSelf
<1>8. ASSUME NEW r \in Records, NEW o \in Records, Copy(r, o)
      PROVE  hash'[q] = Unknown \/ hash'[q] = HashOf(q)'
  <2>1. CASE q = r
    <3>1. value'[q] = value[o] /\ valid'[q] = valid[o] /\ hash'[q] = hash[o]
      BY <1>0, <1>8, <2>1 DEF Copy, Shape
    <3>2. HashOf(q)' = HashOf(o)
      BY <3>1, SameFieldsSameHash
    <3> QED
      BY <3>1, <3>2 DEF IInv, HashIsCurrent
  <2>2. CASE q # r
    BY <1>0, <1>a, <1>8, <2>2 DEF Copy, Shape
  <2> QED
    BY <2>1, <2>2
<1>9. ASSUME NEW r \in Records, NEW o \in Records, Move(r, o)
      PROVE  hash'[q] = Unknown \/ hash'[q] = HashOf(q)'
  <2>1. PICK rest \in [Fields -> Values] : value' = [value EXCEPT ![r] = value[o], ![o] = rest]
    BY <1>9 DEF Move
  <2>2. /\ r # o
        /\ valid' = [valid EXCEPT ![r] = valid[o], ![o] = {}]
        /\ hash' = [hash EXCEPT ![r] = hash[o], ![o] = Unknown]
    BY <1>9 DEF Move
  <2>3. CASE q = r
    <3>1. value'[q] = value[o] /\ valid'[q] = valid[o] /\ hash'[q] = hash[o]
      BY <1>0, <2>1, <2>2, <2>3 DEF Shape
    <3>2. HashOf(q)' = HashOf(o)
      BY <3>1, SameFieldsSameHash
    <3> QED
      BY <3>1, <3>2 DEF IInv, HashIsCurrent
  <2>4. CASE q = o
    BY <1>0, <2>2, <2>4 DEF Shape
  <2>5. CASE q \notin {r, o}
    BY <1>0, <1>a, <2>1, <2>2, <2>5 DEF Shape
  <2> QED
    BY <2>3, <2>4, <2>5
<1>10. CASE UNCHANGED vars
  BY <1>a, <1>10 DEF vars
<1> QED
  BY <1>1, <1>2, <1>3, <1>4, <1>5, <1>6, <1>7, <1>8, <1>9, <1>10 DEF Next

LEMMA IInvAlways == Spec => []IInv
<1>1. IInv /\ [Next]_vars => IInv'
  BY ShapeStep, HashStep DEF IInv
<1> QED
  BY InitIInv, <1>1, PTL DEF Spec

\* hash() never answers for fields the record had before.
THEOREM HashCorrect == Spec => []HashIsCurrent
<1>1. IInv => HashIsCurrent
  BY DEF IInv
<1> QED
  BY IInvAlways, <1>1, PTL

-----------------------------------------------------------------------------
\* The differences that diff() and update() find are those that lead from one record
\* to the fields of the other.
LEMMA DifferenceLeadsOver ==
    ASSUME Shape, NEW r \in Records, NEW o \in Records
    PROVE  /\ UpdatedValid(r, Difference(r, o)) = valid[o]
           /\ \A f \in valid[o] : UpdatedValue(r, o, Difference(r, o))[f] = value[o][f]
<1> DEFINE d == Difference(r, o)
<1>1. \A f \in Fields : d[f] = DiffType(r, o, f)
  BY DEF Difference
<1>2. valid[r] \subseteq Fields /\ valid[o] \subseteq Fields
  BY DEF Shape
<1>3. \A f \in Fields : f \in valid[r] /\ f \in valid[o]
        => d[f] \in {"Unchanged", "Changed"} /\ (d[f] = "Unchanged" => value[r][f] = value[o][f])
  BY <1>1 DEF DiffType, Equal
<1>4. \A f \in Fields : f \in valid[r] /\ f \notin valid[o] => d[f] = "Removed"
  BY <1>1 DEF DiffType
<1>5. \A f \in Fields : f \notin valid[r] /\ f \in valid[o] => d[f] = "Added"
  BY <1>1 DEF DiffType
<1>6. \A f \in Fields : f \notin valid[r] /\ f \notin valid[o] => d[f] = "Unchanged"
  BY <1>1 DEF DiffType
<1> HIDE DEF d
<1>7. UpdatedValid(r, d) = valid[o]
  BY <1>2, <1>3, <1>4, <1>5, <1>6 DEF UpdatedValid
<1>8. ASSUME NEW f \in valid[o] PROVE UpdatedValue(r, o, d)[f] = value[o][f]
  BY <1>2, <1>3, <1>5 DEF UpdatedValue
<1> QED
  BY <1>7, <1>8 DEF d

\* update(), copying or moving, leaves in a record exactly what was valid in the
\* other one, also where the fields were missing or NaN.
THEOREM UpdateCopiesCorrect == Spec => UpdateCopies
<1> DEFINE Copied(r, o) ==
        /\ valid'[r] = valid[o]
        /\ \A f \in valid[o] : value'[r][f] = value[o][f]
        /\ told' = Difference(r, o)
<1>1. ASSUME Shape, NEW r \in Records, NEW o \in Records, Update(r, o)
      PROVE  Copied(r, o)
  <2>1. value'[r] = UpdatedValue(r, o, Difference(r, o)) /\ valid'[r] = UpdatedValid(r, Difference(r, o))
    BY <1>1 DEF Update, Shape
  <2>2. told' = Difference(r, o)
    BY <1>1 DEF Update
  <2> QED
    BY <1>1, <2>1, <2>2, DifferenceLeadsOver
<1>2. ASSUME Shape, NEW r \in Records, NEW o \in Records, UpdateMoved(r, o)
      PROVE  Copied(r, o)
  <2> DEFINE d == Difference(r, o)
  <2> HIDE DEF d
  <2>1. PICK rest \in [Fields -> Values] :
            value' = [value EXCEPT ![r] = UpdatedValue(r, o, d), ![o] = rest]
    BY <1>2 DEF UpdateMoved, d
  <2>2. /\ r # o
        /\ valid' = [valid EXCEPT ![r] = UpdatedValid(r, d), ![o] = {}]
        /\ told' = d
    BY <1>2 DEF UpdateMoved, d
  <2>3. value'[r] = UpdatedValue(r, o, d) /\ valid'[r] = UpdatedValid(r, d)
    BY <1>2, <2>1, <2>2 DEF Shape
  <2> QED
    BY <1>2, <2>2, <2>3, DifferenceLeadsOver DEF d
<1>3. Shape => \A r, o \in Records : Update(r, o) \/ UpdateMoved(r, o) => Copied(r, o)
  BY <1>1, <1>2
<1>4. IInv => Shape
  BY DEF IInv
<1> QED
  BY IInvAlways, <1>3, <1>4, PTL DEF UpdateCopies
=============================================================================
