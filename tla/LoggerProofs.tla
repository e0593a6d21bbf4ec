---------------------------- MODULE LoggerProofs ----------------------------
(***************************************************************************)
(* What holds of the parts of a logger, whatever the numbers of threads,   *)
(* records, scopes, sinks and loggers: the records that go through the     *)
(* chain (LoggerChain), the sinks of a tee (Tee) and the places of the     *)
(* per-thread data (ThreadData).  MCLoggerChain composes them; each has an *)
(* inductive invariant of its own: ChainInv, TeeInv and PlacesInv.         *)
(***************************************************************************)
EXTENDS MCLoggerChain, FiniteSetTheorems, SequenceTheorems, TLAPS

-----------------------------------------------------------------------------
(***************************************************************************)
(* LoggerChain: operators on records, batches of records and the stream of *)
(* the items that the sinks have got or will get.                          *)
(***************************************************************************)
\* InOrder: the elements of a finite set of numbers do have an order.
LEMMA Enumeration ==
    ASSUME NEW S \in SUBSET Nat, IsFiniteSet(S)
    PROVE  /\ Cardinality(S) \in Nat
           /\ InOrder(S) \in [1..Cardinality(S) -> S]
           /\ \A i, j \in 1..Cardinality(S) : i < j => InOrder(S)[i] < InOrder(S)[j]
<1> DEFINE n == Cardinality(S)
           UpTo(i) == {j \in S : j <= i}
           rank == [i \in S |-> Cardinality(UpTo(i))]
           f == [k \in 1..n |-> CHOOSE i \in S : rank[i] = k]
<1>1. n \in Nat
  BY FS_CardinalityType
<1>2. \A i \in S : IsFiniteSet(UpTo(i))
  BY FS_Subset
<1>3. ASSUME NEW i \in S PROVE rank[i] \in 1..n
  <2>1. Cardinality(UpTo(i)) <= n /\ Cardinality(UpTo(i)) \in Nat
    BY <1>2, FS_Subset, FS_CardinalityType
  <2>2. UpTo(i) # {}
    OBVIOUS
  <2>3. Cardinality(UpTo(i)) # 0
    BY <1>2, <2>2, FS_EmptySet
  <2> QED
    BY <2>1, <2>3
<1>4. ASSUME NEW i \in S, NEW j \in S, i < j PROVE rank[i] < rank[j]
  <2>1. i \in Nat /\ j \in Nat
    OBVIOUS
  <2>4. ASSUME NEW k \in S, k <= i PROVE k <= j
    <3>1. k \in Nat
      OBVIOUS
    <3> QED
      BY <1>4, <2>1, <2>4, <3>1
  <2>5. j \in UpTo(j) /\ j \notin UpTo(i)
    BY <1>4, <2>1
  <2>2. Cardinality(UpTo(i)) <= Cardinality(UpTo(j)) /\ Cardinality(UpTo(i)) # Cardinality(UpTo(j))
    BY <1>2, <2>4, <2>5, FS_Subset
  <2>3. Cardinality(UpTo(i)) \in Nat /\ Cardinality(UpTo(j)) \in Nat
    BY <1>2, FS_CardinalityType
  <2> QED
    BY <2>2, <2>3
<1> HIDE DEF rank, UpTo
<1>5. rank \in Injection(S, 1..n)
  <2>1. rank \in [S -> 1..n]
    BY <1>3 DEF rank
  <2>2. ASSUME NEW i \in S, NEW j \in S, rank[i] = rank[j] PROVE i = j
    BY <1>3, <1>4, <2>2
  <2> QED
    BY <2>1, <2>2 DEF Injection, IsInjective
<1>6. rank \in Surjection(S, 1..n)
  BY <1>1, <1>5, FS_Interval, FS_Injection
<1>7. \A k \in 1..n : f[k] \in S /\ rank[f[k]] = k
  BY <1>6 DEF Surjection
<1> HIDE DEF f
<1>8. ASSUME NEW k \in 1..n, NEW l \in 1..n, k < l PROVE f[k] < f[l]
  <2>1. f[k] \in Nat /\ f[l] \in Nat
    BY <1>7
  <2>2. ~(f[l] < f[k]) /\ f[l] # f[k]
    <3>1. ~(l < k) /\ l # k
      BY <1>1, <1>8
    <3> QED
      BY <1>4, <1>7, <3>1
  <2> QED
    BY <2>1, <2>2
<1>9. f \in [1..n -> S]
  BY <1>7 DEF f
<1>10. \E g \in [1..n -> S] : \A i, j \in 1..n : i < j => g[i] < g[j]
  BY <1>8, <1>9
<1> QED
  BY <1>1, <1>10 DEF InOrder

-----------------------------------------------------------------------------
\* What the proofs tell apart of records, groups and the items of the stream.
AnyRecord == [by : Threads, to : Loggers, name : Nat, level : AllLevels, indent : Int, group : Nat]
Batches == Seq(AnyRecord)

\* Some of the records of a batch, in their order.
PartOf(some, all) ==
    \E f \in [DOMAIN some -> DOMAIN all] :
        /\ \A m, n \in DOMAIN some : m < n => f[m] < f[n]
        /\ \A m \in DOMAIN some :
              /\ some[m].by = all[f[m]].by /\ some[m].to = all[f[m]].to
              /\ some[m].name = all[f[m]].name /\ some[m].group = all[f[m]].group

\* A logger drops records of a batch and changes their indentation only.
LEMMA StampIsPart ==
    ASSUME NEW t \in Threads, NEW logger \in Loggers, NEW records \in Batches,
           indent \in [Threads -> [Loggers -> Int]]
    PROVE  /\ Stamp(t, logger, records) \in Batches
           /\ PartOf(Stamp(t, logger, records), records)
<1> DEFINE S == {i \in DOMAIN records : Enabled(logger, records[i].level)}
           passing == InOrder(S)
           some == Stamp(t, logger, records)
           n == Cardinality(S)
<1>1. DOMAIN records = 1..Len(records) /\ Len(records) \in Nat
  BY LenProperties DEF Batches
<1>2. S \in SUBSET Nat /\ IsFiniteSet(S)
  <2>1. S \in SUBSET (1..Len(records)) /\ S \in SUBSET Nat
    BY <1>1
  <2>2. IsFiniteSet(1..Len(records))
    BY <1>1, FS_Interval
  <2> HIDE DEF S
  <2> QED
    BY <2>1, <2>2, FS_Subset
<1>3. /\ n \in Nat /\ passing \in [1..n -> S]
      /\ \A i, j \in 1..n : i < j => passing[i] < passing[j]
  BY <1>2, Enumeration
<1>4. some = [k \in 1..n |-> [records[passing[k]] EXCEPT !.indent = indent[t][logger]]]
  BY <1>3 DEF Stamp
<1>5. \A k \in 1..n : passing[k] \in DOMAIN records /\ records[passing[k]] \in AnyRecord
  <2>1. S \in SUBSET DOMAIN records /\ \A i \in DOMAIN records : records[i] \in AnyRecord
    BY LenProperties DEF Batches
  <2> HIDE DEF S, passing, n
  <2> QED
    BY <1>3, <2>1
<1> HIDE DEF some, passing, n, S
<1>6. \A k \in 1..n : [records[passing[k]] EXCEPT !.indent = indent[t][logger]] \in AnyRecord
  BY <1>5 DEF AnyRecord
<1>7. some \in Batches
  <2>1. some \in [1..n -> AnyRecord]
    BY <1>4, <1>6
  <2> QED
    BY <1>3, <2>1, SeqDef DEF Batches
<1>8. PartOf(some, records)
  <2>1. passing \in [1..n -> DOMAIN records] /\ DOMAIN some = 1..n
    BY <1>3, <1>4, <1>5
  <2>2. ASSUME NEW m \in 1..n
        PROVE  /\ some[m].by = records[passing[m]].by /\ some[m].to = records[passing[m]].to
               /\ some[m].name = records[passing[m]].name /\ some[m].group = records[passing[m]].group
    BY <1>4, <1>5 DEF AnyRecord
  <2> QED
    BY <1>3, <2>1, <2>2 DEF PartOf
<1> QED
  BY <1>7, <1>8 DEF some

-----------------------------------------------------------------------------
\* Records of one thread for one logger.
Same(a, b) == a.by = b.by /\ a.to = b.to
Ascending(s) == \A m, n \in DOMAIN s : m < n /\ Same(s[m], s[n]) => s[m].name < s[n].name
Before(s, r) == \A m \in DOMAIN s, n \in DOMAIN r : Same(s[m], r[n]) => s[m].name < r[n].name
WrittenBy(t, s) == \A m \in DOMAIN s : s[m].by = t
SentTo(logger, s) == \A m \in DOMAIN s : s[m].to = logger
Within(names, groups, s) == \A m \in DOMAIN s : s[m].name <= names /\ s[m].group <= groups
GroupsIn(s) == {s[m].group : m \in DOMAIN s} \ {0}

\* A part of a batch has the order, the writer, the logger and the groups of all of it.
LEMMA PartKeeps ==
    ASSUME NEW some, NEW all, PartOf(some, all), DOMAIN some \subseteq Nat, DOMAIN all \subseteq Nat
    PROVE  /\ Ascending(all) => Ascending(some)
           /\ \A s : Before(s, all) => Before(s, some)
           /\ \A s : Before(all, s) => Before(some, s)
           /\ \A t : WrittenBy(t, all) => WrittenBy(t, some)
           /\ \A logger : SentTo(logger, all) => SentTo(logger, some)
           /\ \A names, groups : Within(names, groups, all) => Within(names, groups, some)
           /\ GroupsIn(some) \subseteq GroupsIn(all)
<1>1. PICK f \in [DOMAIN some -> DOMAIN all] :
        /\ \A m, n \in DOMAIN some : m < n => f[m] < f[n]
        /\ \A m \in DOMAIN some :
              /\ some[m].by = all[f[m]].by /\ some[m].to = all[f[m]].to
              /\ some[m].name = all[f[m]].name /\ some[m].group = all[f[m]].group
  BY DEF PartOf
<1>2. Ascending(all) => Ascending(some)
  BY <1>1 DEF Ascending, Same
<1>3. ASSUME NEW s PROVE (Before(s, all) => Before(s, some)) /\ (Before(all, s) => Before(some, s))
  BY <1>1 DEF Before, Same
<1>4. /\ \A t : WrittenBy(t, all) => WrittenBy(t, some)
      /\ \A logger : SentTo(logger, all) => SentTo(logger, some)
      /\ \A names, groups : Within(names, groups, all) => Within(names, groups, some)
  BY <1>1 DEF WrittenBy, SentTo, Within
<1>5. GroupsIn(some) \subseteq GroupsIn(all)
  BY <1>1 DEF GroupsIn
<1> QED
  BY <1>2, <1>3, <1>4, <1>5

\* Where the records of two batches are, when one follows the other.
LEMMA ConcatParts ==
    ASSUME NEW s \in Batches, NEW r \in Batches
    PROVE  /\ s \o r \in Batches
           /\ \A m \in DOMAIN (s \o r) :
                 \/ m \in DOMAIN s /\ (s \o r)[m] = s[m]
                 \/ m - Len(s) \in DOMAIN r /\ (s \o r)[m] = r[m - Len(s)] /\ m > Len(s)
           /\ \A m \in DOMAIN s : m \in DOMAIN (s \o r) /\ (s \o r)[m] = s[m] /\ m <= Len(s)
           /\ \A m \in DOMAIN r : m + Len(s) \in DOMAIN (s \o r) /\ (s \o r)[m + Len(s)] = r[m]
<1>1. /\ s \o r \in Batches /\ Len(s \o r) = Len(s) + Len(r)
      /\ \A i \in 1 .. Len(s) + Len(r) : (s \o r)[i] = IF i <= Len(s) THEN s[i] ELSE r[i - Len(s)]
  BY ConcatProperties DEF Batches
<1>2. /\ Len(s) \in Nat /\ DOMAIN s = 1..Len(s) /\ Len(r) \in Nat /\ DOMAIN r = 1..Len(r)
      /\ DOMAIN (s \o r) = 1..(Len(s) + Len(r))
  BY <1>1, LenProperties DEF Batches
<1> HIDE DEF Batches
<1> QED
  BY <1>1, <1>2

\* So has one batch behind another, if it has to be there.
LEMMA ConcatKeeps ==
    ASSUME NEW s \in Batches, NEW r \in Batches
    PROVE  /\ s \o r \in Batches
           /\ Ascending(s) /\ Ascending(r) /\ Before(s, r) => Ascending(s \o r)
           /\ \A q : Before(q, s) /\ Before(q, r) => Before(q, s \o r)
           /\ \A q : Before(s, q) /\ Before(r, q) => Before(s \o r, q)
           /\ \A t : WrittenBy(t, s) /\ WrittenBy(t, r) => WrittenBy(t, s \o r)
           /\ \A logger : SentTo(logger, s) /\ SentTo(logger, r) => SentTo(logger, s \o r)
           /\ \A names, groups : Within(names, groups, s) /\ Within(names, groups, r) => Within(names, groups, s \o r)
           /\ GroupsIn(s \o r) = GroupsIn(s) \union GroupsIn(r)
<1> DEFINE all == s \o r
           k == Len(s)
<1>1. /\ all \in Batches
      /\ \A m \in DOMAIN all :
            \/ m \in DOMAIN s /\ all[m] = s[m]
            \/ m - k \in DOMAIN r /\ all[m] = r[m - k] /\ m > k
      /\ \A m \in DOMAIN s : m \in DOMAIN all /\ all[m] = s[m] /\ m <= k
      /\ \A m \in DOMAIN r : m + k \in DOMAIN all /\ all[m + k] = r[m]
  BY ConcatParts
<1>2. DOMAIN all \subseteq Nat /\ k \in Nat
  BY <1>1, LenProperties DEF Batches
<1> HIDE DEF all, k
<1>3. ASSUME Ascending(s), Ascending(r), Before(s, r) PROVE Ascending(all)
  <2> SUFFICES ASSUME NEW m \in DOMAIN all, NEW n \in DOMAIN all, m < n, Same(all[m], all[n])
               PROVE  all[m].name < all[n].name
    BY DEF Ascending
  <2>1. CASE m \in DOMAIN s /\ all[m] = s[m] /\ n \in DOMAIN s /\ all[n] = s[n]
    BY <1>3, <2>1 DEF Ascending
  <2>2. CASE m \in DOMAIN s /\ all[m] = s[m] /\ n - k \in DOMAIN r /\ all[n] = r[n - k]
    BY <1>3, <2>2 DEF Before
  <2>3. CASE m - k \in DOMAIN r /\ all[m] = r[m - k] /\ n - k \in DOMAIN r /\ all[n] = r[n - k]
    <3>1. m - k < n - k
      BY <1>2
    <3> QED
      BY <1>3, <2>3, <3>1 DEF Ascending
  <2>4. CASE m > k /\ n \in DOMAIN s
    BY <1>1, <1>2, <2>4
  <2> QED
    BY <1>1, <2>1, <2>2, <2>3, <2>4
<1>4. ASSUME NEW q
      PROVE  /\ Before(q, s) /\ Before(q, r) => Before(q, all)
             /\ Before(s, q) /\ Before(r, q) => Before(all, q)
  BY <1>1 DEF Before
<1>5. /\ \A t : WrittenBy(t, s) /\ WrittenBy(t, r) => WrittenBy(t, all)
      /\ \A logger : SentTo(logger, s) /\ SentTo(logger, r) => SentTo(logger, all)
      /\ \A names, groups : Within(names, groups, s) /\ Within(names, groups, r) => Within(names, groups, all)
  BY <1>1 DEF WrittenBy, SentTo, Within
<1>6. GroupsIn(all) = GroupsIn(s) \union GroupsIn(r)
  <2>1. \A g \in GroupsIn(all) : g \in GroupsIn(s) \union GroupsIn(r)
    BY <1>1 DEF GroupsIn
  <2>2. \A g \in GroupsIn(s) \union GroupsIn(r) : g \in GroupsIn(all)
    BY <1>1 DEF GroupsIn
  <2> QED
    BY <2>1, <2>2
<1> QED
  BY <1>1, <1>3, <1>4, <1>5, <1>6 DEF all

-----------------------------------------------------------------------------
\* The channel.
Streams == Seq([what : Batches, id : Nat])

\* Some of the items of a stream, in their order.
Thinned(some, all) ==
    \E f \in [DOMAIN some -> DOMAIN all] :
        /\ \A i, j \in DOMAIN some : i < j => f[i] < f[j]
        /\ \A i \in DOMAIN some : some[i].what = all[f[i]].what

\* A sequence is its first element and the rest.
LEMMA HeadAndTail ==
    ASSUME NEW S, NEW s \in Seq(S), s # <<>>
    PROVE  <<Head(s)>> \in Seq(S) /\ Tail(s) \in Seq(S) /\ s = <<Head(s)>> \o Tail(s)
<1> DEFINE one == <<Head(s)>>
           rest == Tail(s)
<1>1. /\ Len(s) \in Nat \ {0} /\ rest \in Seq(S) /\ Len(rest) = Len(s) - 1
      /\ \A i \in 1..Len(rest) : rest[i] = s[i + 1]
  BY HeadTailProperties, EmptySeq
<1>2. one \in Seq(S) /\ Len(one) = 1 /\ one[1] = s[1]
  BY HeadTailProperties, EmptySeq
<1> HIDE DEF one, rest
<1>3. /\ one \o rest \in Seq(S) /\ Len(one \o rest) = Len(one) + Len(rest)
      /\ \A i \in 1 .. Len(one) + Len(rest) : (one \o rest)[i] = IF i <= Len(one) THEN one[i] ELSE rest[i - Len(one)]
  BY <1>1, <1>2, ConcatProperties
<1>4. Len(one \o rest) = Len(s)
  BY <1>1, <1>2, <1>3
<1>5. ASSUME NEW i \in 1..Len(s) PROVE s[i] = (one \o rest)[i]
  <2>1. CASE i = 1
    BY <1>1, <1>2, <1>3, <2>1
  <2>2. CASE i # 1
    BY <1>1, <1>2, <1>3, <2>2
  <2> QED
    BY <2>1, <2>2
<1>6. s = one \o rest
  BY <1>3, <1>4, <1>5, SeqEqual
<1> QED
  BY <1>1, <1>2, <1>6 DEF one, rest

\* A delivery moves an item from the channel to the sinks: the stream stays.
LEMMA DeliverStream ==
    ASSUME channel \in Streams, sinks \in Streams, Log!Deliver
    PROVE  Stream' = Stream /\ channel' \in Streams /\ sinks' \in Streams
<1> DEFINE kind == [what : Batches, id : Nat]
           one == <<Head(channel)>>
           rest == Tail(channel)
<1>1. channel # <<>> /\ sinks' = Append(sinks, Head(channel)) /\ channel' = rest
  BY DEF Log!Deliver
<1>2. channel \in Seq(kind) /\ sinks \in Seq(kind)
  BY DEF Streams
<1> HIDE DEF kind
<1>3. one \in Seq(kind) /\ rest \in Seq(kind) /\ channel = one \o rest /\ Head(channel) \in kind
  BY <1>1, <1>2, HeadAndTail, HeadTailProperties
<1>4. sinks' = sinks \o one /\ sinks' \in Seq(kind)
  BY <1>1, <1>2, <1>3, AppendIsConcat, AppendProperties
<1> HIDE DEF one, rest
<1>5. (sinks \o one) \o rest = sinks \o (one \o rest)
  BY <1>2, <1>3, ConcatAssociative
<1>6. Stream' = Stream
  BY <1>1, <1>3, <1>4, <1>5, Zenon DEF Stream
<1> QED
  BY <1>1, <1>3, <1>4, <1>6 DEF Streams, kind

\* A sequence without the element at one position.
Without(s, i) == SubSeq(s, 1, i - 1) \o SubSeq(s, i + 1, Len(s))

\* A sequence without one of its elements.
LEMMA WithoutOne ==
    ASSUME NEW S, NEW s \in Seq(S), NEW i \in 1..Len(s)
    PROVE  /\ Without(s, i) \in Seq(S) /\ Len(Without(s, i)) = Len(s) - 1
           /\ \A k \in 1..(Len(s) - 1) : /\ k < i => Without(s, i)[k] = s[k]
                                         /\ k >= i => Without(s, i)[k] = s[k + 1]
<1> DEFINE left == SubSeq(s, 1, i - 1)
           right == SubSeq(s, i + 1, Len(s))
           c == Len(s)
<1>1. c \in Nat /\ i \in Nat /\ 1 <= i /\ i <= c /\ \A k \in 1..c : s[k] \in S
  BY LenProperties
<1> HIDE DEF c
<1>2. left \in Seq(S) /\ Len(left) = i - 1 /\ \A k \in 1..(i - 1) : left[k] = s[k]
  <2>1. \A k \in 1..(i - 1) : s[k] \in S
    BY <1>1
  <2>2. /\ left \in Seq(S) /\ Len(left) = IF 1 <= i - 1 THEN (i - 1) - 1 + 1 ELSE 0
        /\ \A k \in 1..((i - 1) - 1 + 1) : left[k] = s[1 + k - 1]
    BY <1>1, <2>1, SubSeqProperties
  <2> HIDE DEF left
  <2> QED
    BY <1>1, <2>2
<1>3. right \in Seq(S) /\ Len(right) = c - i /\ \A k \in 1..(c - i) : right[k] = s[i + k]
  <2>1. \A k \in (i + 1)..c : s[k] \in S
    BY <1>1
  <2>2. /\ right \in Seq(S) /\ Len(right) = IF i + 1 <= c THEN c - (i + 1) + 1 ELSE 0
        /\ \A k \in 1..(c - (i + 1) + 1) : right[k] = s[(i + 1) + k - 1]
    BY <1>1, <2>1, SubSeqProperties DEF c
  <2> HIDE DEF right
  <2> QED
    BY <1>1, <2>2
<1> HIDE DEF left, right
<1>4. /\ left \o right \in Seq(S) /\ Len(left \o right) = Len(left) + Len(right)
      /\ \A k \in 1..(Len(left) + Len(right)) :
            (left \o right)[k] = IF k <= Len(left) THEN left[k] ELSE right[k - Len(left)]
  BY <1>2, <1>3, ConcatProperties
<1> DEFINE rest == left \o right
<1>5. Len(left) + Len(right) = c - 1
  BY <1>1, <1>2, <1>3
<1>6. /\ rest \in Seq(S) /\ Len(rest) = c - 1
      /\ \A k \in 1..(c - 1) : rest[k] = IF k <= i - 1 THEN left[k] ELSE right[k - (i - 1)]
  BY <1>2, <1>4, <1>5
<1> HIDE DEF rest
<1>7. ASSUME NEW k \in 1..(c - 1), k < i PROVE rest[k] = s[k]
  <2>1. k <= i - 1 /\ k \in 1..(i - 1)
    BY <1>1, <1>7
  <2> QED
    BY <1>2, <1>6, <2>1
<1>8. ASSUME NEW k \in 1..(c - 1), k >= i PROVE rest[k] = s[k + 1]
  <2>1. ~(k <= i - 1) /\ k - (i - 1) \in 1..(c - i) /\ i + (k - (i - 1)) = k + 1
    BY <1>1, <1>8
  <2>2. rest[k] = right[k - (i - 1)]
    BY <1>6, <2>1
  <2>3. right[k - (i - 1)] = s[i + (k - (i - 1))]
    BY <1>3, <2>1
  <2> QED
    BY <2>1, <2>2, <2>3
<1> QED
  BY <1>6, <1>7, <1>8 DEF Without, rest, left, right, c

\* A stream from whose second part one item is missing.
LEMMA LostStream ==
    ASSUME NEW s \in Streams, NEW r \in Streams, NEW i \in 1..Len(r)
    PROVE  s \o Without(r, i) \in Streams /\ Thinned(s \o Without(r, i), s \o r)
<1> DEFINE n == Len(s)
           c == Len(r)
           some == s \o Without(r, i)
           all == s \o r
           f == [k \in 1..(n + c - 1) |-> IF k < n + i THEN k ELSE k + 1]
<1>1. n \in Nat /\ c \in Nat /\ i \in Nat /\ 1 <= i /\ i <= c
  BY LenProperties DEF Streams
<1>2. /\ Without(r, i) \in Streams /\ Len(Without(r, i)) = c - 1
      /\ \A k \in 1..(c - 1) : /\ k < i => Without(r, i)[k] = r[k]
                               /\ k >= i => Without(r, i)[k] = r[k + 1]
  BY WithoutOne DEF Streams
<1>3. /\ all \in Streams /\ Len(all) = n + c
      /\ \A k \in 1..(n + c) : all[k] = IF k <= n THEN s[k] ELSE r[k - n]
  BY ConcatProperties DEF Streams
<1>4. /\ some \in Streams /\ Len(some) = n + Len(Without(r, i))
      /\ \A k \in 1..(n + Len(Without(r, i))) : some[k] = IF k <= n THEN s[k] ELSE Without(r, i)[k - n]
  BY <1>2, ConcatProperties DEF Streams
<1>5. DOMAIN all = 1..Len(all) /\ DOMAIN some = 1..Len(some)
  BY <1>3, <1>4, LenProperties DEF Streams
<1> HIDE DEF n, c, some, all
<1>6. DOMAIN all = 1..(n + c) /\ DOMAIN some = 1..(n + c - 1)
  BY <1>1, <1>2, <1>3, <1>4, <1>5
<1>7. ASSUME NEW k \in 1..(n + c - 1) PROVE some[k] = all[f[k]] /\ f[k] \in 1..(n + c)
  <2>1. some[k] = IF k <= n THEN s[k] ELSE Without(r, i)[k - n]
    BY <1>1, <1>2, <1>4
  <2>2. CASE k <= n
    BY <1>1, <1>3, <2>1, <2>2
  <2>3. CASE k > n /\ k < n + i
    <3>1. k - n \in 1..(c - 1) /\ k - n < i /\ ~(k <= n) /\ k \in 1..(n + c)
      BY <1>1, <2>3
    <3>2. some[k] = r[k - n] /\ all[k] = r[k - n]
      BY <1>2, <1>3, <2>1, <3>1
    <3> QED
      BY <2>3, <3>1, <3>2
  <2>4. CASE k > n /\ k >= n + i
    <3>1. /\ k - n \in 1..(c - 1) /\ k - n >= i /\ ~(k <= n) /\ k + 1 \in 1..(n + c)
          /\ ~(k + 1 <= n) /\ k + 1 - n = k - n + 1 /\ ~(k < n + i)
      BY <1>1, <2>4
    <3> DEFINE q == k - n
               x == k + 1
    <3>2. x \in 1..(n + c) /\ ~(x <= n) /\ x - n = q + 1 /\ q \in 1..(c - 1) /\ q >= i /\ f[k] = x
      BY <1>1, <2>4, <3>1
    <3>3. some[k] = Without(r, i)[q]
      BY <2>1, <3>1
    <3> HIDE DEF x, q, f
    <3>4. all[x] = r[x - n]
      BY <1>3, <3>2
    <3>5. Without(r, i)[q] = r[q + 1]
      BY <1>2, <3>2
    <3> QED
      BY <3>2, <3>3, <3>4, <3>5
  <2> QED
    BY <1>1, <2>2, <2>3, <2>4
<1>8. \A k, l \in 1..(n + c - 1) : k < l => f[k] < f[l]
  BY <1>1
<1>9. f \in [1..(n + c - 1) -> 1..(n + c)]
  BY <1>7
<1> HIDE DEF f
<1>10. Thinned(some, all)
  BY <1>6, <1>7, <1>8, <1>9 DEF Thinned
<1> QED
  BY <1>4, <1>10 DEF some, all

\* An element goes to the end of both.
LEMMA ConcatAppend ==
    ASSUME NEW S, NEW s \in Seq(S), NEW r \in Seq(S), NEW x \in S
    PROVE  s \o Append(r, x) = Append(s \o r, x)
<1>1. <<x>> \in Seq(S)
  OBVIOUS
<1>2. Append(r, x) = r \o <<x>>
  BY AppendIsConcat
<1>3. s \o r \in Seq(S)
  BY ConcatProperties
<1>4. Append(s \o r, x) = (s \o r) \o <<x>>
  BY <1>3, AppendIsConcat
<1>5. (s \o r) \o <<x>> = s \o (r \o <<x>>)
  BY <1>1, ConcatAssociative
<1> QED
  BY <1>2, <1>4, <1>5, Zenon

\* What the sinks have got or will get when a record is sent: what they would have got
\* without it, or all that but one item, and then the record.
LEMMA EnqueueStream ==
    ASSUME channel \in Streams, sinks \in Streams, sent \in Nat, NEW records \in Batches, Enqueue(records)
    PROVE  /\ channel' \in Streams /\ sinks' \in Streams /\ sent' \in Nat
           /\ Stream \in Streams
           /\ Log!Item(records) \in [what : Batches, id : Nat] /\ Log!Item(records).what = records
           /\ \E thinner \in Streams : /\ Thinned(thinner, Stream)
                                       /\ Stream' = Append(thinner, Log!Item(records))
<1> DEFINE item == Log!Item(records)
<1>1. item \in [what : Batches, id : Nat] /\ item.what = records
  BY DEF Log!Item
<1>2. sinks' = sinks /\ sent' = sent + 1
  BY DEF Enqueue, Log!Send, Log!SendAndLose
<1>3. Stream \in Streams
  BY ConcatProperties DEF Stream, Streams
<1> HIDE DEF item
<1>4. CASE Log!Send(records)
  <2>1. channel' = Append(channel, item)
    BY <1>4 DEF Log!Send, item
  <2>2. channel' \in Streams
    BY <1>1, <2>1, AppendProperties DEF Streams
  <2>3. Stream' = Append(Stream, item)
    BY <1>1, <1>2, <2>1, ConcatAppend DEF Stream, Streams
  <2>4. Thinned(Stream, Stream)
    <3>1. DOMAIN Stream = 1..Len(Stream)
      BY <1>3, LenProperties DEF Streams
    <3> DEFINE f == [i \in DOMAIN Stream |-> i]
    <3>2. f \in [DOMAIN Stream -> DOMAIN Stream]
      OBVIOUS
    <3> QED
      BY <3>1, <3>2 DEF Thinned
  <2> QED
    BY <1>1, <1>2, <1>3, <2>2, <2>3, <2>4 DEF item
<1>5. ASSUME NEW i \in 1..Len(channel), Log!SendAndLose(records, i)
      PROVE  channel' \in Streams /\ \E thinner \in Streams : Thinned(thinner, Stream) /\ Stream' = Append(thinner, item)
  <2> DEFINE rest == Without(channel, i)
             thinner == sinks \o rest
  <2>1. channel' = Append(rest, item)
    BY <1>5 DEF Log!SendAndLose, Without, item
  <2>2. rest \in Streams
    BY WithoutOne DEF Streams
  <2>3. thinner \in Streams /\ Thinned(thinner, Stream)
    BY LostStream DEF Stream
  <2> HIDE DEF rest
  <2>4. channel' \in Streams
    BY <1>1, <2>1, <2>2, AppendProperties DEF Streams
  <2>5. Stream' = Append(thinner, item)
    BY <1>1, <1>2, <2>1, <2>2, ConcatAppend DEF Stream, Streams
  <2> QED
    BY <2>3, <2>4, <2>5
<1> QED
  BY <1>1, <1>2, <1>3, <1>4, <1>5 DEF Enqueue, item

-----------------------------------------------------------------------------
\* Records are where they may be: in the stream of items, or held for a thread by one of
\* the two loggers.
Buffers == [Threads -> [Loggers -> Batches]]
Groupings == [Threads -> [Loggers -> Nat]]

\* The order of one thread's records for one logger.
Ordered(stream, held) ==
    /\ \A i \in DOMAIN stream : Ascending(stream[i].what)
    /\ \A i, j \in DOMAIN stream : i < j => Before(stream[i].what, stream[j].what)
    /\ \A i \in DOMAIN stream, t \in Threads, l \in Loggers : Before(stream[i].what, held[t][l])
    /\ \A t \in Threads, l \in Loggers : Ascending(held[t][l])
    /\ \A t \in Threads : Before(held[t]["main"], held[t]["service"])
    /\ \A t \in Threads : SentTo("service", held[t]["service"])

\* No group is in two places, and one that is open is where its thread collects it.
Whole(stream, held, open) ==
    /\ \A i \in DOMAIN stream : \E t \in Threads : WrittenBy(t, stream[i].what)
    /\ \A t \in Threads, l \in Loggers : WrittenBy(t, held[t][l])
    /\ \A i, j \in DOMAIN stream : i # j => GroupsIn(stream[i].what) \intersect GroupsIn(stream[j].what) = {}
    /\ \A i \in DOMAIN stream, t \in Threads, l \in Loggers :
          /\ GroupsIn(stream[i].what) \intersect GroupsIn(held[t][l]) = {}
          /\ open[t][l] \notin GroupsIn(stream[i].what)
    /\ \A t, u \in Threads, l, k \in Loggers :
          t # u \/ l # k => /\ GroupsIn(held[t][l]) \intersect GroupsIn(held[u][k]) = {}
                            /\ open[t][l] \notin GroupsIn(held[u][k])

\* Names and groups are those given so far.
Numbered(stream, held, names, groups) ==
    /\ \A i \in DOMAIN stream : Within(names, groups, stream[i].what)
    /\ \A t \in Threads, l \in Loggers : Within(names, groups, held[t][l])

\* A stream that has lost an item is still in order, whole and numbered.
LEMMA ThinnedKeeps ==
    ASSUME NEW some, NEW all, Thinned(some, all), DOMAIN some \subseteq Nat, DOMAIN all \subseteq Nat,
           NEW held, NEW open, NEW names, NEW groups,
           Ordered(all, held), Whole(all, held, open), Numbered(all, held, names, groups)
    PROVE  Ordered(some, held) /\ Whole(some, held, open) /\ Numbered(some, held, names, groups)
<1>1. PICK f \in [DOMAIN some -> DOMAIN all] :
        /\ \A i, j \in DOMAIN some : i < j => f[i] < f[j]
        /\ \A i \in DOMAIN some : some[i].what = all[f[i]].what
  BY DEF Thinned
<1>2. \A i, j \in DOMAIN some : i # j => f[i] # f[j]
  <2> SUFFICES ASSUME NEW i \in DOMAIN some, NEW j \in DOMAIN some, i # j PROVE f[i] # f[j]
    OBVIOUS
  <2>1. i \in Nat /\ j \in Nat /\ f[i] \in Nat /\ f[j] \in Nat
    BY <1>1
  <2>2. i < j \/ j < i
    BY <2>1
  <2>3. f[i] < f[j] \/ f[j] < f[i]
    BY <1>1, <2>2
  <2> QED
    BY <2>1, <2>3
<1>3. \A i \in DOMAIN some : f[i] \in DOMAIN all
  BY <1>1
<1>4. Ordered(some, held)
  BY <1>1, <1>3, Zenon DEF Ordered
<1>5. Whole(some, held, open)
  <2>1. \A i \in DOMAIN some : \E t \in Threads : WrittenBy(t, some[i].what)
    BY <1>1, <1>3, Zenon DEF Whole
  <2>2. \A t \in Threads, l \in Loggers : WrittenBy(t, held[t][l])
    BY Zenon DEF Whole
  <2>3. \A i, j \in DOMAIN some : i # j => GroupsIn(some[i].what) \intersect GroupsIn(some[j].what) = {}
    BY <1>1, <1>2, <1>3, Zenon DEF Whole
  <2>4. \A i \in DOMAIN some, t \in Threads, l \in Loggers :
          /\ GroupsIn(some[i].what) \intersect GroupsIn(held[t][l]) = {}
          /\ open[t][l] \notin GroupsIn(some[i].what)
    BY <1>1, <1>3, Zenon DEF Whole
  <2>5. \A t, u \in Threads, l, k \in Loggers :
          t # u \/ l # k => /\ GroupsIn(held[t][l]) \intersect GroupsIn(held[u][k]) = {}
                            /\ open[t][l] \notin GroupsIn(held[u][k])
    BY Zenon DEF Whole
  <2> QED
    BY <2>1, <2>2, <2>3, <2>4, <2>5, Zenon DEF Whole
<1>6. Numbered(some, held, names, groups)
  BY <1>1, <1>3, Zenon DEF Numbered
<1> QED
  BY <1>4, <1>5, <1>6

\* A batch that may follow what is in the stream.
Follows(b, t, stream) ==
    /\ b \in Batches /\ Ascending(b) /\ WrittenBy(t, b)
    /\ \A i \in DOMAIN stream : /\ Before(stream[i].what, b)
                                /\ GroupsIn(stream[i].what) \intersect GroupsIn(b) = {}

\* It may be sent, or it may be held by one logger.
MaySend(b, t, stream, held, open) ==
    /\ Follows(b, t, stream)
    /\ \A l \in Loggers : Before(b, held[t][l])
    /\ \A u \in Threads, k \in Loggers :
          GroupsIn(b) \intersect GroupsIn(held[u][k]) = {} /\ open[u][k] \notin GroupsIn(b)

MayHold(b, t, l, stream, held, open) ==
    /\ Follows(b, t, stream)
    /\ Before(held[t][l], b)
    /\ l = "main" => Before(b, held[t]["service"])
    /\ l = "service" => Before(held[t]["main"], b) /\ SentTo("service", b)
    /\ \A u \in Threads, k \in Loggers :
          u # t \/ k # l => GroupsIn(b) \intersect GroupsIn(held[u][k]) = {} /\ open[u][k] \notin GroupsIn(b)

\* There is no order between the records of two threads.
LEMMA OthersBefore ==
    ASSUME NEW t, NEW u, t # u, NEW s, NEW r, WrittenBy(t, s), WrittenBy(u, r)
    PROVE  Before(s, r)
  BY DEF WrittenBy, Before, Same

\* A batch that may be sent goes to the end of the stream.
LEMMA SendKeeps ==
    ASSUME NEW stream \in Streams, NEW held, NEW open, NEW names, NEW groups,
           NEW t \in Threads, NEW item \in [what : Batches, id : Nat],
           MaySend(item.what, t, stream, held, open), Within(names, groups, item.what),
           Ordered(stream, held), Whole(stream, held, open), Numbered(stream, held, names, groups)
    PROVE  /\ Ordered(Append(stream, item), held) /\ Whole(Append(stream, item), held, open)
           /\ Numbered(Append(stream, item), held, names, groups)
<1> DEFINE all == Append(stream, item)
           n == Len(stream)
           b == item.what
<1>1. /\ n \in Nat /\ DOMAIN stream = 1..n /\ DOMAIN all = 1..(n + 1)
      /\ all[n + 1] = item /\ \A i \in 1..n : all[i] = stream[i]
  <2>1. /\ all \in Streams /\ Len(all) = n + 1 /\ all[n + 1] = item
        /\ \A i \in 1..n : all[i] = stream[i]
    BY AppendProperties DEF Streams
  <2> QED
    BY <2>1, LenProperties DEF Streams
<1> HIDE DEF all, n
<1>2. /\ \A i \in DOMAIN all : \/ i \in DOMAIN stream /\ all[i] = stream[i] /\ i < n + 1
                               \/ i = n + 1 /\ all[i] = item
      /\ \A i, j \in DOMAIN all : i < j => i \in DOMAIN stream
      /\ \A i \in DOMAIN stream : ~(n + 1 < i)
  BY <1>1
<1>3. \A u \in Threads, l \in Loggers : Before(b, held[u][l])
  BY OthersBefore, Zenon DEF MaySend, Follows, Whole
<1> HIDE DEF b
<1>4. Ordered(all, held)
  <2>1. \A i \in DOMAIN all : Ascending(all[i].what)
    BY <1>2, Zenon DEF Ordered, MaySend, Follows, b
  <2>2. \A i, j \in DOMAIN all : i < j => Before(all[i].what, all[j].what)
    BY <1>2, Zenon DEF Ordered, MaySend, Follows, b
  <2>3. \A i \in DOMAIN all, u \in Threads, l \in Loggers : Before(all[i].what, held[u][l])
    BY <1>2, <1>3, Zenon DEF Ordered, b
  <2> QED
    BY <2>1, <2>2, <2>3, Zenon DEF Ordered
<1>5. Whole(all, held, open)
  <2>1. \A i \in DOMAIN all : \E u \in Threads : WrittenBy(u, all[i].what)
    BY <1>2, Zenon DEF Whole, MaySend, Follows, b
  <2>2. \A i, j \in DOMAIN all : i # j => GroupsIn(all[i].what) \intersect GroupsIn(all[j].what) = {}
    <3> SUFFICES ASSUME NEW i \in DOMAIN all, NEW j \in DOMAIN all, i # j
                 PROVE  GroupsIn(all[i].what) \intersect GroupsIn(all[j].what) = {}
      OBVIOUS
    <3>1. CASE i \in DOMAIN stream /\ all[i] = stream[i] /\ j \in DOMAIN stream /\ all[j] = stream[j]
      BY <3>1, Zenon DEF Whole
    <3>2. CASE i \in DOMAIN stream /\ all[i] = stream[i] /\ all[j] = item
      BY <3>2, Zenon DEF MaySend, Follows
    <3>3. CASE all[i] = item /\ j \in DOMAIN stream /\ all[j] = stream[j]
      <4>1. GroupsIn(stream[j].what) \intersect GroupsIn(item.what) = {}
        BY <3>3, Zenon DEF MaySend, Follows
      <4>2. GroupsIn(item.what) \intersect GroupsIn(stream[j].what) = {}
        BY <4>1
      <4> QED
        BY <3>3, <4>2, Zenon
    <3> QED
      BY <1>2, <3>1, <3>2, <3>3, Zenon
  <2>3. \A i \in DOMAIN all, u \in Threads, l \in Loggers :
          /\ GroupsIn(all[i].what) \intersect GroupsIn(held[u][l]) = {}
          /\ open[u][l] \notin GroupsIn(all[i].what)
    BY <1>2, Zenon DEF Whole, MaySend, b
  <2> QED
    BY <2>1, <2>2, <2>3, Zenon DEF Whole
<1>6. Numbered(all, held, names, groups)
  BY <1>2, Zenon DEF Numbered, b
<1> QED
  BY <1>4, <1>5, <1>6 DEF all

\* What is held, with one batch replaced.
Held(held, t, l, b) == [held EXCEPT ![t] = [held[t] EXCEPT ![l] = b]]

\* One place of the buffers is replaced.
LEMMA HeldIs ==
    ASSUME NEW held \in Buffers, NEW t \in Threads, NEW l \in Loggers, NEW b \in Batches
    PROVE  /\ Held(held, t, l, b) \in Buffers
           /\ Held(held, t, l, b)[t][l] = b
           /\ \A u \in Threads, k \in Loggers : u # t \/ k # l => Held(held, t, l, b)[u][k] = held[u][k]
  BY DEF Held, Buffers

\* A batch that may be held goes to the end of what its thread holds.
LEMMA HoldKeeps ==
    ASSUME NEW stream, NEW held \in Buffers, NEW open, NEW names, NEW groups,
           NEW t \in Threads, NEW l \in Loggers, NEW b,
           MayHold(b, t, l, stream, held, open), Within(names, groups, b),
           Ordered(stream, held), Whole(stream, held, open), Numbered(stream, held, names, groups)
    PROVE  /\ Held(held, t, l, held[t][l] \o b) \in Buffers
           /\ Ordered(stream, Held(held, t, l, held[t][l] \o b))
           /\ Whole(stream, Held(held, t, l, held[t][l] \o b), open)
           /\ Numbered(stream, Held(held, t, l, held[t][l] \o b), names, groups)
<1> DEFINE s == held[t][l]
           new == s \o b
           after == Held(held, t, l, new)
<1>1. s \in Batches /\ b \in Batches
  BY DEF Buffers, MayHold, Follows
<1>2. new \in Batches
  BY <1>1, ConcatKeeps
<1>3. /\ after \in Buffers /\ after[t][l] = new
      /\ \A u \in Threads, k \in Loggers : u # t \/ k # l => after[u][k] = held[u][k]
  <2> HIDE DEF new
  <2> QED
    BY <1>2, HeldIs
<1> HIDE DEF after, new, s
<1>4. /\ Ascending(s) /\ Ascending(b) /\ Before(s, b) => Ascending(new)
      /\ \A q : Before(q, s) /\ Before(q, b) => Before(q, new)
      /\ \A q : Before(s, q) /\ Before(b, q) => Before(new, q)
      /\ \A u : WrittenBy(u, s) /\ WrittenBy(u, b) => WrittenBy(u, new)
      /\ \A k : SentTo(k, s) /\ SentTo(k, b) => SentTo(k, new)
      /\ Within(names, groups, s) /\ Within(names, groups, b) => Within(names, groups, new)
      /\ GroupsIn(new) = GroupsIn(s) \union GroupsIn(b)
  BY <1>1, ConcatKeeps DEF new
<1>5. Ordered(stream, after)
  <2>1. \A i \in DOMAIN stream, u \in Threads, k \in Loggers : Before(stream[i].what, after[u][k])
    BY <1>3, <1>4, Zenon DEF Ordered, MayHold, Follows, s
  <2>2. \A u \in Threads, k \in Loggers : Ascending(after[u][k])
    BY <1>3, <1>4, Zenon DEF Ordered, MayHold, Follows, s
  <2>3. \A u \in Threads : Before(after[u]["main"], after[u]["service"])
    <3>0. "main" \in Loggers /\ "service" \in Loggers /\ Loggers = {"main", "service"}
      BY DEF Loggers
    <3> SUFFICES ASSUME NEW u \in Threads PROVE Before(after[u]["main"], after[u]["service"])
      OBVIOUS
    <3>4. Before(held[u]["main"], held[u]["service"])
      BY Zenon DEF Ordered
    <3>1. CASE u # t
      BY <1>3, <3>0, <3>1, <3>4, Zenon
    <3>2. CASE u = t /\ l = "main"
      BY <1>3, <1>4, <3>0, <3>2, <3>4 DEF MayHold, s
    <3>3. CASE u = t /\ l = "service"
      BY <1>3, <1>4, <3>0, <3>3, <3>4 DEF MayHold, s
    <3> QED
      BY <3>0, <3>1, <3>2, <3>3
  <2>4. \A u \in Threads : SentTo("service", after[u]["service"])
    <3>0. "service" \in Loggers
      BY DEF Loggers
    <3> QED
      BY <1>3, <1>4, <3>0, Zenon DEF Ordered, MayHold, s
  <2> QED
    BY <2>1, <2>2, <2>3, <2>4, Zenon DEF Ordered
<1>6. Whole(stream, after, open)
  <2>1. \A u \in Threads, k \in Loggers : WrittenBy(u, after[u][k])
    <3>1. WrittenBy(t, after[t][l])
      BY <1>3, <1>4, Zenon DEF Whole, MayHold, Follows, s
    <3> QED
      BY <1>3, <3>1, Zenon DEF Whole
  <2>2. \A i \in DOMAIN stream, u \in Threads, k \in Loggers :
          GroupsIn(stream[i].what) \intersect GroupsIn(after[u][k]) = {}
    <3> SUFFICES ASSUME NEW i \in DOMAIN stream, NEW u \in Threads, NEW k \in Loggers
                 PROVE  GroupsIn(stream[i].what) \intersect GroupsIn(after[u][k]) = {}
      OBVIOUS
    <3>1. GroupsIn(stream[i].what) \intersect GroupsIn(held[u][k]) = {}
      BY Zenon DEF Whole
    <3>2. GroupsIn(stream[i].what) \intersect GroupsIn(b) = {}
      BY Zenon DEF MayHold, Follows
    <3>3. CASE u = t /\ k = l
      <4>1. GroupsIn(after[u][k]) = GroupsIn(held[u][k]) \union GroupsIn(b)
        BY <1>3, <1>4, <3>3, Zenon DEF s
      <4> QED
        BY <3>1, <3>2, <4>1
    <3>4. CASE u # t \/ k # l
      BY <1>3, <3>1, <3>4, Zenon
    <3> QED
      BY <3>3, <3>4
  <2>3. \A u, w \in Threads, k, m \in Loggers :
          u # w \/ k # m => /\ GroupsIn(after[u][k]) \intersect GroupsIn(after[w][m]) = {}
                            /\ open[u][k] \notin GroupsIn(after[w][m])
    <3> SUFFICES ASSUME NEW u \in Threads, NEW w \in Threads, NEW k \in Loggers, NEW m \in Loggers,
                        u # w \/ k # m
                 PROVE  /\ GroupsIn(after[u][k]) \intersect GroupsIn(after[w][m]) = {}
                        /\ open[u][k] \notin GroupsIn(after[w][m])
      OBVIOUS
    <3>1. /\ GroupsIn(held[u][k]) \intersect GroupsIn(held[w][m]) = {}
          /\ open[u][k] \notin GroupsIn(held[w][m])
      BY Zenon DEF Whole
    <3>2. CASE u = t /\ k = l
      <4>1. GroupsIn(after[u][k]) = GroupsIn(held[u][k]) \union GroupsIn(b) /\ after[w][m] = held[w][m]
        BY <1>3, <1>4, <3>2, Zenon DEF s
      <4>2. GroupsIn(b) \intersect GroupsIn(held[w][m]) = {}
        BY <3>2, Zenon DEF MayHold
      <4> QED
        BY <3>1, <4>1, <4>2
    <3>3. CASE w = t /\ m = l
      <4>1. GroupsIn(after[w][m]) = GroupsIn(held[w][m]) \union GroupsIn(b) /\ after[u][k] = held[u][k]
        BY <1>3, <1>4, <3>3, Zenon DEF s
      <4>2. GroupsIn(b) \intersect GroupsIn(held[u][k]) = {} /\ open[u][k] \notin GroupsIn(b)
        BY <3>3, Zenon DEF MayHold
      <4> QED
        BY <3>1, <4>1, <4>2
    <3>4. CASE (u # t \/ k # l) /\ (w # t \/ m # l)
      BY <1>3, <3>1, <3>4, Zenon
    <3> QED
      BY <3>2, <3>3, <3>4
  <2> QED
    BY <2>1, <2>2, <2>3, Zenon DEF Whole
<1>7. Numbered(stream, after, names, groups)
  BY <1>3, <1>4, Zenon DEF Numbered, s
<1> QED
  BY <1>3, <1>5, <1>6, <1>7 DEF after, new, s

\* The empty batch has every property of batches.
LEMMA Empty ==
    /\ <<>> \in Batches /\ Ascending(<<>>) /\ GroupsIn(<<>>) = {}
    /\ \A s : Before(s, <<>>) /\ Before(<<>>, s)
    /\ \A t : WrittenBy(t, <<>>) /\ SentTo(t, <<>>)
    /\ \A names, groups : Within(names, groups, <<>>)
<1>1. DOMAIN <<>> = {}
  OBVIOUS
<1> QED
  BY <1>1 DEF Batches, Ascending, GroupsIn, Before, WrittenBy, SentTo, Within

\* A logger gives up what it holds for a thread.
LEMMA TakeKeeps ==
    ASSUME NEW stream, NEW held \in Buffers, NEW open, NEW names, NEW groups,
           NEW t \in Threads, NEW l \in Loggers,
           Ordered(stream, held), Whole(stream, held, open), Numbered(stream, held, names, groups)
    PROVE  /\ Held(held, t, l, <<>>) \in Buffers
           /\ Ordered(stream, Held(held, t, l, <<>>))
           /\ Whole(stream, Held(held, t, l, <<>>), open)
           /\ Numbered(stream, Held(held, t, l, <<>>), names, groups)
<1> DEFINE after == Held(held, t, l, <<>>)
           none == <<>>
<1>1. /\ none \in Batches /\ Ascending(none) /\ GroupsIn(none) = {}
      /\ \A s : Before(s, none) /\ Before(none, s)
      /\ \A u : WrittenBy(u, none) /\ SentTo(u, none)
      /\ \A n, g : Within(n, g, none)
  BY Empty
<1> HIDE DEF none
<1>2. /\ after \in Buffers /\ after[t][l] = none
      /\ \A u \in Threads, k \in Loggers : u # t \/ k # l => after[u][k] = held[u][k]
  BY <1>1, HeldIs DEF none
<1> HIDE DEF after
<1>3. \A u \in Threads, k \in Loggers : after[u][k] = none \/ after[u][k] = held[u][k]
  BY <1>2
<1>4. "main" \in Loggers /\ "service" \in Loggers
  BY DEF Loggers
<1>5. Ordered(stream, after)
  <2>1. \A i \in DOMAIN stream, u \in Threads, k \in Loggers : Before(stream[i].what, after[u][k])
    BY <1>1, <1>3, Zenon DEF Ordered
  <2>2. \A u \in Threads, k \in Loggers : Ascending(after[u][k])
    BY <1>1, <1>3, Zenon DEF Ordered
  <2>3. \A u \in Threads : Before(after[u]["main"], after[u]["service"])
    BY <1>1, <1>3, <1>4, Zenon DEF Ordered
  <2>4. \A u \in Threads : SentTo("service", after[u]["service"])
    BY <1>1, <1>3, <1>4, Zenon DEF Ordered
  <2> QED
    BY <2>1, <2>2, <2>3, <2>4, Zenon DEF Ordered
<1>6. Whole(stream, after, open)
  <2>1. \A u \in Threads, k \in Loggers : WrittenBy(u, after[u][k])
    BY <1>1, <1>3, Zenon DEF Whole
  <2>2. \A u \in Threads, k \in Loggers : GroupsIn(after[u][k]) \subseteq GroupsIn(held[u][k])
    BY <1>1, <1>3
  <2>3. \A i \in DOMAIN stream, u \in Threads, k \in Loggers :
          GroupsIn(stream[i].what) \intersect GroupsIn(after[u][k]) = {}
    <3> SUFFICES ASSUME NEW i \in DOMAIN stream, NEW u \in Threads, NEW k \in Loggers
                 PROVE  GroupsIn(stream[i].what) \intersect GroupsIn(after[u][k]) = {}
      OBVIOUS
    <3>1. GroupsIn(stream[i].what) \intersect GroupsIn(held[u][k]) = {}
      BY Zenon DEF Whole
    <3> QED
      BY <2>2, <3>1
  <2>4. \A u, w \in Threads, k, m \in Loggers :
          u # w \/ k # m => /\ GroupsIn(after[u][k]) \intersect GroupsIn(after[w][m]) = {}
                            /\ open[u][k] \notin GroupsIn(after[w][m])
    <3> SUFFICES ASSUME NEW u \in Threads, NEW w \in Threads, NEW k \in Loggers, NEW m \in Loggers,
                        u # w \/ k # m
                 PROVE  /\ GroupsIn(after[u][k]) \intersect GroupsIn(after[w][m]) = {}
                        /\ open[u][k] \notin GroupsIn(after[w][m])
      OBVIOUS
    <3>1. /\ GroupsIn(held[u][k]) \intersect GroupsIn(held[w][m]) = {}
          /\ open[u][k] \notin GroupsIn(held[w][m])
      BY Zenon DEF Whole
    <3>2. GroupsIn(after[u][k]) \subseteq GroupsIn(held[u][k]) /\ GroupsIn(after[w][m]) \subseteq GroupsIn(held[w][m])
      BY <2>2
    <3> QED
      BY <3>1, <3>2
  <2> QED
    BY <2>1, <2>3, <2>4, Zenon DEF Whole
<1>7. Numbered(stream, after, names, groups)
  BY <1>1, <1>3, Zenon DEF Numbered
<1> QED
  BY <1>2, <1>5, <1>6, <1>7 DEF after, none

\* What was given up may be sent once its group is closed, or, by the service logger, be
\* held by the main logger.
LEMMA TakenMay ==
    ASSUME atomic \in Buffers, NEW after, NEW shut,
           NEW t \in Threads, NEW l \in Loggers,
           Ordered(Stream, atomic), Whole(Stream, atomic, group),
           after[t][l] = <<>>, \A u \in Threads, k \in Loggers : u # t \/ k # l => after[u][k] = atomic[u][k],
           shut[t][l] = 0,
           \A u \in Threads, k \in Loggers : u # t \/ k # l => shut[u][k] = group[u][k]
    PROVE  /\ l = "main" \/ atomic[t]["main"] = <<>> => MaySend(atomic[t][l], t, Stream, after, shut)
           /\ l = "service" => MayHold(atomic[t][l], t, "main", Stream, after, shut)
<1> DEFINE b == atomic[t][l]
           none == <<>>
<1>1. /\ none \in Batches /\ Ascending(none) /\ GroupsIn(none) = {}
      /\ \A s : Before(s, none) /\ Before(none, s)
  BY Empty
<1> HIDE DEF none
<1>2. /\ after[t][l] = none
      /\ \A u \in Threads, k \in Loggers : u # t \/ k # l => after[u][k] = atomic[u][k]
  BY DEF none
<1>3. Loggers = {"main", "service"}
  BY DEF Loggers
<1>4. Follows(b, t, Stream)
  <2>1. b \in Batches
    BY DEF Buffers
  <2> QED
    BY <2>1, Zenon DEF Follows, Ordered, Whole
<1>5. ASSUME NEW u \in Threads, NEW k \in Loggers
      PROVE  GroupsIn(b) \intersect GroupsIn(after[u][k]) = {} /\ shut[u][k] \notin GroupsIn(b)
  <2>1. CASE u = t /\ k = l
    BY <1>1, <1>2, <2>1 DEF GroupsIn
  <2>2. CASE u # t \/ k # l
    BY <1>2, <2>2, Zenon DEF Whole
  <2> QED
    BY <2>1, <2>2
<1>6. ASSUME l = "main" \/ atomic[t]["main"] = none PROVE MaySend(b, t, Stream, after, shut)
  <2>1. Before(atomic[t]["main"], atomic[t]["service"])
    BY DEF Ordered
  <2>2. \A k \in Loggers : Before(b, after[t][k])
    BY <1>1, <1>2, <1>3, <1>6, <2>1
  <2> QED
    BY <1>4, <1>5, <2>2 DEF MaySend
<1>7. ASSUME l = "service" PROVE MayHold(b, t, "main", Stream, after, shut)
  <2>1. Before(after[t]["main"], b)
    BY <1>2, <1>3, <1>7 DEF Ordered
  <2>2. Before(b, after[t]["service"])
    BY <1>1, <1>2, <1>7
  <2> QED
    BY <1>4, <1>5, <2>1, <2>2 DEF MayHold
<1> QED
  BY <1>6, <1>7 DEF none

\* What may be done with a batch may be done with a part of it.
LEMMA PartMay ==
    ASSUME NEW some \in Batches, NEW all \in Batches, PartOf(some, all),
           NEW t, NEW l, NEW stream, NEW held, NEW open
    PROVE  /\ MaySend(all, t, stream, held, open) => MaySend(some, t, stream, held, open)
           /\ MayHold(all, t, l, stream, held, open) => MayHold(some, t, l, stream, held, open)
<1>1. DOMAIN some \subseteq Nat /\ DOMAIN all \subseteq Nat
  BY LenProperties DEF Batches
<1>2. /\ Ascending(all) => Ascending(some)
      /\ \A s : Before(s, all) => Before(s, some)
      /\ \A s : Before(all, s) => Before(some, s)
      /\ \A u : WrittenBy(u, all) => WrittenBy(u, some)
      /\ \A k : SentTo(k, all) => SentTo(k, some)
      /\ GroupsIn(some) \subseteq GroupsIn(all)
  BY <1>1, PartKeeps
<1>3. Follows(all, t, stream) => Follows(some, t, stream)
  <2> SUFFICES ASSUME Follows(all, t, stream) PROVE Follows(some, t, stream)
    OBVIOUS
  <2>1. \A i \in DOMAIN stream : GroupsIn(stream[i].what) \intersect GroupsIn(some) = {}
    BY <1>2 DEF Follows
  <2> QED
    BY <1>2, <2>1, Zenon DEF Follows
<1>4. \A S : GroupsIn(all) \intersect S = {} => GroupsIn(some) \intersect S = {}
  BY <1>2
<1>5. \A g : g \notin GroupsIn(all) => g \notin GroupsIn(some)
  BY <1>2
<1>6. MaySend(all, t, stream, held, open) => MaySend(some, t, stream, held, open)
  BY <1>2, <1>3, <1>4, <1>5, Zenon DEF MaySend
<1>7. MayHold(all, t, l, stream, held, open) => MayHold(some, t, l, stream, held, open)
  BY <1>2, <1>3, <1>4, <1>5, Zenon DEF MayHold
<1> QED
  BY <1>6, <1>7

\* Groups are closed, and opened with new numbers.
LEMMA GroupKeeps ==
    ASSUME NEW stream \in Streams, NEW held \in Buffers, NEW open, NEW new \in Groupings,
           NEW names, NEW groups \in Nat,
           Whole(stream, held, open), Numbered(stream, held, names, groups),
           \A t \in Threads, l \in Loggers :
              new[t][l] = 0 \/ new[t][l] = open[t][l] \/ new[t][l] > groups
    PROVE  Whole(stream, held, new)
<1>1. ASSUME NEW s \in Batches, Within(names, groups, s), NEW t \in Threads, NEW l \in Loggers,
             open[t][l] \notin GroupsIn(s)
      PROVE  new[t][l] \notin GroupsIn(s)
  <2>1. CASE new[t][l] = 0
    BY <2>1 DEF GroupsIn
  <2>2. CASE new[t][l] = open[t][l]
    BY <1>1, <2>2
  <2>3. CASE new[t][l] > groups
    <3>1. \A m \in DOMAIN s : s[m].group <= groups /\ s[m].group \in Nat
      <4>1. \A m \in DOMAIN s : s[m] \in AnyRecord
        BY LenProperties DEF Batches
      <4> QED
        BY <1>1, <4>1 DEF Within, AnyRecord
    <3>2. new[t][l] \in Nat
      BY DEF Groupings
    <3> QED
      BY <2>3, <3>1, <3>2 DEF GroupsIn
  <2> QED
    BY <2>1, <2>2, <2>3
<1>2. (\A i \in DOMAIN stream : stream[i].what \in Batches) /\ \A t \in Threads, l \in Loggers : held[t][l] \in Batches
  <2>1. \A i \in DOMAIN stream : stream[i] \in [what : Batches, id : Nat]
    BY LenProperties DEF Streams
  <2> QED
    BY <2>1 DEF Buffers
<1>3. \A i \in DOMAIN stream, t \in Threads, l \in Loggers : new[t][l] \notin GroupsIn(stream[i].what)
  BY <1>1, <1>2, Zenon DEF Whole, Numbered
<1>4. \A t, u \in Threads, l, k \in Loggers : t # u \/ l # k => new[t][l] \notin GroupsIn(held[u][k])
  BY <1>1, <1>2, Zenon DEF Whole, Numbered
<1> QED
  BY <1>3, <1>4, Zenon DEF Whole

-----------------------------------------------------------------------------
\* The chain, with what the calling thread holds taken as "held".
LEMMA EnqueueKeeps ==
    ASSUME channel \in Streams, sinks \in Streams, sent \in Nat, NEW b, Enqueue(b),
           NEW held, NEW open, NEW names, NEW groups, NEW t \in Threads,
           Ordered(Stream, held), Whole(Stream, held, open), Numbered(Stream, held, names, groups),
           MaySend(b, t, Stream, held, open), Within(names, groups, b)
    PROVE  /\ channel' \in Streams /\ sinks' \in Streams /\ sent' \in Nat
           /\ Ordered(Stream', held) /\ Whole(Stream', held, open) /\ Numbered(Stream', held, names, groups)
<1> DEFINE item == Log!Item(b)
<1>1. b \in Batches
  BY DEF MaySend, Follows
<1>2. /\ channel' \in Streams /\ sinks' \in Streams /\ sent' \in Nat /\ Stream \in Streams
      /\ item \in [what : Batches, id : Nat] /\ item.what = b
      /\ \E thinner \in Streams : Thinned(thinner, Stream) /\ Stream' = Append(thinner, item)
  BY <1>1, EnqueueStream
<1> HIDE DEF item
<1>3. PICK thinner \in Streams : Thinned(thinner, Stream) /\ Stream' = Append(thinner, item)
  BY <1>2
<1>4. DOMAIN thinner \subseteq Nat /\ DOMAIN Stream \subseteq Nat
  <2>1. \A s \in Streams : DOMAIN s \subseteq Nat
    BY LenProperties DEF Streams
  <2> QED
    BY <1>2, <2>1
<1>5. Ordered(thinner, held) /\ Whole(thinner, held, open) /\ Numbered(thinner, held, names, groups)
  BY <1>3, <1>4, ThinnedKeeps
<1>6. MaySend(b, t, thinner, held, open)
  <2>1. \A i \in DOMAIN thinner : \E j \in DOMAIN Stream : thinner[i].what = Stream[j].what
    BY <1>3 DEF Thinned
  <2> QED
    BY <2>1, Zenon DEF MaySend, Follows
<1>7. /\ Ordered(Append(thinner, item), held) /\ Whole(Append(thinner, item), held, open)
      /\ Numbered(Append(thinner, item), held, names, groups)
  <2>1. MaySend(item.what, t, thinner, held, open) /\ Within(names, groups, item.what)
    BY <1>2, <1>6, Zenon
  <2> QED
    BY <1>2, <1>5, <2>1, SendKeeps
<1> QED
  BY <1>2, <1>3, <1>7, Zenon

ChainTypes ==
    /\ level \in [Loggers -> AllLevels]
    /\ indent \in [Threads -> [Loggers -> Int]] /\ block \in [Threads -> [Loggers -> Int]]
    /\ atomic \in Buffers /\ group \in Groupings
    /\ channel \in Streams /\ sinks \in Streams
    /\ sent \in Nat /\ written \in Nat /\ opened \in Nat

\* What holds of the records after a step, given what is held and open.
RecordsKeep(held, open, names, groups) ==
    /\ channel' \in Streams /\ sinks' \in Streams /\ sent' \in Nat
    /\ atomic' \in Buffers
    /\ Ordered(Stream', atomic') /\ Whole(Stream', atomic', open) /\ Numbered(Stream', atomic', names, groups)

\* Records reach the main logger, which holds them or sends them on.
LEMMA ReachMainKeeps ==
    ASSUME ChainTypes, NEW t \in Threads, NEW records \in Batches, NEW buffers,
           ReachMain(t, records, buffers),
           NEW held \in Buffers, held[t] = buffers, \A u \in Threads : u # t => held[u] = atomic[u],
           NEW open, NEW names, NEW groups, Within(names, groups, records),
           Ordered(Stream, held), Whole(Stream, held, open), Numbered(Stream, held, names, groups),
           block[t]["main"] > 0 => MayHold(records, t, "main", Stream, held, open),
           ~(block[t]["main"] > 0) => MaySend(records, t, Stream, held, open)
    PROVE  /\ RecordsKeep(held, open, names, groups)
           /\ \A u \in Threads, k \in Loggers : u # t \/ k # "main" => atomic'[u][k] = held[u][k]
           /\ ~(block[t]["main"] > 0) => atomic'[t]["main"] = held[t]["main"]
<1> DEFINE b == Stamp(t, "main", records)
<1>0. "main" \in Loggers
  BY DEF Loggers
<1>1. b \in Batches /\ PartOf(b, records)
  BY <1>0, StampIsPart DEF ChainTypes
<1> HIDE DEF b
<1>2. DOMAIN b \subseteq Nat /\ DOMAIN records \subseteq Nat
  BY <1>1, LenProperties DEF Batches
<1>3. Within(names, groups, b)
  BY <1>1, <1>2, PartKeeps
<1>4. /\ block[t]["main"] > 0 => MayHold(b, t, "main", Stream, held, open)
      /\ ~(block[t]["main"] > 0) => MaySend(b, t, Stream, held, open)
  BY <1>1, PartMay
<1>8. held = [atomic EXCEPT ![t] = buffers]
  BY DEF ChainTypes, Buffers
<1>5. CASE b = <<>>
  <2>1. atomic' = held /\ UNCHANGED chan
    BY <1>5, <1>8 DEF ReachMain, b
  <2>2. Stream' = Stream
    BY <2>1 DEF Stream, chan
  <2> QED
    BY <2>1, <2>2 DEF RecordsKeep, ChainTypes, chan
<1>6. CASE b # <<>> /\ block[t]["main"] > 0
  <2>1. /\ atomic' = [atomic EXCEPT ![t] = [buffers EXCEPT !["main"] = buffers["main"] \o b]]
        /\ UNCHANGED chan
    BY <1>6 DEF ReachMain, b
  <2>2. [atomic EXCEPT ![t] = [buffers EXCEPT !["main"] = buffers["main"] \o b]]
                               = [held EXCEPT ![t] = [buffers EXCEPT !["main"] = buffers["main"] \o b]]
    BY DEF ChainTypes, Buffers
  <2>3. atomic' = Held(held, t, "main", held[t]["main"] \o b)
    BY <2>1, <2>2, Zenon DEF Held
  <2>4. Stream' = Stream
    BY <2>1 DEF Stream, chan
  <2>5. /\ atomic' \in Buffers /\ Ordered(Stream, atomic') /\ Whole(Stream, atomic', open)
        /\ Numbered(Stream, atomic', names, groups)
    BY <1>0, <1>3, <1>4, <1>6, <2>3, HoldKeeps
  <2>6. held[t]["main"] \o b \in Batches
    BY <1>0, <1>1, ConcatKeeps DEF Buffers
  <2>7. \A u \in Threads, k \in Loggers : u # t \/ k # "main" => atomic'[u][k] = held[u][k]
    <3> DEFINE new == held[t]["main"] \o b
    <3>1. new \in Batches /\ atomic' = Held(held, t, "main", new)
      BY <2>3, <2>6
    <3> HIDE DEF new
    <3>2. \A u \in Threads, k \in Loggers :
            u # t \/ k # "main" => Held(held, t, "main", new)[u][k] = held[u][k]
      BY <1>0, <3>1 DEF Held, Buffers
    <3> QED
      BY <3>1, <3>2, Zenon
  <2> QED
    BY <1>6, <2>1, <2>4, <2>5, <2>7 DEF RecordsKeep, ChainTypes, chan
<1>7. CASE b # <<>> /\ ~(block[t]["main"] > 0)
  <2>1. atomic' = held /\ Enqueue(b)
    BY <1>7, <1>8 DEF ReachMain, b
  <2>2. /\ channel' \in Streams /\ sinks' \in Streams /\ sent' \in Nat
        /\ Ordered(Stream', held) /\ Whole(Stream', held, open) /\ Numbered(Stream', held, names, groups)
    BY <1>3, <1>4, <1>7, <2>1, EnqueueKeeps DEF ChainTypes
  <2> QED
    BY <2>1, <2>2, Zenon DEF RecordsKeep
<1> QED
  BY <1>5, <1>6, <1>7

-----------------------------------------------------------------------------
(***************************************************************************)
(* The invariant.                                                          *)
(***************************************************************************)

\* The scopes of one kind, in one logger, that a stack of scopes will undo.
AnyScope == [kind : {"block", "indent"}, logger : Loggers, enable : BOOLEAN]
OpenOf(stack, kind, logger) ==
    {i \in DOMAIN stack : stack[i].kind = kind /\ stack[i].logger = logger /\ stack[i].enable = TRUE}

Balanced ==
    /\ scopes \in [Threads -> Seq(AnyScope)]
    /\ \A t \in Threads, l \in Loggers :
          /\ indent[t][l] = Cardinality(OpenOf(scopes[t], "indent", l))
          /\ block[t][l] = Cardinality(OpenOf(scopes[t], "block", l))
    /\ \A t \in Threads : \A i \in DOMAIN scopes[t] : scopes[t][i].kind = "block" => scopes[t][i].enable = TRUE

HeldInBlocks == \A t \in Threads, l \in Loggers : block[t][l] = 0 => atomic[t][l] = <<>>

\* The groups that are open, one for every block.
GroupsGiven ==
    /\ \A t \in Threads, l \in Loggers : (group[t][l] = 0 <=> block[t][l] = 0) /\ group[t][l] <= opened
    /\ \A t, u \in Threads, l, k \in Loggers :
          (t # u \/ l # k) /\ group[t][l] # 0 => group[t][l] # group[u][k]

RecordsKept ==
    /\ Ordered(Stream, atomic) /\ Whole(Stream, atomic, group)
    /\ Numbered(Stream, atomic, written, opened)

ChainInv == ChainTypes /\ Balanced /\ HeldInBlocks /\ GroupsGiven /\ RecordsKept

\* What a scope counts for.
Weight(e, kind, l) == IF e.kind = kind /\ e.logger = l /\ e.enable = TRUE THEN 1 ELSE 0

\* A scope is opened, or the innermost one is closed.
LEMMA ScopePushed ==
    ASSUME NEW s \in Seq(AnyScope), NEW e \in AnyScope, NEW kind, NEW l
    PROVE  /\ Append(s, e) \in Seq(AnyScope)
           /\ Cardinality(OpenOf(Append(s, e), kind, l))
                = Cardinality(OpenOf(s, kind, l)) + Weight(e, kind, l)
           /\ Cardinality(OpenOf(s, kind, l)) \in Nat
<1> DEFINE n == Len(s)
           after == Append(s, e)
           old == OpenOf(s, kind, l)
           new == OpenOf(after, kind, l)
<1>1. /\ n \in Nat /\ DOMAIN s = 1..n /\ after \in Seq(AnyScope) /\ DOMAIN after = 1..(n + 1)
      /\ after[n + 1] = e /\ \A i \in 1..n : after[i] = s[i]
  <2>1. /\ after \in Seq(AnyScope) /\ Len(after) = n + 1
        /\ after[n + 1] = e /\ \A i \in 1..n : after[i] = s[i]
    BY AppendProperties
  <2> QED
    BY <2>1, LenProperties
<1> HIDE DEF after, n
<1>2. IsFiniteSet(old) /\ n + 1 \notin old
  <2>1. old \subseteq 1..n
    BY <1>1 DEF OpenOf
  <2>2. IsFiniteSet(1..n)
    BY <1>1, FS_Interval
  <2> HIDE DEF old
  <2>3. IsFiniteSet(old)
    BY <2>1, <2>2, FS_Subset
  <2>4. n + 1 \notin 1..n
    BY <1>1
  <2> QED
    BY <2>1, <2>3, <2>4
<1>3. Cardinality(old) \in Nat
  BY <1>2, FS_CardinalityType
<1>4. CASE e.kind = kind /\ e.logger = l /\ e.enable = TRUE
  <2>1. new = old \union {n + 1}
    BY <1>1, <1>4 DEF OpenOf
  <2>2. Cardinality(old \union {n + 1}) = Cardinality(old) + 1
    BY <1>2, FS_AddElement
  <2>3. Cardinality(new) = Cardinality(old) + 1
    BY <2>1, <2>2, Zenon
  <2> QED
    BY <1>1, <1>3, <1>4, <2>3 DEF after, Weight
<1>5. CASE ~(e.kind = kind /\ e.logger = l /\ e.enable = TRUE)
  <2>1. new = old
    BY <1>1, <1>5 DEF OpenOf
  <2>2. Cardinality(new) = Cardinality(old)
    BY <2>1, Zenon
  <2> QED
    BY <1>1, <1>3, <1>5, <2>2 DEF after, Weight
<1> QED
  BY <1>4, <1>5

\* The stack of scopes without the innermost one.
LEMMA ScopePopped ==
    ASSUME NEW s \in Seq(AnyScope), s # <<>>
    PROVE  /\ Front(s) \in Seq(AnyScope) /\ Last(s) \in AnyScope
           /\ s = Append(Front(s), Last(s))
           /\ \A i \in DOMAIN Front(s) : i \in DOMAIN s /\ Front(s)[i] = s[i]
<1> DEFINE n == Len(s)
           front == Front(s)
           last == Last(s)
<1>1. n \in Nat /\ n # 0 /\ DOMAIN s = 1..n /\ \A i \in 1..n : s[i] \in AnyScope
  BY LenProperties, EmptySeq
<1>2. last = s[n] /\ last \in AnyScope
  BY <1>1 DEF Last
<1>3. front \in Seq(AnyScope) /\ Len(front) = n - 1 /\ \A i \in 1..(n - 1) : front[i] = s[i]
  <2>1. front = SubSeq(s, 1, n - 1)
    BY DEF Front
  <2>2. \A i \in 1..(n - 1) : s[i] \in AnyScope
    BY <1>1
  <2> HIDE DEF n
  <2>3. /\ SubSeq(s, 1, n - 1) \in Seq(AnyScope) /\ Len(SubSeq(s, 1, n - 1)) = IF 1 <= n - 1 THEN (n - 1) - 1 + 1 ELSE 0
        /\ \A i \in 1..((n - 1) - 1 + 1) : SubSeq(s, 1, n - 1)[i] = s[1 + i - 1]
    BY <1>1, <2>2, SubSeqProperties
  <2> HIDE DEF front
  <2>4. /\ front \in Seq(AnyScope) /\ Len(front) = IF 1 <= n - 1 THEN (n - 1) - 1 + 1 ELSE 0
        /\ \A i \in 1..((n - 1) - 1 + 1) : front[i] = s[1 + i - 1]
    BY <2>1, <2>3, Zenon
  <2> QED
    BY <1>1, <2>4
<1> HIDE DEF n, front, last
<1>4. /\ Append(front, last) \in Seq(AnyScope) /\ Len(Append(front, last)) = n
      /\ \A i \in 1..n : Append(front, last)[i] = s[i]
  <2>1. /\ Append(front, last) \in Seq(AnyScope) /\ Len(Append(front, last)) = Len(front) + 1
        /\ \A i \in 1..Len(front) : Append(front, last)[i] = front[i]
        /\ Append(front, last)[Len(front) + 1] = last
    BY <1>2, <1>3, AppendProperties
  <2>2. \A i \in 1..n : i \in 1..(n - 1) \/ i = n
    BY <1>1
  <2> QED
    BY <1>1, <1>2, <1>3, <2>1, <2>2
<1>5. s = Append(front, last)
  BY <1>1, <1>4, SeqEqual DEF n
<1>6. DOMAIN front = 1..(n - 1)
  BY <1>3, LenProperties
<1> QED
  BY <1>1, <1>2, <1>3, <1>5, <1>6 DEF front, last


\* A scope is opened, and the counters follow.
LEMMA PushBalances ==
    ASSUME ChainTypes, Balanced, NEW t \in Threads, NEW e \in AnyScope, e.kind = "block" => e.enable = TRUE,
           scopes' = [scopes EXCEPT ![t] = Append(scopes[t], e)],
           \A u \in Threads, l \in Loggers :
              /\ indent'[u][l] = IF u = t THEN indent[u][l] + Weight(e, "indent", l) ELSE indent[u][l]
              /\ block'[u][l] = IF u = t THEN block[u][l] + Weight(e, "block", l) ELSE block[u][l]
    PROVE  Balanced'
<1>1. scopes \in [Threads -> Seq(AnyScope)] /\ Append(scopes[t], e) \in Seq(AnyScope)
  BY AppendProperties DEF Balanced
<1>2. /\ scopes' \in [Threads -> Seq(AnyScope)] /\ scopes'[t] = Append(scopes[t], e)
      /\ \A u \in Threads : u # t => scopes'[u] = scopes[u]
  <2> DEFINE new == Append(scopes[t], e)
  <2>1. new \in Seq(AnyScope) /\ scopes' = [scopes EXCEPT ![t] = new]
    BY <1>1
  <2> HIDE DEF new
  <2>2. /\ scopes' \in [Threads -> Seq(AnyScope)] /\ scopes'[t] = new
        /\ \A u \in Threads : u # t => scopes'[u] = scopes[u]
    BY <1>1, <2>1
  <2> QED
    BY <2>2 DEF new
<1>3. ASSUME NEW u \in Threads, NEW l \in Loggers
      PROVE  /\ indent'[u][l] = Cardinality(OpenOf(scopes'[u], "indent", l))
             /\ block'[u][l] = Cardinality(OpenOf(scopes'[u], "block", l))
  <2>1. /\ indent[u][l] = Cardinality(OpenOf(scopes[u], "indent", l))
        /\ block[u][l] = Cardinality(OpenOf(scopes[u], "block", l))
    BY DEF Balanced
  <2>2. CASE u # t
    BY <1>2, <2>1, <2>2
  <2>3. CASE u = t
    <3>1. \A kind : Cardinality(OpenOf(scopes'[t], kind, l))
                       = Cardinality(OpenOf(scopes[t], kind, l)) + Weight(e, kind, l)
      BY <1>1, <1>2, ScopePushed
    <3> QED
      BY <2>1, <2>3, <3>1
  <2> QED
    BY <2>2, <2>3
<1>4. \A u \in Threads : \A i \in DOMAIN scopes'[u] : scopes'[u][i].kind = "block" => scopes'[u][i].enable = TRUE
  <2> SUFFICES ASSUME NEW u \in Threads, NEW i \in DOMAIN scopes'[u], scopes'[u][i].kind = "block"
               PROVE  scopes'[u][i].enable = TRUE
    OBVIOUS
  <2>1. CASE u # t
    BY <1>2, <2>1 DEF Balanced
  <2>2. CASE u = t
    <3> DEFINE s == scopes[t]
    <3>0. s \in Seq(AnyScope)
      BY <1>1
    <3> HIDE DEF s
    <3>1. /\ DOMAIN s = 1..Len(s) /\ Len(s) \in Nat /\ Append(s, e) \in Seq(AnyScope)
          /\ DOMAIN Append(s, e) = 1..(Len(s) + 1)
          /\ Append(s, e)[Len(s) + 1] = e /\ \A k \in 1..Len(s) : Append(s, e)[k] = s[k]
      <4>1. /\ Append(s, e) \in Seq(AnyScope) /\ Len(Append(s, e)) = Len(s) + 1
            /\ Append(s, e)[Len(s) + 1] = e /\ \A k \in 1..Len(s) : Append(s, e)[k] = s[k]
        BY <3>0, AppendProperties
      <4> QED
        BY <3>0, <4>1, LenProperties
    <3>2. scopes'[u] = Append(s, e)
      BY <1>2, <2>2 DEF s
    <3>3. i \in 1..Len(s) \/ i = Len(s) + 1
      BY <3>1, <3>2
    <3>4. CASE i \in 1..Len(s)
      BY <3>1, <3>2, <3>4 DEF Balanced, s
    <3>5. CASE i = Len(s) + 1
      BY <3>1, <3>2, <3>5
    <3> QED
      BY <3>3, <3>4, <3>5
  <2> QED
    BY <2>1, <2>2
<1> QED
  BY <1>2, <1>3, <1>4 DEF Balanced

\* The counters are those of a finite set of scopes.
LEMMA CountsAreNat ==
    ASSUME Balanced, NEW t \in Threads, NEW l \in Loggers
    PROVE  indent[t][l] \in Nat /\ block[t][l] \in Nat
<1>1. scopes[t] \in Seq(AnyScope)
  BY DEF Balanced
<1>2. DOMAIN scopes[t] = 1..Len(scopes[t]) /\ Len(scopes[t]) \in Nat
  BY <1>1, LenProperties
<1>3. \A kind : OpenOf(scopes[t], kind, l) \in SUBSET (1..Len(scopes[t]))
  BY <1>2 DEF OpenOf
<1>4. IsFiniteSet(1..Len(scopes[t]))
  BY <1>2, FS_Interval
<1>5. \A kind : IsFiniteSet(OpenOf(scopes[t], kind, l))
  BY <1>3, <1>4, FS_Subset
<1>6. \A kind : Cardinality(OpenOf(scopes[t], kind, l)) \in Nat
  BY <1>5, FS_CardinalityType
<1> QED
  BY <1>6 DEF Balanced

\* The innermost scope is closed, and the counters follow.
LEMMA PopBalances ==
    ASSUME ChainTypes, Balanced, NEW t \in Threads, scopes[t] # <<>>,
           scopes' = [scopes EXCEPT ![t] = Front(scopes[t])],
           \A u \in Threads, l \in Loggers :
              /\ indent'[u][l] = IF u = t THEN indent[u][l] - Weight(Last(scopes[t]), "indent", l) ELSE indent[u][l]
              /\ block'[u][l] = IF u = t THEN block[u][l] - Weight(Last(scopes[t]), "block", l) ELSE block[u][l]
    PROVE  Balanced'
<1> DEFINE s == scopes[t]
           e == Last(s)
           front == Front(s)
<1>1. s \in Seq(AnyScope) /\ s # <<>> /\ scopes \in [Threads -> Seq(AnyScope)]
  BY DEF Balanced
<1>2. /\ front \in Seq(AnyScope) /\ e \in AnyScope /\ s = Append(front, e)
      /\ \A i \in DOMAIN front : i \in DOMAIN s /\ front[i] = s[i]
  BY <1>1, ScopePopped
<1> HIDE DEF front, e
<1>3. /\ scopes' \in [Threads -> Seq(AnyScope)] /\ scopes'[t] = front
      /\ \A u \in Threads : u # t => scopes'[u] = scopes[u]
  BY <1>1, <1>2 DEF front
<1>4. ASSUME NEW u \in Threads, NEW l \in Loggers
      PROVE  /\ indent'[u][l] = Cardinality(OpenOf(scopes'[u], "indent", l))
             /\ block'[u][l] = Cardinality(OpenOf(scopes'[u], "block", l))
  <2>1. /\ indent[u][l] = Cardinality(OpenOf(scopes[u], "indent", l))
        /\ block[u][l] = Cardinality(OpenOf(scopes[u], "block", l))
    BY DEF Balanced
  <2>2. CASE u # t
    BY <1>3, <2>1, <2>2
  <2>3. CASE u = t
    <3>1. ASSUME NEW kind
          PROVE  /\ Cardinality(OpenOf(s, kind, l)) = Cardinality(OpenOf(front, kind, l)) + Weight(e, kind, l)
                 /\ Cardinality(OpenOf(front, kind, l)) \in Nat /\ Weight(e, kind, l) \in Nat
      <4>1. /\ Cardinality(OpenOf(Append(front, e), kind, l)) = Cardinality(OpenOf(front, kind, l)) + Weight(e, kind, l)
            /\ Cardinality(OpenOf(front, kind, l)) \in Nat
        BY <1>2, ScopePushed
      <4> QED
        BY <1>2, <4>1, Zenon DEF Weight
    <3>2. /\ indent'[t][l] = indent[t][l] - Weight(e, "indent", l)
          /\ block'[t][l] = block[t][l] - Weight(e, "block", l)
      BY DEF e
    <3>3. /\ indent[t][l] = Cardinality(OpenOf(s, "indent", l))
          /\ block[t][l] = Cardinality(OpenOf(s, "block", l))
      BY <2>1, <2>3
    <3> HIDE DEF s
    <3>4. /\ indent'[t][l] = Cardinality(OpenOf(front, "indent", l))
          /\ block'[t][l] = Cardinality(OpenOf(front, "block", l))
      BY <3>1, <3>2, <3>3
    <3> QED
      BY <1>3, <2>3, <3>4
  <2> QED
    BY <2>2, <2>3
<1>5. \A u \in Threads : \A i \in DOMAIN scopes'[u] : scopes'[u][i].kind = "block" => scopes'[u][i].enable = TRUE
  <2>1. \A u \in Threads : \A i \in DOMAIN scopes'[u] : i \in DOMAIN scopes[u] /\ scopes'[u][i] = scopes[u][i]
    BY <1>2, <1>3
  <2> QED
    BY <2>1 DEF Balanced
<1> QED
  BY <1>3, <1>4, <1>5 DEF Balanced

\* The scopes and counters change, the records do not.
LEMMA RecordsStay ==
    ASSUME ChainInv, UNCHANGED <<atomic, chan, written>>, group' \in Groupings, opened' \in Nat, opened <= opened',
           \A t \in Threads, l \in Loggers :
              group'[t][l] = 0 \/ group'[t][l] = group[t][l] \/ group'[t][l] > opened
    PROVE  RecordsKept'
<1>1. Stream' = Stream /\ Stream \in Streams
  BY ConcatProperties DEF Stream, chan, ChainInv, ChainTypes, Streams
<1>2. Whole(Stream, atomic, group')
  BY <1>1, GroupKeeps DEF ChainInv, ChainTypes, RecordsKept
<1>3. Numbered(Stream, atomic, written, opened')
  <2>1. ASSUME NEW s \in Batches, Within(written, opened, s) PROVE Within(written, opened', s)
    <3>1. \A m \in DOMAIN s : s[m] \in AnyRecord
      BY LenProperties DEF Batches
    <3> QED
      BY <2>1, <3>1 DEF Within, AnyRecord, ChainInv, ChainTypes
  <2>2. (\A i \in DOMAIN Stream : Stream[i].what \in Batches) /\ \A t \in Threads, l \in Loggers : atomic[t][l] \in Batches
    <3>1. \A i \in DOMAIN Stream : Stream[i] \in [what : Batches, id : Nat]
      BY <1>1, LenProperties DEF Streams
    <3> QED
      BY <3>1 DEF Buffers, ChainInv, ChainTypes
  <2> QED
    BY <2>1, <2>2 DEF Numbered, ChainInv, RecordsKept
<1> QED
  BY <1>1, <1>2, <1>3 DEF RecordsKept, ChainInv

-----------------------------------------------------------------------------
\* The steps.
LEMMA ChainBeginBlock ==
    ASSUME ChainInv, NEW t \in Threads, NEW l \in Loggers, BeginBlock(t, l)
    PROVE  ChainInv'
<1> DEFINE e == [kind |-> "block", logger |-> l, enable |-> TRUE]
<1>1. /\ scopes' = [scopes EXCEPT ![t] = Append(scopes[t], e)] /\ opened' = opened + 1
      /\ block' = [block EXCEPT ![t][l] = block[t][l] + 1]
      /\ group' = [group EXCEPT ![t][l] = IF block[t][l] = 0 THEN opened + 1 ELSE group[t][l]]
      /\ UNCHANGED <<level, indent, atomic, chan, written, changes>>
  BY DEF BeginBlock, Open
<1>2. e \in AnyScope /\ e.kind = "block" /\ e.logger = l /\ e.enable = TRUE
  BY DEF AnyScope
<1>3. \A k \in Loggers : Weight(e, "block", k) = (IF k = l THEN 1 ELSE 0) /\ Weight(e, "indent", k) = 0
  BY <1>2 DEF Weight
<1> HIDE DEF e
<1>4. /\ indent \in [Threads -> [Loggers -> Int]] /\ block \in [Threads -> [Loggers -> Int]]
      /\ group \in Groupings /\ opened \in Nat
  BY DEF ChainInv, ChainTypes
<1>5. \A u \in Threads, k \in Loggers :
              /\ indent'[u][k] = IF u = t THEN indent[u][k] + Weight(e, "indent", k) ELSE indent[u][k]
              /\ block'[u][k] = IF u = t THEN block[u][k] + Weight(e, "block", k) ELSE block[u][k]
  BY <1>1, <1>3, <1>4
<1>6. Balanced'
  BY <1>1, <1>2, <1>5, PushBalances DEF ChainInv
<1>7. group' \in Groupings /\ opened' \in Nat /\ block' \in [Threads -> [Loggers -> Int]]
  BY <1>1, <1>4 DEF Groupings
<1>8. ChainTypes'
  BY <1>1, <1>7 DEF ChainInv, ChainTypes, chan
<1>9. \A u \in Threads, k \in Loggers :
         /\ u # t \/ k # l => group'[u][k] = group[u][k] /\ block'[u][k] = block[u][k]
         /\ group'[t][l] = (IF block[t][l] = 0 THEN opened + 1 ELSE group[t][l])
         /\ block'[t][l] = block[t][l] + 1
  BY <1>1, <1>4 DEF Groupings
<1>10. block[t][l] \in Nat
  BY CountsAreNat DEF ChainInv
<1>11. HeldInBlocks'
  <2> SUFFICES ASSUME NEW u \in Threads, NEW k \in Loggers, block'[u][k] = 0 PROVE atomic[u][k] = <<>>
    BY <1>1 DEF HeldInBlocks
  <2>1. u # t \/ k # l
    BY <1>9, <1>10
  <2> QED
    BY <1>9, <2>1 DEF ChainInv, HeldInBlocks
<1>12. \A u \in Threads, k \in Loggers : group[u][k] \in Nat /\ group[u][k] <= opened
  BY <1>4 DEF Groupings, ChainInv, GroupsGiven
<1>13. GroupsGiven'
  <2>1. ASSUME NEW u \in Threads, NEW k \in Loggers
        PROVE  (group'[u][k] = 0 <=> block'[u][k] = 0) /\ group'[u][k] <= opened'
    <3>0. group[u][k] = 0 <=> block[u][k] = 0
      BY DEF ChainInv, GroupsGiven
    <3>1. CASE u # t \/ k # l
      BY <1>1, <1>4, <1>9, <1>12, <3>0, <3>1
    <3>2. CASE u = t /\ k = l
      BY <1>1, <1>4, <1>9, <1>10, <1>12, <3>0, <3>2
    <3> QED
      BY <3>1, <3>2
  <2>2. ASSUME NEW u \in Threads, NEW w \in Threads, NEW k \in Loggers, NEW m \in Loggers,
               u # w \/ k # m, group'[u][k] # 0
        PROVE  group'[u][k] # group'[w][m]
    <3>0. /\ group[u][k] # 0 => group[u][k] # group[w][m]
          /\ group[w][m] # 0 => group[w][m] # group[u][k]
      BY <2>2 DEF ChainInv, GroupsGiven
    <3>1. group[u][k] # opened + 1 /\ group[w][m] # opened + 1
      BY <1>4, <1>12
    <3>2. CASE u = t /\ k = l
      BY <1>4, <1>9, <2>2, <3>0, <3>1, <3>2
    <3>3. CASE w = t /\ m = l
      BY <1>4, <1>9, <2>2, <3>0, <3>1, <3>3
    <3>4. CASE (u # t \/ k # l) /\ (w # t \/ m # l)
      BY <1>9, <2>2, <3>0, <3>4
    <3> QED
      BY <3>2, <3>3, <3>4
  <2> QED
    BY <2>1, <2>2 DEF GroupsGiven
<1>14. RecordsKept'
  <2>1. opened <= opened' /\ opened + 1 > opened
    BY <1>1, <1>4
  <2>2. \A u \in Threads, k \in Loggers :
           group'[u][k] = 0 \/ group'[u][k] = group[u][k] \/ group'[u][k] > opened
    BY <1>9, <2>1
  <2> QED
    BY <1>1, <1>7, <2>1, <2>2, RecordsStay
<1> QED
  BY <1>6, <1>8, <1>11, <1>13, <1>14 DEF ChainInv

\* The indentation changes, or a level.
LEMMA ChainIndents ==
    ASSUME ChainInv, Balanced', level' \in [Loggers -> AllLevels], indent' \in [Threads -> [Loggers -> Int]],
           UNCHANGED <<block, atomic, chan, written, group>>, opened' \in Nat, opened <= opened'
    PROVE  ChainInv'
<1>1. ChainTypes' /\ HeldInBlocks'
  BY DEF ChainInv, ChainTypes, HeldInBlocks, chan
<1>2. GroupsGiven'
  <2>1. \A u \in Threads, k \in Loggers : group[u][k] \in Nat
    BY DEF ChainInv, ChainTypes, Groupings
  <2> QED
    BY <2>1 DEF ChainInv, ChainTypes, GroupsGiven
<1>3. RecordsKept'
  BY <1>1, RecordsStay DEF ChainTypes
<1> QED
  BY <1>1, <1>2, <1>3 DEF ChainInv

\* IndentScope: the records stay.
LEMMA ChainBeginIndent ==
    ASSUME ChainInv, NEW t \in Threads, NEW l \in Loggers, NEW lvl \in Levels, BeginIndent(t, l, lvl)
    PROVE  ChainInv'
<1> DEFINE on == Enabled(l, lvl)
           e == [kind |-> "indent", logger |-> l, enable |-> on]
<1>1. /\ scopes' = [scopes EXCEPT ![t] = Append(scopes[t], e)] /\ opened' = opened + 1
      /\ indent' = [indent EXCEPT ![t][l] = IF on THEN indent[t][l] + 1 ELSE indent[t][l]]
      /\ UNCHANGED <<level, block, atomic, chan, written, group, changes>>
  BY DEF BeginIndent, Open
<1>2. on \in BOOLEAN
  BY DEF Enabled
<1>3. e \in AnyScope /\ e.kind = "indent" /\ e.logger = l /\ e.enable = on
  BY <1>2 DEF AnyScope
<1> HIDE DEF e, on
<1>4. \A k \in Loggers : /\ Weight(e, "indent", k) = (IF k = l /\ on THEN 1 ELSE 0)
                         /\ Weight(e, "block", k) = 0
  BY <1>2, <1>3 DEF Weight
<1>5. /\ indent \in [Threads -> [Loggers -> Int]] /\ block \in [Threads -> [Loggers -> Int]] /\ opened \in Nat
  BY DEF ChainInv, ChainTypes
<1>6. \A u \in Threads, k \in Loggers :
              /\ indent'[u][k] = IF u = t THEN indent[u][k] + Weight(e, "indent", k) ELSE indent[u][k]
              /\ block'[u][k] = IF u = t THEN block[u][k] + Weight(e, "block", k) ELSE block[u][k]
  BY <1>1, <1>2, <1>4, <1>5
<1>7. Balanced'
  BY <1>1, <1>3, <1>6, PushBalances DEF ChainInv
<1>8. /\ level' \in [Loggers -> AllLevels] /\ indent' \in [Threads -> [Loggers -> Int]]
      /\ opened' \in Nat /\ opened <= opened'
  BY <1>1, <1>2, <1>5 DEF ChainInv, ChainTypes
<1> QED
  BY <1>1, <1>7, <1>8, ChainIndents

\* ~IndentScope: the records stay.
LEMMA ChainEndIndent ==
    ASSUME ChainInv, NEW t \in Threads, EndIndent(t)
    PROVE  ChainInv'
<1> DEFINE e == Last(scopes[t])
<1>1. /\ scopes[t] # <<>> /\ e.kind = "indent" /\ scopes' = [scopes EXCEPT ![t] = Front(scopes[t])]
      /\ indent' = IF e.enable THEN [indent EXCEPT ![t][e.logger] = indent[t][e.logger] - 1] ELSE indent
      /\ UNCHANGED <<level, block, atomic, chan, written, group, opened, changes>>
  BY DEF EndIndent, Closing, Undo
<1>2. e \in AnyScope
  BY <1>1, ScopePopped DEF ChainInv, Balanced
<1> HIDE DEF e
<1>3. e.enable \in BOOLEAN /\ e.logger \in Loggers
  BY <1>2 DEF AnyScope
<1>4. \A k \in Loggers : /\ Weight(e, "indent", k) = (IF k = e.logger /\ e.enable THEN 1 ELSE 0)
                         /\ Weight(e, "block", k) = 0
  BY <1>1, <1>3 DEF Weight
<1>5. /\ indent \in [Threads -> [Loggers -> Int]] /\ block \in [Threads -> [Loggers -> Int]] /\ opened \in Nat
  BY DEF ChainInv, ChainTypes
<1>6. \A u \in Threads, k \in Loggers :
              /\ indent'[u][k] = IF u = t THEN indent[u][k] - Weight(e, "indent", k) ELSE indent[u][k]
              /\ block'[u][k] = IF u = t THEN block[u][k] - Weight(e, "block", k) ELSE block[u][k]
  <2>1. CASE e.enable
    BY <1>1, <1>3, <1>4, <1>5, <2>1
  <2>2. CASE ~e.enable
    BY <1>1, <1>3, <1>4, <1>5, <2>2
  <2> QED
    BY <2>1, <2>2
<1>7. Balanced'
  BY <1>1, <1>6, PopBalances DEF ChainInv, e
<1>8. /\ level' \in [Loggers -> AllLevels] /\ indent' \in [Threads -> [Loggers -> Int]]
      /\ opened' \in Nat /\ opened <= opened'
  <2>1. CASE e.enable
    BY <1>1, <1>3, <1>5, <2>1 DEF ChainInv, ChainTypes
  <2>2. CASE ~e.enable
    BY <1>1, <1>3, <1>5, <2>2 DEF ChainInv, ChainTypes
  <2> QED
    BY <2>1, <2>2
<1> QED
  BY <1>1, <1>7, <1>8, ChainIndents

\* setLevel(): only what is stamped later changes.
LEMMA ChainSetLevel ==
    ASSUME ChainInv, NEW l \in Loggers, NEW lvl \in AllLevels, SetLevel(l, lvl)
    PROVE  ChainInv'
<1>1. level' = [level EXCEPT ![l] = lvl] /\ UNCHANGED <<indent, block, atomic, scopes, chan, written, group, opened>>
  BY DEF SetLevel
<1>2. /\ level' \in [Loggers -> AllLevels] /\ indent' \in [Threads -> [Loggers -> Int]]
      /\ opened' \in Nat /\ opened <= opened'
  BY <1>1 DEF ChainInv, ChainTypes
<1>3. Balanced'
  BY <1>1 DEF ChainInv, Balanced
<1> QED
  BY <1>1, <1>2, <1>3, ChainIndents

\* The channel delivers an item to the sinks.
LEMMA ChainDeliver ==
    ASSUME ChainInv, Deliver
    PROVE  ChainInv'
<1>1. /\ Log!Deliver /\ UNCHANGED <<level, indent, block, atomic, scopes, written, group, opened>> /\ sent' = sent
  BY DEF Deliver, Log!Deliver
<1>2. Stream' = Stream /\ channel' \in Streams /\ sinks' \in Streams
  BY <1>1, DeliverStream DEF ChainInv, ChainTypes
<1>3. ChainTypes' /\ Balanced' /\ HeldInBlocks' /\ GroupsGiven'
  BY <1>1, <1>2 DEF ChainInv, ChainTypes, Balanced, HeldInBlocks, GroupsGiven
<1>4. RecordsKept'
  BY <1>1, <1>2 DEF ChainInv, RecordsKept
<1> QED
  BY <1>3, <1>4 DEF ChainInv

\* A new record has the last name and the group that is open for its logger.
LEMMA NewRecord ==
    ASSUME ChainInv, NEW t \in Threads, NEW l \in Loggers, NEW lvl \in Levels, NEW r,
           r = [by |-> t, to |-> l, name |-> written + 1, level |-> lvl, indent |-> 0, group |-> group[t][l]]
    PROVE  /\ Follows(<<r>>, t, Stream) /\ SentTo(l, <<r>>) /\ Within(written + 1, opened, <<r>>)
           /\ \A u \in Threads, k \in Loggers : Before(atomic[u][k], <<r>>)
           /\ l = "main" => Before(<<r>>, atomic[t]["service"])
           /\ \A u \in Threads, k \in Loggers :
                 u # t \/ k # l => GroupsIn(<<r>>) \intersect GroupsIn(atomic[u][k]) = {} /\ group[u][k] \notin GroupsIn(<<r>>)
           /\ group[t][l] = 0 => GroupsIn(<<r>>) = {}
<1> DEFINE one == <<r>>
<1>1. lvl \in AllLevels /\ written \in Nat /\ opened \in Nat /\ group[t][l] \in Nat /\ group[t][l] <= opened
  BY LevelsAssumption DEF ChainInv, ChainTypes, Groupings, GroupsGiven
<1>2. r \in AnyRecord /\ r.by = t /\ r.to = l /\ r.name = written + 1 /\ r.group = group[t][l]
  BY <1>1 DEF AnyRecord
<1> DEFINE kind == AnyRecord
<1>3. one \in Seq(kind) /\ DOMAIN one = {1} /\ one[1] = r
  <2> HIDE DEF kind
  <2>1. r \in kind
    BY <1>2 DEF kind
  <2> QED
    BY <2>1
<1> HIDE DEF one
<1>4. Ascending(one) /\ WrittenBy(t, one) /\ SentTo(l, one) /\ Within(written + 1, opened, one)
  BY <1>1, <1>2, <1>3 DEF Ascending, WrittenBy, SentTo, Within
<1>5. GroupsIn(one) = {group[t][l]} \ {0}
  BY <1>2, <1>3 DEF GroupsIn
<1>6. ASSUME NEW s \in Batches, Within(written, opened, s) PROVE Before(s, one)
  <2>1. \A m \in DOMAIN s : s[m] \in AnyRecord
    BY LenProperties DEF Batches
  <2>2. \A m \in DOMAIN s : s[m].name \in Nat /\ s[m].name <= written
    BY <1>6, <2>1 DEF AnyRecord, Within
  <2>3. \A m \in DOMAIN s : s[m].name < written + 1
    BY <1>1, <2>2
  <2> QED
    BY <1>2, <1>3, <2>3 DEF Before
<1>7. (\A i \in DOMAIN Stream : Stream[i].what \in Batches) /\ \A u \in Threads, k \in Loggers : atomic[u][k] \in Batches
  <2>1. Stream \in Streams
    BY ConcatProperties DEF Stream, ChainInv, ChainTypes, Streams
  <2>2. \A i \in DOMAIN Stream : Stream[i] \in [what : Batches, id : Nat]
    BY <2>1, LenProperties DEF Streams
  <2> QED
    BY <2>2 DEF Buffers, ChainInv, ChainTypes
<1>8. /\ \A i \in DOMAIN Stream : Before(Stream[i].what, one)
      /\ \A u \in Threads, k \in Loggers : Before(atomic[u][k], one)
  BY <1>6, <1>7, Zenon DEF ChainInv, RecordsKept, Numbered
<1>9. ASSUME l = "main" PROVE Before(one, atomic[t]["service"])
  <2>1. SentTo("service", atomic[t]["service"])
    BY DEF ChainInv, RecordsKept, Ordered
  <2> QED
    BY <1>2, <1>3, <1>9, <2>1 DEF SentTo, Before, Same
<1>10. \A i \in DOMAIN Stream : GroupsIn(Stream[i].what) \intersect GroupsIn(one) = {}
  <2>1. \A i \in DOMAIN Stream : group[t][l] \notin GroupsIn(Stream[i].what)
    BY Zenon DEF ChainInv, RecordsKept, Whole
  <2> QED
    BY <1>5, <2>1
<1>11. ASSUME NEW u \in Threads, NEW k \in Loggers, u # t \/ k # l
       PROVE  GroupsIn(one) \intersect GroupsIn(atomic[u][k]) = {} /\ group[u][k] \notin GroupsIn(one)
  <2>1. group[t][l] \notin GroupsIn(atomic[u][k])
    BY <1>11, Zenon DEF ChainInv, RecordsKept, Whole
  <2>2. group[t][l] # 0 => group[t][l] # group[u][k]
    BY <1>11 DEF ChainInv, GroupsGiven
  <2> QED
    BY <1>5, <2>1, <2>2
<1>12. Follows(one, t, Stream)
  BY <1>3, <1>4, <1>8, <1>10 DEF Follows, Batches
<1> QED
  BY <1>4, <1>5, <1>8, <1>9, <1>11, <1>12 DEF one

\* The thread's other buffers are as they were.
LEMMA ReachMainHere ==
    ASSUME ChainTypes, NEW t \in Threads, NEW records \in Batches, ReachMain(t, records, atomic[t]),
           NEW names, NEW groups, Within(names, groups, records),
           Ordered(Stream, atomic), Whole(Stream, atomic, group), Numbered(Stream, atomic, names, groups),
           block[t]["main"] > 0 => MayHold(records, t, "main", Stream, atomic, group),
           ~(block[t]["main"] > 0) => MaySend(records, t, Stream, atomic, group)
    PROVE  /\ RecordsKeep(atomic, group, names, groups)
           /\ \A u \in Threads, k \in Loggers : u # t \/ k # "main" => atomic'[u][k] = atomic[u][k]
           /\ ~(block[t]["main"] > 0) => atomic'[t]["main"] = atomic[t]["main"]
<1> DEFINE buffers == atomic[t]
<1>1. atomic \in Buffers /\ atomic[t] = buffers /\ ReachMain(t, records, buffers)
  BY DEF ChainTypes
<1> HIDE DEF buffers
<1> QED
  BY <1>1, ReachMainKeeps

\* write(), through both loggers.
LEMMA ChainWrite ==
    ASSUME ChainInv, NEW t \in Threads, NEW l \in Loggers, NEW lvl \in Levels, Write(t, l, lvl)
    PROVE  ChainInv'
<1> DEFINE r == [by |-> t, to |-> l, name |-> written + 1, level |-> lvl, indent |-> 0, group |-> group[t][l]]
           one == <<r>>
<1>1. /\ IF l = "main" THEN ReachMain(t, one, atomic[t]) ELSE ReachService(t, one)
      /\ written' = written + 1
      /\ UNCHANGED <<level, indent, block, scopes, group, opened, changes>>
  BY DEF Write
<1>2. /\ Follows(one, t, Stream) /\ SentTo(l, one) /\ Within(written + 1, opened, one)
      /\ \A u \in Threads, k \in Loggers : Before(atomic[u][k], one)
      /\ l = "main" => Before(one, atomic[t]["service"])
      /\ \A u \in Threads, k \in Loggers :
            u # t \/ k # l => GroupsIn(one) \intersect GroupsIn(atomic[u][k]) = {} /\ group[u][k] \notin GroupsIn(one)
      /\ group[t][l] = 0 => GroupsIn(one) = {}
  <2> HIDE DEF r
  <2>1. r = [by |-> t, to |-> l, name |-> written + 1, level |-> lvl, indent |-> 0, group |-> group[t][l]]
    BY DEF r
  <2> QED
    BY <2>1, NewRecord
<1> HIDE DEF one
<1>3. one \in Batches
  BY <1>2 DEF Follows
<1>4. Loggers = {"main", "service"}
  BY DEF Loggers
<1>5. ChainTypes /\ Ordered(Stream, atomic) /\ Whole(Stream, atomic, group) /\ Numbered(Stream, atomic, written + 1, opened)
  <2>1. ASSUME NEW s \in Batches, Within(written, opened, s) PROVE Within(written + 1, opened, s)
    <3>1. \A m \in DOMAIN s : s[m] \in AnyRecord
      BY LenProperties DEF Batches
    <3> QED
      BY <2>1, <3>1 DEF Within, AnyRecord, ChainInv, ChainTypes
  <2>2. (\A i \in DOMAIN Stream : Stream[i].what \in Batches) /\ \A u \in Threads, k \in Loggers : atomic[u][k] \in Batches
    <3>1. Stream \in Streams
      BY ConcatProperties DEF Stream, ChainInv, ChainTypes, Streams
    <3>2. \A i \in DOMAIN Stream : Stream[i] \in [what : Batches, id : Nat]
      BY <3>1, LenProperties DEF Streams
    <3> QED
      BY <3>2 DEF Buffers, ChainInv, ChainTypes
  <2> QED
    BY <2>1, <2>2, Zenon DEF Numbered, ChainInv, RecordsKept
<1>6. /\ \A k \in Loggers : block[t][k] \in Nat
      /\ \A k \in Loggers : block[t][k] = 0 => group[t][k] = 0 /\ atomic[t][k] = <<>>
      /\ atomic = [atomic EXCEPT ![t] = atomic[t]] /\ atomic \in Buffers
  BY <1>5, CountsAreNat DEF ChainInv, GroupsGiven, HeldInBlocks, ChainTypes, Buffers
<1> DEFINE OnlyWhereHeld == \A u \in Threads, k \in Loggers :
                               block[u][k] = 0 /\ atomic[u][k] = <<>> => atomic'[u][k] = <<>>
<1>7. ASSUME l = "main"
      PROVE  RecordsKeep(atomic, group, written + 1, opened) /\ OnlyWhereHeld
  <2>1. ReachMain(t, one, atomic[t])
    BY <1>1, <1>7
  <2>2. block[t]["main"] > 0 => MayHold(one, t, "main", Stream, atomic, group)
    BY <1>2, <1>4, <1>7 DEF MayHold
  <2>3. ~(block[t]["main"] > 0) => MaySend(one, t, Stream, atomic, group)
    <3> SUFFICES ASSUME ~(block[t]["main"] > 0) PROVE MaySend(one, t, Stream, atomic, group)
      OBVIOUS
    <3>1. group[t]["main"] = 0 /\ atomic[t]["main"] = <<>>
      BY <1>4, <1>6
    <3>2. \A k \in Loggers : Before(one, atomic[t][k])
      BY <1>2, <1>4, <1>7, <3>1, Empty
    <3>3. GroupsIn(one) = {}
      BY <1>2, <1>7, <3>1
    <3> QED
      BY <1>2, <3>2, <3>3 DEF MaySend
  <2>4. /\ RecordsKeep(atomic, group, written + 1, opened)
        /\ \A u \in Threads, k \in Loggers : u # t \/ k # "main" => atomic'[u][k] = atomic[u][k]
        /\ ~(block[t]["main"] > 0) => atomic'[t]["main"] = atomic[t]["main"]
    BY <1>2, <1>3, <1>5, <1>6, <2>1, <2>2, <2>3, ReachMainHere
  <2>5. OnlyWhereHeld
    BY <2>4
  <2> QED
    BY <2>4, <2>5
<1>8. ASSUME l = "service" /\ Stamp(t, "service", one) = <<>>
      PROVE  RecordsKeep(atomic, group, written + 1, opened) /\ OnlyWhereHeld
  <2>1. UNCHANGED <<atomic, chan>>
    BY <1>1, <1>8 DEF ReachService
  <2>2. Stream' = Stream
    BY <2>1 DEF Stream, chan
  <2> QED
    BY <1>5, <2>1, <2>2 DEF RecordsKeep, ChainTypes, chan
<1> DEFINE b == Stamp(t, "service", one)
<1>9. b \in Batches /\ PartOf(b, one)
  BY <1>3, <1>4, <1>5, StampIsPart DEF ChainTypes
<1>10. Within(written + 1, opened, b) /\ GroupsIn(b) \subseteq GroupsIn(one)
  <2>1. DOMAIN b \subseteq Nat /\ DOMAIN one \subseteq Nat
    BY <1>3, <1>9, LenProperties DEF Batches
  <2> HIDE DEF b
  <2> QED
    BY <1>2, <1>9, <2>1, PartKeeps
<1> HIDE DEF b
<1>11. ASSUME l = "service" /\ b # <<>> /\ block[t]["service"] > 0
       PROVE  RecordsKeep(atomic, group, written + 1, opened) /\ OnlyWhereHeld
  <2>1. atomic' = [atomic EXCEPT ![t]["service"] = atomic[t]["service"] \o b] /\ UNCHANGED chan
    BY <1>1, <1>11 DEF ReachService, b
  <2> DEFINE new == atomic[t]["service"] \o b
  <2>2. atomic' = Held(atomic, t, "service", new)
    BY <1>4, <2>1 DEF Held, ChainTypes, Buffers
  <2>3. Stream' = Stream
    BY <2>1 DEF Stream, chan
  <2>4. MayHold(one, t, "service", Stream, atomic, group)
    BY <1>2, <1>4, <1>11 DEF MayHold
  <2>5. MayHold(b, t, "service", Stream, atomic, group)
    BY <1>3, <1>9, <2>4, PartMay
  <2>6. "service" \in Loggers
    BY <1>4
  <2>7. /\ atomic' \in Buffers /\ Ordered(Stream, atomic') /\ Whole(Stream, atomic', group)
        /\ Numbered(Stream, atomic', written + 1, opened)
    BY <1>5, <1>6, <1>10, <2>2, <2>5, <2>6, HoldKeeps
  <2>8. OnlyWhereHeld
    <3> SUFFICES ASSUME NEW u \in Threads, NEW k \in Loggers, block[u][k] = 0, atomic[u][k] = <<>>
                 PROVE  atomic'[u][k] = <<>>
      OBVIOUS
    <3>1. u # t \/ k # "service"
      BY <1>11
    <3>2. new \in Batches
      BY <1>6, <1>9, <2>6, ConcatKeeps DEF Buffers
    <3> HIDE DEF new
    <3>3. atomic'[u][k] = atomic[u][k]
      BY <1>6, <2>2, <2>6, <3>1 DEF Held, Buffers
    <3> QED
      BY <3>3
  <2> QED
    BY <1>5, <2>1, <2>3, <2>7, <2>8 DEF RecordsKeep, ChainTypes, chan
<1>12. ASSUME l = "service" /\ b # <<>> /\ ~(block[t]["service"] > 0)
       PROVE  RecordsKeep(atomic, group, written + 1, opened) /\ OnlyWhereHeld
  <2>1. ReachMain(t, b, atomic[t])
    BY <1>1, <1>12 DEF ReachService, b
  <2>2. group[t]["service"] = 0 /\ atomic[t]["service"] = <<>> /\ GroupsIn(one) = {}
    BY <1>2, <1>4, <1>6, <1>12
  <2>3. Before(one, atomic[t]["service"])
    BY <2>2, Empty
  <2>4. MayHold(one, t, "main", Stream, atomic, group)
    BY <1>2, <1>4, <2>2, <2>3 DEF MayHold
  <2>5. ~(block[t]["main"] > 0) => MaySend(one, t, Stream, atomic, group)
    <3> SUFFICES ASSUME ~(block[t]["main"] > 0) PROVE MaySend(one, t, Stream, atomic, group)
      OBVIOUS
    <3>1. atomic[t]["main"] = <<>>
      BY <1>4, <1>6
    <3>2. \A k \in Loggers : Before(one, atomic[t][k])
      BY <1>4, <2>3, <3>1, Empty
    <3> QED
      BY <1>2, <2>2, <3>2 DEF MaySend
  <2>6. /\ block[t]["main"] > 0 => MayHold(b, t, "main", Stream, atomic, group)
        /\ ~(block[t]["main"] > 0) => MaySend(b, t, Stream, atomic, group)
    BY <1>3, <1>9, <2>4, <2>5, PartMay
  <2>7. /\ RecordsKeep(atomic, group, written + 1, opened)
        /\ \A u \in Threads, k \in Loggers : u # t \/ k # "main" => atomic'[u][k] = atomic[u][k]
        /\ ~(block[t]["main"] > 0) => atomic'[t]["main"] = atomic[t]["main"]
    BY <1>5, <1>6, <1>9, <1>10, <2>1, <2>6, ReachMainHere
  <2>8. OnlyWhereHeld
    BY <2>7
  <2> QED
    BY <2>7, <2>8
<1>13. RecordsKeep(atomic, group, written + 1, opened) /\ OnlyWhereHeld
  BY <1>4, <1>7, <1>8, <1>11, <1>12 DEF b
<1> HIDE DEF OnlyWhereHeld
<1>14. ChainTypes' /\ Balanced' /\ GroupsGiven'
  BY <1>1, <1>13 DEF RecordsKeep, ChainInv, ChainTypes, Balanced, GroupsGiven
<1>15. HeldInBlocks'
  BY <1>1, <1>13 DEF OnlyWhereHeld, ChainInv, HeldInBlocks
<1>16. RecordsKept'
  BY <1>1, <1>13 DEF RecordsKeep, RecordsKept
<1> QED
  BY <1>14, <1>15, <1>16 DEF ChainInv

\* ~AtomicBlock: the outermost block passes on what it held.
LEMMA ChainEndBlock ==
    ASSUME ChainInv, NEW t \in Threads, EndBlock(t)
    PROVE  ChainInv'
<1> DEFINE e == Last(scopes[t])
           l == e.logger
           taken == atomic[t][l]
           moved == BuffersMoved(t, l)
<1>1. /\ scopes[t] # <<>> /\ e.kind = "block" /\ scopes' = [scopes EXCEPT ![t] = Front(scopes[t])]
      /\ block' = [block EXCEPT ![t][l] = block[t][l] - 1]
      /\ group' = IF block[t][l] = 1 THEN [group EXCEPT ![t][l] = 0] ELSE group
      /\ UNCHANGED <<level, indent, written, opened, changes>>
  BY DEF EndBlock, Closing, Outermost
<1>2. /\ block[t][l] = 1 /\ taken # <<>>
            => IF l = "service" THEN ReachMain(t, taken, moved)
               ELSE atomic' = [atomic EXCEPT ![t] = moved] /\ Enqueue(taken)
      /\ ~(block[t][l] = 1 /\ taken # <<>>) => UNCHANGED <<atomic, chan>>
  BY DEF EndBlock, GroupEnds, Outermost
<1>3. e \in AnyScope
  BY <1>1, ScopePopped DEF ChainInv, Balanced
<1>4. e.enable = TRUE
  <2>1. scopes[t] \in Seq(AnyScope) /\ \A i \in DOMAIN scopes[t] : scopes[t][i].kind = "block" => scopes[t][i].enable = TRUE
    BY DEF ChainInv, Balanced
  <2>2. Len(scopes[t]) \in DOMAIN scopes[t] /\ e = scopes[t][Len(scopes[t])]
    BY <1>1, <2>1 DEF Last
  <2> QED
    BY <1>1, <2>1, <2>2
<1>5. moved = [atomic[t] EXCEPT ![l] = <<>>]
  BY DEF BuffersMoved
<1> HIDE DEF e, moved
<1>6. l \in Loggers
  BY <1>3 DEF AnyScope
<1>7. \A k \in Loggers : Weight(e, "block", k) = (IF k = l THEN 1 ELSE 0) /\ Weight(e, "indent", k) = 0
  BY <1>1, <1>4 DEF Weight
<1> HIDE DEF l, taken
<1>8. /\ indent \in [Threads -> [Loggers -> Int]] /\ block \in [Threads -> [Loggers -> Int]]
      /\ group \in Groupings /\ opened \in Nat /\ atomic \in Buffers
      /\ \A u \in Threads, k \in Loggers : block[u][k] \in Nat
      /\ l \in Loggers /\ taken = atomic[t][l]
  BY <1>6, CountsAreNat DEF ChainInv, ChainTypes, taken
<1>9. /\ block[t][l] - 1 \in Int /\ block'[t][l] = block[t][l] - 1 /\ block' \in [Threads -> [Loggers -> Int]]
      /\ \A u \in Threads, k \in Loggers : u # t \/ k # l => block'[u][k] = block[u][k]
  BY <1>1, <1>8
<1>10. \A u \in Threads, k \in Loggers :
              /\ indent'[u][k] = IF u = t THEN indent[u][k] - Weight(e, "indent", k) ELSE indent[u][k]
              /\ block'[u][k] = IF u = t THEN block[u][k] - Weight(e, "block", k) ELSE block[u][k]
  BY <1>1, <1>7, <1>8, <1>9
<1>11. Balanced'
  BY <1>1, <1>10, PopBalances DEF ChainInv, e
\* The group is closed with the outermost block.
<1>12. /\ group' \in Groupings
       /\ group'[t][l] = IF block[t][l] = 1 THEN 0 ELSE group[t][l]
       /\ \A u \in Threads, k \in Loggers : u # t \/ k # l => group'[u][k] = group[u][k]
  <2>1. CASE block[t][l] = 1
    BY <1>1, <1>8, <2>1 DEF Groupings
  <2>2. CASE block[t][l] # 1
    BY <1>1, <1>8, <2>2
  <2> QED
    BY <2>1, <2>2
<1>13. \A u \in Threads, k \in Loggers :
          group'[u][k] = 0 \/ group'[u][k] = group[u][k] \/ group'[u][k] > opened
  BY <1>12
<1>14. 1 \in Nat /\ block[t][l] # 0
  <2>1. block[t][l] - 1 = Cardinality(OpenOf(scopes'[t], "block", l))
    BY <1>8, <1>9, <1>11 DEF Balanced
  <2>2. Balanced' => \A u \in Threads, k \in Loggers : Cardinality(OpenOf(scopes'[u], "block", k)) \in Nat
    <3> SUFFICES ASSUME Balanced', NEW u \in Threads, NEW k \in Loggers
                 PROVE  Cardinality(OpenOf(scopes'[u], "block", k)) \in Nat
      OBVIOUS
    <3>1. scopes'[u] \in Seq(AnyScope)
      BY DEF Balanced
    <3>2. DOMAIN scopes'[u] = 1..Len(scopes'[u]) /\ Len(scopes'[u]) \in Nat
      BY <3>1, LenProperties
    <3>3. IsFiniteSet(OpenOf(scopes'[u], "block", k))
      <4>1. IsFiniteSet(DOMAIN scopes'[u])
        BY <3>2, FS_Interval
      <4> QED
        BY <4>1, FS_Subset DEF OpenOf
    <3> QED
      BY <3>3, FS_CardinalityType
  <2> QED
    BY <1>8, <1>11, <2>1, <2>2
<1>15. GroupsGiven'
  <2>1. ASSUME NEW u \in Threads, NEW k \in Loggers
        PROVE  (group'[u][k] = 0 <=> block'[u][k] = 0) /\ group'[u][k] <= opened'
    <3>0. (group[u][k] = 0 <=> block[u][k] = 0) /\ group[u][k] <= opened
      BY DEF ChainInv, GroupsGiven
    <3>1. CASE u # t \/ k # l
      BY <1>1, <1>9, <1>12, <3>0, <3>1
    <3>2. CASE u = t /\ k = l
      BY <1>1, <1>8, <1>9, <1>12, <1>14, <3>0, <3>2
    <3> QED
      BY <3>1, <3>2
  <2>2. ASSUME NEW u \in Threads, NEW w \in Threads, NEW k \in Loggers, NEW m \in Loggers,
               u # w \/ k # m, group'[u][k] # 0
        PROVE  group'[u][k] # group'[w][m]
    <3>1. group'[u][k] = group[u][k] /\ (group'[w][m] = 0 \/ group'[w][m] = group[w][m])
      BY <1>12, <2>2
    <3>2. group[u][k] # group[w][m]
      BY <2>2, <3>1 DEF ChainInv, GroupsGiven
    <3> QED
      BY <2>2, <3>1, <3>2
  <2> QED
    BY <2>1, <2>2 DEF GroupsGiven
\* Nothing is sent.
<1>16. ASSUME ~(block[t][l] = 1 /\ taken # <<>>)
       PROVE  ChainTypes' /\ RecordsKept' /\ HeldInBlocks'
  <2>1. UNCHANGED <<atomic, chan>>
    BY <1>2, <1>16
  <2>2. RecordsKept'
    BY <1>1, <1>8, <1>12, <1>13, <2>1, RecordsStay
  <2>3. HeldInBlocks'
    <3> SUFFICES ASSUME NEW u \in Threads, NEW k \in Loggers, block'[u][k] = 0 PROVE atomic[u][k] = <<>>
      BY <2>1 DEF HeldInBlocks
    <3>1. CASE u # t \/ k # l
      BY <1>9, <3>1 DEF ChainInv, HeldInBlocks
    <3>2. CASE u = t /\ k = l
      BY <1>8, <1>9, <1>16, <3>2
    <3> QED
      BY <3>1, <3>2
  <2>4. ChainTypes'
    BY <1>1, <1>9, <1>12, <2>1 DEF ChainInv, ChainTypes, chan
  <2> QED
    BY <2>2, <2>3, <2>4
\* The group is sent.
<1>17. ASSUME block[t][l] = 1, taken # <<>>
       PROVE  ChainTypes' /\ RecordsKept' /\ HeldInBlocks'
  <2> DEFINE held == Held(atomic, t, l, <<>>)
  <2>1. held = [atomic EXCEPT ![t] = moved]
    BY <1>5 DEF Held
  <2>2. /\ held \in Buffers /\ Ordered(Stream, held) /\ Whole(Stream, held, group)
        /\ Numbered(Stream, held, written, opened)
    BY <1>8, TakeKeeps DEF ChainInv, RecordsKept
  <2>3. /\ held[t][l] = <<>>
        /\ \A u \in Threads, k \in Loggers : u # t \/ k # l => held[u][k] = atomic[u][k]
    BY <1>8, Empty, HeldIs
  <2>4. /\ l = "main" \/ atomic[t]["main"] = <<>> => MaySend(taken, t, Stream, held, group')
        /\ l = "service" => MayHold(taken, t, "main", Stream, held, group')
    <3> DEFINE shut == group'
    <3>1. shut[t][l] = 0 /\ \A u \in Threads, k \in Loggers : u # t \/ k # l => shut[u][k] = group[u][k]
      BY <1>12, <1>17
    <3>2. Ordered(Stream, atomic) /\ Whole(Stream, atomic, group)
      BY DEF ChainInv, RecordsKept
    <3> HIDE DEF shut, held
    <3>3. /\ l = "main" \/ atomic[t]["main"] = <<>> => MaySend(atomic[t][l], t, Stream, held, shut)
          /\ l = "service" => MayHold(atomic[t][l], t, "main", Stream, held, shut)
      BY <1>8, <2>3, <3>1, <3>2, TakenMay
    <3> QED
      BY <1>8, <3>3 DEF shut
  <2> HIDE DEF held
  <2>5. Stream \in Streams
    BY ConcatProperties DEF Stream, ChainInv, ChainTypes, Streams
  <2>6. Whole(Stream, held, group')
    BY <1>8, <1>12, <1>13, <2>2, <2>5, GroupKeeps
  <2>7. taken \in Batches /\ Within(written, opened, taken)
    BY <1>8 DEF Buffers, ChainInv, RecordsKept, Numbered
  <2>8. /\ RecordsKeep(held, group', written, opened)
        /\ \A u \in Threads, k \in Loggers : u # t \/ k # "main" => atomic'[u][k] = held[u][k]
        /\ block[t]["main"] = 0 \/ l = "main" => atomic'[t]["main"] = held[t]["main"]
    <3>1. CASE l = "service"
      <4>1. ReachMain(t, taken, moved)
        BY <1>2, <1>17, <3>1
      <4>2. held[t] = moved /\ \A u \in Threads : u # t => held[u] = atomic[u]
        BY <1>8, <2>1 DEF Buffers
      <4>3. "main" \in Loggers
        BY DEF Loggers
      <4>4. ~(block[t]["main"] > 0) => MaySend(taken, t, Stream, held, group')
        <5> SUFFICES ASSUME ~(block[t]["main"] > 0) PROVE MaySend(taken, t, Stream, held, group')
          OBVIOUS
        <5>1. block[t]["main"] = 0
          BY <1>8, <4>3
        <5> QED
          BY <2>4, <4>3, <5>1 DEF ChainInv, HeldInBlocks
      <4>5. /\ RecordsKeep(held, group', written, opened)
            /\ \A u \in Threads, k \in Loggers : u # t \/ k # "main" => atomic'[u][k] = held[u][k]
            /\ ~(block[t]["main"] > 0) => atomic'[t]["main"] = held[t]["main"]
        <5> DEFINE open == group'
        <5>1. /\ Whole(Stream, held, open)
              /\ block[t]["main"] > 0 => MayHold(taken, t, "main", Stream, held, open)
              /\ ~(block[t]["main"] > 0) => MaySend(taken, t, Stream, held, open)
              /\ ChainTypes
          BY <2>4, <2>6, <3>1, <4>4 DEF ChainInv
        <5> HIDE DEF open
        <5>2. RecordsKeep(held, open, written, opened)
            /\ (\A u \in Threads, k \in Loggers : u # t \/ k # "main" => atomic'[u][k] = held[u][k])
            /\ (~(block[t]["main"] > 0) => atomic'[t]["main"] = held[t]["main"])
          BY <2>2, <2>7, <4>1, <4>2, <5>1, ReachMainKeeps
        <5> QED
          BY <5>2 DEF open
      <4>6. block[t]["main"] = 0 \/ l = "main" => ~(block[t]["main"] > 0)
        BY <3>1
      <4> QED
        BY <4>5, <4>6
    <3>2. CASE l = "main"
      <4>1. atomic' = held /\ Enqueue(taken)
        BY <1>2, <1>17, <2>1, <3>2
      <4>2. MaySend(taken, t, Stream, held, group')
        BY <2>4, <3>2
      <4> DEFINE open == group'
      <4>3. Whole(Stream, held, open) /\ MaySend(taken, t, Stream, held, open)
        BY <2>6, <4>2
      <4> HIDE DEF open
      <4>4. /\ channel' \in Streams /\ sinks' \in Streams /\ sent' \in Nat
            /\ Ordered(Stream', held) /\ Whole(Stream', held, open) /\ Numbered(Stream', held, written, opened)
        BY <2>2, <2>7, <4>1, <4>3, EnqueueKeeps DEF ChainInv, ChainTypes
      <4>5. RecordsKeep(held, open, written, opened)
        BY <2>2, <4>1, <4>4, Zenon DEF RecordsKeep
      <4> QED
        BY <4>1, <4>5 DEF open
    <3> QED
      BY <1>6, <3>1, <3>2 DEF Loggers
  <2>9. ChainTypes' /\ RecordsKept'
    BY <1>1, <1>9, <1>12, <2>8 DEF RecordsKeep, RecordsKept, ChainInv, ChainTypes
  <2>10. HeldInBlocks'
    <3> SUFFICES ASSUME NEW u \in Threads, NEW k \in Loggers, block'[u][k] = 0 PROVE atomic'[u][k] = <<>>
      BY DEF HeldInBlocks
    <3>1. held[u][k] = <<>>
      BY <1>9, <2>3 DEF ChainInv, HeldInBlocks
    <3>2. CASE u # t \/ k # "main"
      BY <2>8, <3>1, <3>2
    <3>3. CASE u = t /\ k = "main"
      <4>1. block[t]["main"] = 0 \/ l = "main"
        BY <1>9, <3>3
      <4> QED
        BY <2>8, <3>1, <3>3, <4>1
    <3> QED
      BY <3>2, <3>3
  <2> QED
    BY <2>9, <2>10
<1>18. ChainTypes' /\ RecordsKept' /\ HeldInBlocks'
  BY <1>16, <1>17
<1> QED
  BY <1>11, <1>15, <1>18 DEF ChainInv

\* Nothing is logged at the start.
LEMMA ChainStart == LoggerInit => ChainInv
<1> SUFFICES ASSUME LoggerInit PROVE ChainInv
  OBVIOUS
<1>1. /\ level = [l \in Loggers |-> "debug"]
      /\ indent = [t \in Threads |-> [l \in Loggers |-> 0]] /\ block = [t \in Threads |-> [l \in Loggers |-> 0]]
      /\ atomic = [t \in Threads |-> [l \in Loggers |-> <<>>]] /\ scopes = [t \in Threads |-> <<>>]
      /\ group = [t \in Threads |-> [l \in Loggers |-> 0]]
      /\ channel = <<>> /\ sinks = <<>> /\ sent = 0 /\ written = 0 /\ opened = 0
  BY DEF LoggerInit, Init, Log!Init
<1> DEFINE none == <<>>
<1>2. /\ none \in Batches /\ Ascending(none) /\ GroupsIn(none) = {}
      /\ \A s : Before(s, none) /\ Before(none, s)
      /\ \A t : WrittenBy(t, none) /\ SentTo(t, none)
      /\ \A names, groups : Within(names, groups, none)
  BY Empty
<1>3. none \in Seq(AnyScope) /\ none \in Streams /\ DOMAIN none = {} /\ none \o none = none
  BY DEF Streams
<1>4. \A t \in Threads, l \in Loggers : atomic[t][l] = none /\ group[t][l] = 0
  BY <1>1
<1> HIDE DEF none
<1>5. ChainTypes
  BY <1>1, <1>2, <1>3 DEF ChainTypes, AllLevels, Buffers, Groupings, none
<1>6. Balanced
  <2>1. \A t \in Threads : scopes[t] = none
    BY <1>1 DEF none
  <2>2. \A t \in Threads : \A kind, l : OpenOf(scopes[t], kind, l) = {}
    BY <1>3, <2>1 DEF OpenOf
  <2>3. scopes \in [Threads -> Seq(AnyScope)]
    BY <1>1, <1>3 DEF none
  <2>4. Cardinality({}) = 0
    BY FS_EmptySet
  <2>5. \A t \in Threads, l \in Loggers : indent[t][l] = 0 /\ block[t][l] = 0
    BY <1>1
  <2>6. \A t \in Threads : \A kind, l : Cardinality(OpenOf(scopes[t], kind, l)) = 0
    BY <2>2, <2>4, Zenon
  <2> QED
    BY <1>3, <2>1, <2>3, <2>5, <2>6 DEF Balanced
<1>7. HeldInBlocks /\ GroupsGiven
  BY <1>1 DEF HeldInBlocks, GroupsGiven
<1>8. Stream = none
  BY <1>1, <1>3 DEF Stream, none
<1>9. RecordsKept
  <2>1. Ordered(none, atomic)
    BY <1>2, <1>3, <1>4, Zenon DEF Ordered, Loggers
  <2>2. Whole(none, atomic, group)
    BY <1>2, <1>3, <1>4 DEF Whole
  <2>3. Numbered(none, atomic, written, opened)
    BY <1>2, <1>3, <1>4 DEF Numbered
  <2> QED
    BY <1>8, <2>1, <2>2, <2>3 DEF RecordsKept
<1> QED
  BY <1>5, <1>6, <1>7, <1>9 DEF ChainInv

\* The steps together.
LEMMA ChainNext == ChainInv /\ [Next]_vars => ChainInv'
<1> SUFFICES ASSUME ChainInv, [Next]_vars PROVE ChainInv'
  OBVIOUS
<1>1. CASE UNCHANGED vars
  <2>1. /\ UNCHANGED <<level, indent, block, atomic, scopes, written, group, opened>>
        /\ UNCHANGED <<channel, sinks, sent>> /\ Stream' = Stream
    BY <1>1 DEF vars, chan, Stream
  <2>2. ChainTypes' /\ Balanced' /\ HeldInBlocks' /\ GroupsGiven' /\ RecordsKept'
    BY <2>1 DEF ChainInv, ChainTypes, Balanced, HeldInBlocks, GroupsGiven, RecordsKept
  <2> QED
    BY <2>2 DEF ChainInv
<1>2. CASE \E t \in Threads, l \in Loggers, lvl \in Levels : Write(t, l, lvl)
  BY <1>2, ChainWrite
<1>3. CASE \E t \in Threads, l \in Loggers : BeginBlock(t, l)
  BY <1>3, ChainBeginBlock
<1>4. CASE \E t \in Threads, l \in Loggers, lvl \in Levels : BeginIndent(t, l, lvl)
  BY <1>4, ChainBeginIndent
<1>5. CASE \E t \in Threads : EndIndent(t)
  BY <1>5, ChainEndIndent
<1>6. CASE \E t \in Threads : EndBlock(t)
  BY <1>6, ChainEndBlock
<1>7. CASE \E l \in Loggers, lvl \in AllLevels : SetLevel(l, lvl)
  BY <1>7, ChainSetLevel
<1>8. CASE Deliver
  BY <1>8, ChainDeliver
<1> QED
  BY <1>1, <1>2, <1>3, <1>4, <1>5, <1>6, <1>7, <1>8 DEF Next

\* The parts share no variable: the invariant holds in the run.
LEMMA ChainAlways == LoggerSpec => []ChainInv
<1>1. ChainInv /\ [ChainStep \/ TeeStep \/ PlacesStep]_allVars => ChainInv'
  BY ChainNext DEF ChainStep, TeeStep, PlacesStep, allVars
<1> QED
  BY <1>1, ChainStart, PTL DEF LoggerSpec

-----------------------------------------------------------------------------
\* What the invariant says of the items and their records.
LEMMA StreamIs ==
    ASSUME ChainInv
    PROVE  /\ DOMAIN Stream \subseteq Nat
           /\ \A i \in DOMAIN Stream : Stream[i].what \in Batches
           /\ \A i \in DOMAIN Stream : \A m \in DOMAIN Stream[i].what : m \in Nat /\ Stream[i].what[m] \in AnyRecord
<1>1. Stream \in Streams
  BY ConcatProperties DEF Stream, ChainInv, ChainTypes, Streams
<1>2. DOMAIN Stream \subseteq Nat /\ \A i \in DOMAIN Stream : Stream[i] \in [what : Batches, id : Nat]
  <2> DEFINE items == [what : Batches, id : Nat]
  <2> HIDE DEF items
  <2>1. \A s \in Seq(items) : DOMAIN s \subseteq Nat /\ \A i \in DOMAIN s : s[i] \in items
    BY LenProperties
  <2>2. Streams = Seq(items)
    BY DEF Streams, items
  <2> QED
    BY <1>1, <2>1, <2>2 DEF items
<1>3. \A s \in Batches : \A m \in DOMAIN s : m \in Nat /\ s[m] \in AnyRecord
  BY LenProperties DEF Batches
<1> QED
  BY <1>2, <1>3

\* The records of one outermost AtomicBlock reach the sinks in one item, whatever the
\* other threads log and whatever blocks are nested in it (write(), beginBlock() and
\* endBlock() of logger_base.hxx, for both loggers of the chain).
THEOREM GroupsAreWhole == LoggerSpec => []GroupsStayWhole
<1>1. ChainInv => GroupsStayWhole
  <2> SUFFICES ASSUME ChainInv, NEW i \in DOMAIN Stream, NEW j \in DOMAIN Stream,
                      NEW m \in DOMAIN Stream[i].what, NEW n \in DOMAIN Stream[j].what
               PROVE  /\ Stream[i].what[m].group # 0 /\ Stream[i].what[m].group = Stream[j].what[n].group => i = j
                      /\ i = j => Stream[i].what[m].by = Stream[j].what[n].by
    BY DEF GroupsStayWhole
  <2>1. Whole(Stream, atomic, group)
    BY DEF ChainInv, RecordsKept
  <2>2. ASSUME Stream[i].what[m].group # 0, Stream[i].what[m].group = Stream[j].what[n].group
        PROVE  i = j
    <3>1. Stream[i].what[m].group \in GroupsIn(Stream[i].what) /\ Stream[j].what[n].group \in GroupsIn(Stream[j].what)
      BY <2>2 DEF GroupsIn
    <3> QED
      BY <2>1, <2>2, <3>1 DEF Whole
  <2>3. i = j => Stream[i].what[m].by = Stream[j].what[n].by
    BY <2>1 DEF Whole, WrittenBy
  <2> QED
    BY <2>2, <2>3
<1> QED
  BY <1>1, ChainAlways, PTL

\* The records a thread writes to one logger keep their order through the blocks of both
\* loggers and the channel (write(), writeImpl() and endBlock() of logger_base.hxx).
THEOREM RecordsKeepOrder == LoggerSpec => []RecordsInOrder
<1>1. ChainInv => RecordsInOrder
  <2> SUFFICES ASSUME ChainInv, NEW i \in DOMAIN Stream, NEW j \in DOMAIN Stream,
                      NEW m \in DOMAIN Stream[i].what, NEW n \in DOMAIN Stream[j].what,
                      i < j \/ (i = j /\ m < n),
                      Stream[i].what[m].by = Stream[j].what[n].by, Stream[i].what[m].to = Stream[j].what[n].to
               PROVE  Stream[i].what[m].name < Stream[j].what[n].name
    BY DEF RecordsInOrder
  <2>1. Ordered(Stream, atomic)
    BY DEF ChainInv, RecordsKept
  <2>2. Same(Stream[i].what[m], Stream[j].what[n])
    BY DEF Same
  <2>3. CASE i < j
    BY <2>1, <2>2, <2>3, Zenon DEF Ordered, Before
  <2>4. CASE i = j /\ m < n
    BY <2>1, <2>2, <2>4, Zenon DEF Ordered, Ascending
  <2> QED
    BY <2>3, <2>4
<1> QED
  BY <1>1, ChainAlways, PTL

\* Scopes leave nothing in a thread's data: neither indentation, nor a block, nor records
\* (~AtomicBlock() and ~IndentScope() of log.hxx, endBlock() of logger_base.hxx).
THEOREM ScopesLeaveNothing == LoggerSpec => []NothingLeftBehind
<1>1. ChainInv => NothingLeftBehind
  <2> SUFFICES ASSUME ChainInv, NEW t \in Threads, NEW l \in Loggers,
                      \A i \in DOMAIN scopes[t] : scopes[t][i].logger # l
               PROVE  indent[t][l] = 0 /\ block[t][l] = 0 /\ atomic[t][l] = <<>>
    BY DEF NothingLeftBehind
  <2>1. OpenOf(scopes[t], "indent", l) = {} /\ OpenOf(scopes[t], "block", l) = {}
    BY DEF OpenOf
  <2>2. Cardinality({}) = 0
    BY FS_EmptySet
  <2>3. indent[t][l] = 0 /\ block[t][l] = 0
    BY <2>1, <2>2, Zenon DEF ChainInv, Balanced
  <2> QED
    BY <2>3 DEF ChainInv, HeldInBlocks
<1> QED
  BY <1>1, ChainAlways, PTL

-----------------------------------------------------------------------------
(***************************************************************************)
(* Tee: a sink lives for as long as somebody has it.                       *)
(***************************************************************************)
SinkOrNone == (1..MaxSinks) \union {None}
Inside == {"write", "flush", "add", "remove", "find", "found"}
Outside == {"none", "leaving"}

TeeCalls == [kind : Inside \union Outside \union {"aborted"}, name : Names \union {None},
             parameter : SinkOrNone, left : SUBSET Names, at : SinkOrNone]

TeeTypes ==
    /\ made \in 0..MaxSinks
    /\ named \in [Names -> SinkOrNone]
    /\ refs \in [1..MaxSinks -> Int]
    /\ alive \subseteq 1..MaxSinks
    /\ pointer \in [Threads -> [Pointers -> SinkOrNone]]
    /\ call \in [Threads -> TeeCalls]
    /\ \A t \in Threads : call[t].kind \in {"add", "remove", "find"} => call[t].name \in Names

\* Calls that are inside at the same time share the lock.
LockIsKept ==
    \A t, u \in Threads :
        t # u /\ call[t].kind \in Inside /\ call[u].kind \in Inside
            => call[t].kind \in Sinks!Sharing /\ call[u].kind \in Sinks!Sharing

\* A call that uses a sink is inside.
UsedInside ==
    \A t \in Threads :
        /\ call[t].at # None => call[t].kind \in {"write", "flush", "found"}
        /\ call[t].kind \notin {"add", "leaving", "aborted"} => call[t].parameter = None

\* The two parts of SinksLiveWhileUsed.
CountedRight ==
    \A s \in 1..MaxSinks : refs[s] = Sinks!Owners(s) /\ (s \in alive <=> Sinks!Owners(s) > 0)
UsedIsNamed == \A t \in Threads : call[t].at # None => \E n \in Names : named[n] = call[t].at

\* A sink that is yet to be made has no owner.
NotYetMade == \A s \in 1..MaxSinks : s > made => Sinks!Owners(s) = 0

TeeInv == TeeTypes /\ LockIsKept /\ UsedInside /\ CountedRight /\ UsedIsNamed /\ NotYetMade

\* The three kinds of owners.
Named(s) == {n \in Names : named[n] = s}
Given(s) == {t \in Threads : call[t].parameter = s}
Pointing(s) == {tp \in Threads \X Pointers : pointer[tp[1]][tp[2]] = s}

\* How many of one value there are.
One(v, s) == IF v = s THEN 1 ELSE 0
In(a, S) == IF a \in S THEN 1 ELSE 0

\* Tee's cardinality is that of the theorems about it.
LEMMA SinksCardinality == \A S : Sinks!Cardinality(S) = Cardinality(S)
  BY DEF Sinks!Cardinality, Cardinality

\* Sets that differ in one element at most.
LEMMA CountChange ==
    ASSUME NEW before, NEW after, IsFiniteSet(before), IsFiniteSet(after), NEW a,
           before \ {a} = after \ {a}
    PROVE  Cardinality(after)
             = Cardinality(before) - In(a, before) + In(a, after)
<1> DEFINE others == before \ {a}
<1>1. IsFiniteSet(others) /\ Cardinality(others) \in Nat /\ a \notin others
  BY FS_RemoveElement, FS_CardinalityType
<1>2. Cardinality(others \cup {a}) = Cardinality(others) + 1
  BY <1>1, FS_AddElement
<1>3. ASSUME NEW S \in {before, after}
      PROVE  Cardinality(S) = Cardinality(others) + In(a, S)
  <2>1. CASE a \in S
    <3>1. S = others \cup {a}
      BY <2>1
    <3>2. Cardinality(S) = Cardinality(others) + 1
      BY <1>2, <3>1, Zenon
    <3> QED
      BY <2>1, <3>2, Zenon DEF In
  <2>2. CASE a \notin S
    <3>1. S = others
      BY <2>2
    <3>2. Cardinality(S) = Cardinality(others)
      BY <3>1, Zenon
    <3> QED
      BY <1>1, <2>2, <3>2 DEF In
  <2> QED
    BY <2>1, <2>2
<1> HIDE DEF others
<1>4. In(a, before) \in Int /\ In(a, after) \in Int
  BY DEF In
<1> QED
  BY <1>1, <1>3, <1>4

\* The owners of a sink are finitely many.
LEMMA OwnersFinite ==
    ASSUME NEW s
    PROVE  /\ IsFiniteSet(Named(s)) /\ IsFiniteSet(Named(s)')
           /\ IsFiniteSet(Given(s)) /\ IsFiniteSet(Given(s)')
           /\ IsFiniteSet(Pointing(s)) /\ IsFiniteSet(Pointing(s)')
  BY TeeAssumption, FS_Subset, FS_Product DEF Named, Given, Pointing

\* What has an owner is counted.
LEMMA OwnersSum ==
    ASSUME NEW s
    PROVE  /\ Sinks!Owners(s) = Cardinality(Named(s)) + Cardinality(Given(s)) + Cardinality(Pointing(s))
           /\ Sinks!Owners(s)' = Cardinality(Named(s)') + Cardinality(Given(s)') + Cardinality(Pointing(s)')
           /\ Cardinality(Named(s)) \in Nat /\ Cardinality(Given(s)) \in Nat
           /\ Cardinality(Pointing(s)) \in Nat
           /\ Sinks!Owners(s) \in Nat /\ Sinks!Owners(s)' \in Nat
           /\ Sinks!Owners(s) > 0 <=> Named(s) # {} \/ Given(s) # {} \/ Pointing(s) # {}
<1>1. /\ Sinks!Owners(s) = Cardinality(Named(s)) + Cardinality(Given(s)) + Cardinality(Pointing(s))
      /\ Sinks!Owners(s)' = Cardinality(Named(s)') + Cardinality(Given(s)') + Cardinality(Pointing(s)')
  BY SinksCardinality DEF Sinks!Owners, Named, Given, Pointing
<1>2. /\ IsFiniteSet(Named(s)) /\ IsFiniteSet(Given(s)) /\ IsFiniteSet(Pointing(s))
      /\ IsFiniteSet(Named(s)') /\ IsFiniteSet(Given(s)') /\ IsFiniteSet(Pointing(s)')
  BY OwnersFinite
<1>3. /\ Cardinality(Named(s)') \in Nat /\ Cardinality(Given(s)') \in Nat
      /\ Cardinality(Pointing(s)') \in Nat
  BY <1>2, FS_CardinalityType
<1>4. /\ Cardinality(Named(s)) \in Nat /\ Cardinality(Given(s)) \in Nat
      /\ Cardinality(Pointing(s)) \in Nat
      /\ Cardinality(Named(s)) = 0 <=> Named(s) = {}
      /\ Cardinality(Given(s)) = 0 <=> Given(s) = {}
      /\ Cardinality(Pointing(s)) = 0 <=> Pointing(s) = {}
  BY <1>2, FS_CardinalityType, FS_EmptySet
<1> DEFINE x == Cardinality(Named(s))
           y == Cardinality(Given(s))
           z == Cardinality(Pointing(s))
           total == Sinks!Owners(s)
           xAfter == Cardinality(Named(s)')
           yAfter == Cardinality(Given(s)')
           zAfter == Cardinality(Pointing(s)')
           totalAfter == Sinks!Owners(s)'
<1>5. /\ total = x + y + z /\ x \in Nat /\ y \in Nat /\ z \in Nat
      /\ (Named(s) # {} \/ Given(s) # {} \/ Pointing(s) # {}) <=> (x # 0 \/ y # 0 \/ z # 0)
  BY <1>1, <1>4
<1>6. totalAfter = xAfter + yAfter + zAfter /\ xAfter \in Nat /\ yAfter \in Nat /\ zAfter \in Nat
  BY <1>1, <1>3
<1> HIDE DEF x, y, z, total, xAfter, yAfter, zAfter, totalAfter
<1>7. total \in Nat /\ totalAfter \in Nat
  BY <1>5, <1>6
<1>8. total > 0 <=> Named(s) # {} \/ Given(s) # {} \/ Pointing(s) # {}
  BY <1>5
<1> QED
  BY <1>1, <1>4, <1>7, <1>8, Zenon DEF total, totalAfter

\* A name is given to another sink or to none.
LEMMA NamedChange ==
    ASSUME TeeTypes, NEW n \in Names, NEW v, named' = [named EXCEPT ![n] = v], NEW s
    PROVE  Cardinality(Named(s)') = Cardinality(Named(s)) - One(named[n], s) + One(v, s)
<1>1. Named(s) \ {n} = Named(s)' \ {n}
  BY DEF TeeTypes, Named
<1>2. (n \in Named(s) <=> named[n] = s) /\ (n \in Named(s)' <=> v = s)
  BY DEF TeeTypes, Named
<1>3. Cardinality(Named(s)') = Cardinality(Named(s)) - In(n, Named(s)) + In(n, Named(s)')
  BY <1>1, CountChange, OwnersFinite
<1> QED
  BY <1>2, <1>3 DEF One, In

\* A call gets or gives up its parameter.
LEMMA GivenChange ==
    ASSUME TeeTypes, NEW t \in Threads, NEW c, call' = [call EXCEPT ![t] = c], NEW s
    PROVE  Cardinality(Given(s)') = Cardinality(Given(s)) - One(call[t].parameter, s) + One(c.parameter, s)
<1>1. Given(s) \ {t} = Given(s)' \ {t}
  BY DEF TeeTypes, Given
<1>2. (t \in Given(s) <=> call[t].parameter = s) /\ (t \in Given(s)' <=> c.parameter = s)
  BY DEF TeeTypes, Given
<1>3. Cardinality(Given(s)') = Cardinality(Given(s)) - In(t, Given(s)) + In(t, Given(s)')
  BY <1>1, CountChange, OwnersFinite
<1> QED
  BY <1>2, <1>3 DEF One, In

\* The pointers that had one value and the pointers that have one, after an assignment.
Assigned(f, t, p, v) == [f EXCEPT ![t] = [f[t] EXCEPT ![p] = v]]
PointerValues == [Threads -> [Pointers -> SinkOrNone]]
PointingIn(f, s) == {tp \in Threads \X Pointers : f[tp[1]][tp[2]] = s}

\* A pointer is assigned.
LEMMA PointingChange ==
    ASSUME NEW f \in PointerValues, NEW t \in Threads, NEW p \in Pointers,
           NEW v \in SinkOrNone, NEW s
    PROVE  /\ Assigned(f, t, p, v) \in PointerValues
           /\ Cardinality(PointingIn(Assigned(f, t, p, v), s))
                = Cardinality(PointingIn(f, s)) - One(f[t][p], s) + One(v, s)
<1> DEFINE g == Assigned(f, t, p, v)
           before == PointingIn(f, s)
           after == PointingIn(g, s)
<1>1. g \in PointerValues
  BY DEF Assigned, PointerValues
<1>2. before \ {<<t, p>>} = after \ {<<t, p>>}
  BY DEF PointingIn, Assigned, PointerValues
<1>3. (<<t, p>> \in before <=> f[t][p] = s) /\ (<<t, p>> \in after <=> v = s)
  BY DEF PointingIn, Assigned, PointerValues
<1>4. IsFiniteSet(before) /\ IsFiniteSet(after)
  BY TeeAssumption, FS_Subset, FS_Product DEF PointingIn
<1> HIDE DEF before, after
<1>5. Cardinality(after) = Cardinality(before) - In(<<t, p>>, before) + In(<<t, p>>, after)
  BY <1>2, <1>4, CountChange
<1>6. Cardinality(after) = Cardinality(before) - One(f[t][p], s) + One(v, s)
  BY <1>3, <1>5 DEF One, In
<1> QED
  BY <1>1, <1>6 DEF before, after

\* Counts that follow the owners, of whom a sink that had none gets none.
CountsFollow(counts) ==
    /\ counts \in [1..MaxSinks -> Int]
    /\ \A s \in 1..MaxSinks :
          counts[s] = Sinks!Owners(s)' /\ (Sinks!Owners(s)' > 0 => Sinks!Owners(s) > 0)

\* Counters that follow the owners are right, and what nobody owns is gone.
LEMMA CountKeeps ==
    ASSUME TeeInv, NEW counts, CountsFollow(counts), Sinks!Count(counts)
    PROVE  /\ refs' \in [1..MaxSinks -> Int] /\ alive' \subseteq 1..MaxSinks
           /\ CountedRight'
<1>1. refs' = counts /\ alive' = {s \in alive : counts[s] > 0}
  BY DEF Sinks!Count
<1>2. \A s \in 1..MaxSinks : s \in alive <=> Sinks!Owners(s) > 0
  BY DEF TeeInv, CountedRight
<1> QED
  BY <1>1, <1>2 DEF CountsFollow, TeeInv, TeeTypes, CountedRight

\* addRef() and release() change the counter of one sink by one.
LEMMA AddedAndReleased ==
    ASSUME NEW counts \in [1..MaxSinks -> Int], NEW v \in (1..MaxSinks) \union {None}
    PROVE  /\ Sinks!AddRef(counts, v) \in [1..MaxSinks -> Int]
           /\ Sinks!Release(counts, v) \in [1..MaxSinks -> Int]
           /\ \A s \in 1..MaxSinks : Sinks!AddRef(counts, v)[s] = counts[s] + One(v, s)
           /\ \A s \in 1..MaxSinks : Sinks!Release(counts, v)[s] = counts[s] - One(v, s)
<1>1. CASE v = None
  BY <1>1, NoneAssumption DEF Sinks!AddRef, Sinks!Release, One
<1>2. CASE v \in 1..MaxSinks
  BY <1>2, NoneAssumption DEF Sinks!AddRef, Sinks!Release, One
<1> QED
  BY <1>1, <1>2

\* A sink that a pointer, a name or a call has.
LEMMA HasOwner ==
    ASSUME TeeTypes, NEW s
    PROVE  /\ \A t \in Threads, p \in Pointers : pointer[t][p] = s => Sinks!Owners(s) > 0
           /\ \A n \in Names : named[n] = s => Sinks!Owners(s) > 0
           /\ \A t \in Threads : call[t].parameter = s => Sinks!Owners(s) > 0
<1>1. ASSUME NEW t \in Threads, NEW p \in Pointers, pointer[t][p] = s
      PROVE  <<t, p>> \in Pointing(s)
  BY <1>1 DEF Pointing
<1>2. ASSUME NEW n \in Names, named[n] = s PROVE n \in Named(s)
  BY <1>2 DEF Named
<1>3. ASSUME NEW t \in Threads, call[t].parameter = s PROVE t \in Given(s)
  BY <1>3 DEF Given
<1> QED
  BY <1>1, <1>2, <1>3, OwnersSum

-----------------------------------------------------------------------------
\* Sinks that are not made stay without owners.
LEMMA NotMadeKeeps ==
    ASSUME TeeInv, NEW counts, CountsFollow(counts), UNCHANGED made
    PROVE  NotYetMade'
<1> SUFFICES ASSUME NEW s \in 1..MaxSinks, s > made PROVE Sinks!Owners(s)' = 0
  BY DEF NotYetMade
<1>1. ~(Sinks!Owners(s) > 0)
  BY DEF TeeInv, NotYetMade
<1>2. ~(Sinks!Owners(s)' > 0)
  BY <1>1 DEF CountsFollow
<1>3. Sinks!Owners(s)' \in Nat
  BY OwnersSum
<1> QED
  BY <1>2, <1>3

\* Pointers: the tee and its calls are not involved.
LEMMA PointerKeeps ==
    ASSUME TeeInv, NEW counts, Sinks!Count(counts), CountsFollow(counts),
           UNCHANGED <<named, made, call>>, pointer' \in PointerValues
    PROVE  TeeInv'
<1>1. TeeTypes'
  BY CountKeeps DEF TeeInv, TeeTypes, TeeCalls, PointerValues
<1>2. LockIsKept' /\ UsedInside' /\ UsedIsNamed'
  BY DEF TeeInv, LockIsKept, UsedInside, UsedIsNamed
<1> QED
  BY <1>1, <1>2, CountKeeps, NotMadeKeeps DEF TeeInv

\* One pointer is assigned to, and the counts are those of the new and the old sink.
LEMMA AssignFollows ==
    ASSUME TeeInv, NEW t \in Threads, NEW p \in Pointers, NEW v \in SinkOrNone,
           pointer' = Assigned(pointer, t, p, v), UNCHANGED named,
           \A s \in 1..MaxSinks : Given(s)' = Given(s),
           \A s \in 1..MaxSinks : v = s => Sinks!Owners(s) > 0
    PROVE  /\ pointer' \in PointerValues
           /\ CountsFollow(Sinks!Release(Sinks!AddRef(refs, v), pointer[t][p]))
<1> DEFINE w == pointer[t][p]
           counts == Sinks!Release(Sinks!AddRef(refs, v), w)
<1>1. pointer \in PointerValues /\ w \in SinkOrNone
  BY DEF TeeInv, TeeTypes, PointerValues
<1>2. pointer' \in PointerValues
  BY <1>1, PointingChange
<1>4. /\ counts \in [1..MaxSinks -> Int]
      /\ \A s \in 1..MaxSinks : counts[s] = refs[s] + One(v, s) - One(w, s)
  <2>1. refs \in [1..MaxSinks -> Int] /\ v \in 1..MaxSinks \union {None} /\ w \in 1..MaxSinks \union {None}
    BY <1>1 DEF TeeInv, TeeTypes, SinkOrNone
  <2> DEFINE added == Sinks!AddRef(refs, v)
  <2>2. added \in [1..MaxSinks -> Int] /\ \A s \in 1..MaxSinks : added[s] = refs[s] + One(v, s)
    BY <2>1, AddedAndReleased
  <2> HIDE DEF added, w
  <2>3. /\ Sinks!Release(added, w) \in [1..MaxSinks -> Int]
        /\ \A s \in 1..MaxSinks : Sinks!Release(added, w)[s] = added[s] - One(w, s)
    BY <2>1, <2>2, AddedAndReleased
  <2>4. counts = Sinks!Release(added, w)
    BY DEF added
  <2> HIDE DEF counts
  <2>5. \A s \in 1..MaxSinks : One(v, s) \in Int /\ One(w, s) \in Int /\ refs[s] \in Int
    BY <2>1 DEF One
  <2> QED
    BY <2>2, <2>3, <2>4, <2>5
<1> HIDE DEF w, counts
<1>5. ASSUME NEW s \in 1..MaxSinks
      PROVE  counts[s] = Sinks!Owners(s)' /\ (Sinks!Owners(s)' > 0 => Sinks!Owners(s) > 0)
  <2>1. Cardinality(Pointing(s)') = Cardinality(Pointing(s)) - One(w, s) + One(v, s)
    <3>1. Pointing(s) = PointingIn(pointer, s) /\ Pointing(s)' = PointingIn(Assigned(pointer, t, p, v), s)
      BY DEF Pointing, PointingIn
    <3>2. Cardinality(PointingIn(Assigned(pointer, t, p, v), s))
            = Cardinality(PointingIn(pointer, s)) - One(pointer[t][p], s) + One(v, s)
      BY <1>1, PointingChange
    <3> QED
      BY <3>1, <3>2, Zenon DEF w
  <2>2. Named(s)' = Named(s) /\ Given(s)' = Given(s)
    BY DEF Named
  <2>3. /\ Sinks!Owners(s) = Cardinality(Named(s)) + Cardinality(Given(s)) + Cardinality(Pointing(s))
        /\ Sinks!Owners(s)' = Cardinality(Named(s)) + Cardinality(Given(s)) + Cardinality(Pointing(s)')
        /\ Cardinality(Named(s)) \in Nat /\ Cardinality(Given(s)) \in Nat /\ Cardinality(Pointing(s)) \in Nat
    BY <2>2, OwnersSum, Zenon
  <2>4. One(w, s) \in {0, 1} /\ One(v, s) \in {0, 1} /\ (One(v, s) = 1 <=> v = s)
    BY DEF One
  <2>5. refs[s] = Sinks!Owners(s)
    BY DEF TeeInv, CountedRight
  <2>6. Sinks!Owners(s)' = Sinks!Owners(s) - One(w, s) + One(v, s)
    BY <2>1, <2>3, <2>4
  <2>7. Sinks!Owners(s) \in Nat
    BY <2>3
  <2>8. counts[s] = Sinks!Owners(s)'
    BY <1>4, <2>4, <2>5, <2>6, <2>7
  <2>9. Sinks!Owners(s)' > 0 => Sinks!Owners(s) > 0
    BY <2>4, <2>6, <2>7
  <2> QED
    BY <2>8, <2>9
<1> QED
  BY <1>2, <1>4, <1>5 DEF CountsFollow, counts, w

\* The copy of a pointer.
LEMMA CopyPointerKeeps ==
    ASSUME TeeInv, NEW t \in Threads, NEW p \in Pointers, NEW q \in Pointers, Sinks!CopyPointer(t, p, q)
    PROVE  TeeInv'
<1>1. /\ pointer' = [pointer EXCEPT ![t][p] = pointer[t][q]]
      /\ Sinks!Count(Sinks!Release(Sinks!AddRef(refs, pointer[t][q]), pointer[t][p]))
      /\ UNCHANGED <<named, made, call>>
  BY DEF Sinks!CopyPointer, Sinks!Assign
<1>2. pointer' = Assigned(pointer, t, p, pointer[t][q]) /\ pointer[t][q] \in SinkOrNone
  BY <1>1 DEF Assigned, TeeInv, TeeTypes
<1>3. /\ \A s \in 1..MaxSinks : Given(s)' = Given(s)
      /\ \A s \in 1..MaxSinks : pointer[t][q] = s => Sinks!Owners(s) > 0
  BY <1>1, HasOwner DEF Given, TeeInv
<1>4. /\ pointer' \in PointerValues
      /\ CountsFollow(Sinks!Release(Sinks!AddRef(refs, pointer[t][q]), pointer[t][p]))
  BY <1>1, <1>2, <1>3, AssignFollows
<1> QED
  BY <1>1, <1>4, PointerKeeps

\* A pointer is reset.
LEMMA ResetKeeps ==
    ASSUME TeeInv, NEW t \in Threads, NEW p \in Pointers, Sinks!Reset(t, p)
    PROVE  TeeInv'
<1>1. /\ pointer' = [pointer EXCEPT ![t][p] = None]
      /\ Sinks!Count(Sinks!Release(refs, pointer[t][p]))
      /\ UNCHANGED <<named, made, call>>
  BY DEF Sinks!Reset, Sinks!Assign
<1>2. pointer' = Assigned(pointer, t, p, None) /\ None \in SinkOrNone
  BY <1>1 DEF Assigned, SinkOrNone
<1>3. /\ \A s \in 1..MaxSinks : Given(s)' = Given(s)
      /\ \A s \in 1..MaxSinks : None # s
  BY <1>1, NoneAssumption DEF Given
<1>4. Sinks!AddRef(refs, None) = refs
  BY DEF Sinks!AddRef
<1>5. pointer' \in PointerValues /\ CountsFollow(Sinks!Release(Sinks!AddRef(refs, None), pointer[t][p]))
  BY <1>1, <1>2, <1>3, AssignFollows
<1> QED
  BY <1>1, <1>4, <1>5, PointerKeeps

\* A pointer is moved: one owner takes the place of another.
LEMMA MovePointerKeeps ==
    ASSUME TeeInv, NEW t \in Threads, NEW p \in Pointers, NEW q \in Pointers, Sinks!MovePointer(t, p, q)
    PROVE  TeeInv'
<1> DEFINE v == pointer[t][q]
           w == pointer[t][p]
           half == Assigned(pointer, t, p, v)
           counts == Sinks!Release(refs, w)
<1>1. /\ w # v /\ pointer' = [pointer EXCEPT ![t][p] = v, ![t][q] = None]
      /\ Sinks!Count(counts) /\ UNCHANGED <<named, made, call>>
  BY DEF Sinks!MovePointer
<1>2. /\ pointer \in PointerValues /\ v \in SinkOrNone /\ w \in SinkOrNone /\ None \in SinkOrNone
      /\ refs \in [1..MaxSinks -> Int]
  BY DEF TeeInv, TeeTypes, PointerValues, SinkOrNone
<1>3. half \in PointerValues
  BY <1>2, PointingChange
<1>4. half[t][q] = v /\ pointer' = Assigned(half, t, q, None)
  BY <1>1, <1>2 DEF Assigned, PointerValues
<1>5. pointer' \in PointerValues
  BY <1>2, <1>3, <1>4, PointingChange
<1>6. counts \in [1..MaxSinks -> Int] /\ \A s \in 1..MaxSinks : counts[s] = refs[s] - One(w, s)
  BY <1>2, AddedAndReleased DEF SinkOrNone
<1> HIDE DEF v, w, half, counts
<1>7. ASSUME NEW s \in 1..MaxSinks
      PROVE  counts[s] = Sinks!Owners(s)' /\ (Sinks!Owners(s)' > 0 => Sinks!Owners(s) > 0)
  <2>1. Cardinality(PointingIn(half, s)) = Cardinality(PointingIn(pointer, s)) - One(w, s) + One(v, s)
    BY <1>2, PointingChange DEF half, w
  <2>2. Cardinality(PointingIn(pointer', s)) = Cardinality(PointingIn(half, s)) - One(v, s) + One(None, s)
    BY <1>2, <1>3, <1>4, PointingChange
  <2>3. Pointing(s) = PointingIn(pointer, s) /\ Pointing(s)' = PointingIn(pointer', s)
    BY DEF Pointing, PointingIn
  <2>4. One(w, s) \in {0, 1} /\ One(v, s) \in {0, 1} /\ One(None, s) = 0
    BY NoneAssumption DEF One
  <2>5. Cardinality(Pointing(s)) \in Nat
    BY OwnersSum
  <2>6. Cardinality(Pointing(s)') = Cardinality(Pointing(s)) - One(w, s)
    BY <2>1, <2>2, <2>3, <2>4, <2>5
  <2>7. Named(s)' = Named(s) /\ Given(s)' = Given(s)
    BY <1>1 DEF Named, Given
  <2>8. /\ Sinks!Owners(s) = Cardinality(Named(s)) + Cardinality(Given(s)) + Cardinality(Pointing(s))
        /\ Sinks!Owners(s)' = Cardinality(Named(s)) + Cardinality(Given(s)) + Cardinality(Pointing(s)')
        /\ Cardinality(Named(s)) \in Nat /\ Cardinality(Given(s)) \in Nat
    BY <2>7, OwnersSum, Zenon
  <2>9. refs[s] = Sinks!Owners(s)
    BY DEF TeeInv, CountedRight
  <2> QED
    BY <1>6, <2>4, <2>5, <2>6, <2>8, <2>9
<1>8. CountsFollow(counts)
  BY <1>6, <1>7 DEF CountsFollow
<1> QED
  BY <1>1, <1>5, <1>8, PointerKeeps

\* A sink is made, with one owner.
LEMMA MakeSinkKeeps ==
    ASSUME TeeInv, NEW t \in Threads, NEW p \in Pointers, Sinks!MakeSink(t, p)
    PROVE  TeeInv'
<1> DEFINE new == made + 1
<1>1. /\ made < MaxSinks /\ pointer[t][p] = None /\ made' = new
      /\ refs' = [refs EXCEPT ![new] = 1] /\ alive' = alive \union {new}
      /\ pointer' = [pointer EXCEPT ![t][p] = new]
      /\ UNCHANGED <<named, call>>
  BY DEF Sinks!MakeSink
<1>2. new \in 1..MaxSinks /\ made \in Nat
  BY <1>1, TeeAssumption DEF TeeInv, TeeTypes
<1>3. pointer' = Assigned(pointer, t, p, new) /\ pointer \in PointerValues /\ new \in SinkOrNone
  BY <1>1, <1>2 DEF Assigned, PointerValues, TeeInv, TeeTypes, SinkOrNone
<1>4. pointer' \in PointerValues
  BY <1>3, PointingChange
<1>5. ASSUME NEW s \in 1..MaxSinks PROVE Sinks!Owners(s)' = Sinks!Owners(s) + One(new, s)
  <2>1. Cardinality(PointingIn(pointer', s)) = Cardinality(PointingIn(pointer, s)) - One(None, s) + One(new, s)
    <3>1. Cardinality(PointingIn(Assigned(pointer, t, p, new), s))
            = Cardinality(PointingIn(pointer, s)) - One(pointer[t][p], s) + One(new, s)
      BY <1>3, PointingChange
    <3> QED
      BY <1>1, <1>3, <3>1, Zenon
  <2>2. Pointing(s) = PointingIn(pointer, s) /\ Pointing(s)' = PointingIn(pointer', s)
    BY DEF Pointing, PointingIn
  <2>3. One(new, s) \in {0, 1} /\ One(None, s) = 0
    BY NoneAssumption DEF One
  <2>4. Cardinality(Pointing(s)) \in Nat
    BY OwnersSum
  <2>5. Named(s)' = Named(s) /\ Given(s)' = Given(s)
    BY <1>1 DEF Named, Given
  <2>6. /\ Sinks!Owners(s) = Cardinality(Named(s)) + Cardinality(Given(s)) + Cardinality(Pointing(s))
        /\ Sinks!Owners(s)' = Cardinality(Named(s)) + Cardinality(Given(s)) + Cardinality(Pointing(s)')
        /\ Cardinality(Named(s)) \in Nat /\ Cardinality(Given(s)) \in Nat
    BY <2>5, OwnersSum, Zenon
  <2> QED
    BY <2>1, <2>2, <2>3, <2>4, <2>6
<1>6. Sinks!Owners(new) = 0
  BY <1>2 DEF TeeInv, NotYetMade
<1>7. CountedRight'
  <2> SUFFICES ASSUME NEW s \in 1..MaxSinks
               PROVE  refs'[s] = Sinks!Owners(s)' /\ (s \in alive' <=> Sinks!Owners(s)' > 0)
    BY DEF CountedRight
  <2>1. refs[s] = Sinks!Owners(s) /\ (s \in alive <=> Sinks!Owners(s) > 0) /\ Sinks!Owners(s) \in Nat
    BY OwnersSum DEF TeeInv, CountedRight
  <2>2. CASE s = new
    BY <1>1, <1>2, <1>5, <1>6, <2>2 DEF One, TeeInv, TeeTypes
  <2>3. CASE s # new
    <3>1. Sinks!Owners(s)' = Sinks!Owners(s)
      BY <1>5, <2>1, <2>3 DEF One
    <3> QED
      BY <1>1, <2>1, <2>3, <3>1 DEF TeeInv, TeeTypes
  <2> QED
    BY <2>2, <2>3
<1>8. NotYetMade'
  <2> SUFFICES ASSUME NEW s \in 1..MaxSinks, s > new PROVE Sinks!Owners(s)' = 0
    BY <1>1 DEF NotYetMade
  <2>1. Sinks!Owners(s) = 0 /\ s # new
    BY <1>2 DEF TeeInv, NotYetMade
  <2> QED
    BY <1>5, <2>1 DEF One
<1>9. TeeTypes'
  BY <1>1, <1>2, <1>4 DEF TeeInv, TeeTypes, TeeCalls, PointerValues
<1>10. LockIsKept' /\ UsedInside' /\ UsedIsNamed'
  BY <1>1 DEF TeeInv, LockIsKept, UsedInside, UsedIsNamed
<1> QED
  BY <1>7, <1>8, <1>9, <1>10 DEF TeeInv

-----------------------------------------------------------------------------
\* The next state of a call may be this one.
MayBe(t, c) ==
    /\ c \in TeeCalls
    /\ c.kind \in {"add", "remove", "find"} => c.name \in Names
    /\ c.kind \in Inside =>
          \A u \in Threads \ {t} :
              call[u].kind \in Inside => c.kind \in Sinks!Sharing /\ call[u].kind \in Sinks!Sharing
    /\ c.at # None => c.kind \in {"write", "flush", "found"}
    /\ c.kind \notin {"add", "leaving", "aborted"} => c.parameter = None

\* A call goes on: the lock still excludes, and it is inside when it uses a sink.
LEMMA CallKeeps ==
    ASSUME TeeInv, NEW t \in Threads, NEW c, MayBe(t, c), Sinks!Update(t, c)
    PROVE  /\ call' \in [Threads -> TeeCalls]
           /\ \A u \in Threads : call'[u].kind \in {"add", "remove", "find"} => call'[u].name \in Names
           /\ LockIsKept' /\ UsedInside'
<1>1. call \in [Threads -> TeeCalls] /\ call' = [call EXCEPT ![t] = c]
  BY DEF TeeInv, TeeTypes, Sinks!Update
<1>2. call'[t] = c /\ \A u \in Threads \ {t} : call'[u] = call[u]
  BY <1>1
<1>3. call' \in [Threads -> TeeCalls]
  BY <1>1 DEF MayBe
<1>4. \A u \in Threads : call'[u].kind \in {"add", "remove", "find"} => call'[u].name \in Names
  BY <1>2 DEF MayBe, TeeInv, TeeTypes
<1>5. LockIsKept'
  <2>1. Sinks!Sharing' = Sinks!Sharing
    BY DEF Sinks!Sharing
  <2> SUFFICES ASSUME NEW u \in Threads, NEW w \in Threads, u # w,
                      call'[u].kind \in Inside, call'[w].kind \in Inside
               PROVE  call'[u].kind \in Sinks!Sharing /\ call'[w].kind \in Sinks!Sharing
    BY <2>1 DEF LockIsKept
  <2>2. CASE u # t /\ w # t
    BY <1>2, <2>2 DEF TeeInv, LockIsKept
  <2>3. CASE u = t
    BY <1>2, <2>3 DEF MayBe
  <2>4. CASE w = t
    BY <1>2, <2>4 DEF MayBe
  <2> QED
    BY <2>2, <2>3, <2>4
<1>6. UsedInside'
  BY <1>2 DEF MayBe, TeeInv, UsedInside
<1> QED
  BY <1>3, <1>4, <1>5, <1>6

\* A call goes on: no owner comes or goes.
LEMMA QuietKeeps ==
    ASSUME TeeInv, NEW t \in Threads, NEW c, MayBe(t, c), Sinks!Update(t, c),
           c.parameter = call[t].parameter, UNCHANGED <<named, refs, alive, made, pointer>>,
           c.at # None => \E n \in Names : named[n] = c.at
    PROVE  TeeInv'
<1>1. call \in [Threads -> TeeCalls] /\ call' = [call EXCEPT ![t] = c]
  BY DEF TeeInv, TeeTypes, Sinks!Update
<1>2. \A s : Sinks!Owners(s)' = Sinks!Owners(s)
  <2>1. \A u \in Threads : call'[u].parameter = call[u].parameter
    BY <1>1
  <2> QED
    BY <2>1 DEF Sinks!Owners
<1>3. CountedRight' /\ NotYetMade'
  BY <1>2 DEF TeeInv, CountedRight, NotYetMade
<1>4. TeeTypes'
  BY CallKeeps DEF TeeInv, TeeTypes
<1>5. UsedIsNamed'
  BY <1>1 DEF TeeInv, UsedIsNamed
<1> QED
  BY <1>3, <1>4, <1>5, CallKeeps DEF TeeInv

\* Owners come or go, and are counted.
LEMMA CountedKeeps ==
    ASSUME TeeInv, NEW t \in Threads, NEW c, MayBe(t, c), Sinks!Update(t, c),
           NEW counts, Sinks!Count(counts), CountsFollow(counts),
           named' \in [Names -> SinkOrNone], pointer' \in PointerValues, UNCHANGED made, UsedIsNamed'
    PROVE  TeeInv'
<1>1. TeeTypes'
  BY CallKeeps, CountKeeps DEF TeeInv, TeeTypes, PointerValues
<1> QED
  BY <1>1, CallKeeps, CountKeeps, NotMadeKeeps DEF TeeInv

\* write(), flush() and findSink() under the lock.
LEMMA VisitsKeep ==
    ASSUME TeeInv, NEW t \in Threads,
           Sinks!Visit(t) \/ Sinks!Written(t) \/ Sinks!Flushed(t) \/ Sinks!EndVisits(t) \/ Sinks!FindSink(t)
    PROVE  TeeInv'
<1>1. /\ call[t] \in TeeCalls
      /\ call[t].at # None => call[t].kind \in {"write", "flush", "found"}
      /\ call[t].kind \notin {"add", "leaving", "aborted"} => call[t].parameter = None
      /\ call[t].kind \in Inside =>
            \A u \in Threads \ {t} :
                call[u].kind \in Inside => call[t].kind \in Sinks!Sharing /\ call[u].kind \in Sinks!Sharing
      /\ \A n \in Names : named[n] \in SinkOrNone
  BY DEF TeeInv, TeeTypes, UsedInside, LockIsKept
<1>2. CASE Sinks!Visit(t)
  <2>1. PICK n \in call[t].left : Sinks!Update(t, [call[t] EXCEPT !.left = @ \ {n}, !.at = named[n]])
    BY <1>2 DEF Sinks!Visit
  <2> DEFINE c == [call[t] EXCEPT !.left = call[t].left \ {n}, !.at = named[n]]
  <2>2. n \in Names /\ call[t].kind \in Sinks!Sharing
    BY <1>1, <1>2, <2>1 DEF TeeCalls, Sinks!Visit, Sinks!InCall
  <2>3. c \in TeeCalls /\ c.kind = call[t].kind /\ c.parameter = call[t].parameter /\ c.at = named[n]
    BY <1>1, <2>2 DEF TeeCalls
  <2>4. MayBe(t, c)
    BY <1>1, <2>2, <2>3 DEF MayBe, Sinks!Sharing, Inside
  <2> HIDE DEF c
  <2>5. Sinks!Update(t, c)
    BY <2>1 DEF c
  <2>6. UNCHANGED <<named, refs, alive, made, pointer>>
    BY <1>2 DEF Sinks!Visit
  <2> QED
    BY <2>2, <2>3, <2>4, <2>5, <2>6, QuietKeeps
<1>3. CASE Sinks!Written(t) \/ Sinks!Flushed(t)
  <2>1. PICK left \in {call[t].left, {}} : Sinks!Update(t, [call[t] EXCEPT !.at = None, !.left = left])
    <3>1. CASE Sinks!Written(t)
      <4>1. [call[t] EXCEPT !.at = None] = [call[t] EXCEPT !.at = None, !.left = call[t].left]
        BY <1>1 DEF TeeCalls
      <4> QED
        BY <3>1, <4>1 DEF Sinks!Written
    <3>2. CASE Sinks!Flushed(t)
      BY <3>2 DEF Sinks!Flushed
    <3> QED
      BY <1>3, <3>1, <3>2
  <2> DEFINE c == [call[t] EXCEPT !.at = None, !.left = left]
  <2>2. call[t].kind \in Sinks!Sharing
    BY <1>3 DEF Sinks!Written, Sinks!Flushed, Sinks!InCall, Sinks!Sharing
  <2>3. c \in TeeCalls /\ c.kind = call[t].kind /\ c.parameter = call[t].parameter /\ c.at = None
    BY <1>1, <2>1 DEF TeeCalls, SinkOrNone
  <2>4. MayBe(t, c)
    BY <1>1, <2>2, <2>3 DEF MayBe, Sinks!Sharing, Inside
  <2> HIDE DEF c
  <2>5. Sinks!Update(t, c)
    BY <2>1 DEF c
  <2>6. UNCHANGED <<named, refs, alive, made, pointer>>
    BY <1>3 DEF Sinks!Written, Sinks!Flushed
  <2> QED
    BY <2>3, <2>4, <2>5, <2>6, QuietKeeps
<1>4. CASE Sinks!EndVisits(t)
  <2>1. Sinks!Idle \in TeeCalls /\ Sinks!Idle.kind = "none" /\ Sinks!Idle.parameter = None /\ Sinks!Idle.at = None
    BY DEF Sinks!Idle, Sinks!Calling, TeeCalls, Outside, SinkOrNone
  <2>2. MayBe(t, Sinks!Idle)
    BY <2>1 DEF MayBe, Inside
  <2>3. call[t].parameter = None
    BY <1>1, <1>4 DEF Sinks!EndVisits, Sinks!InCall, Sinks!Sharing
  <2>4. Sinks!Update(t, Sinks!Idle) /\ UNCHANGED <<named, refs, alive, made, pointer>>
    BY <1>4 DEF Sinks!EndVisits
  <2> QED
    BY <2>1, <2>2, <2>3, <2>4, QuietKeeps
<1>5. CASE Sinks!FindSink(t)
  <2> DEFINE n == call[t].name
             c == [call[t] EXCEPT !.kind = "found", !.at = named[n]]
  <2>1. call[t].kind = "find" /\ n \in Names /\ Sinks!Update(t, c)
        /\ UNCHANGED <<named, refs, alive, made, pointer>>
    BY <1>5 DEF Sinks!FindSink, Sinks!InCall, TeeInv, TeeTypes
  <2>2. c \in TeeCalls /\ c.kind = "found" /\ c.parameter = call[t].parameter /\ c.at = named[n]
    BY <1>1, <2>1 DEF TeeCalls, Inside
  <2>3. MayBe(t, c)
    BY <1>1, <2>1, <2>2 DEF MayBe, Sinks!Sharing, Inside
  <2> HIDE DEF c, n
  <2> QED
    BY <2>1, <2>2, <2>3, QuietKeeps
<1> QED
  BY <1>2, <1>3, <1>4, <1>5

\* The owners among the calls, before and after, and the counts, when one call changes.
LEMMA GivenFollows ==
    ASSUME TeeInv, NEW t \in Threads, NEW c \in TeeCalls, Sinks!Update(t, c), UNCHANGED <<named, pointer>>,
           NEW counts \in [1..MaxSinks -> Int],
           \A s \in 1..MaxSinks : counts[s] = refs[s] - One(call[t].parameter, s) + One(c.parameter, s),
           \A s \in 1..MaxSinks : c.parameter = s => Sinks!Owners(s) > 0
    PROVE  CountsFollow(counts)
<1> SUFFICES ASSUME NEW s \in 1..MaxSinks
             PROVE  counts[s] = Sinks!Owners(s)' /\ (Sinks!Owners(s)' > 0 => Sinks!Owners(s) > 0)
  BY DEF CountsFollow
<1> DEFINE gone == One(call[t].parameter, s)
           come == One(c.parameter, s)
           x == Cardinality(Named(s))
           y == Cardinality(Given(s))
           z == Cardinality(Pointing(s))
           yAfter == Cardinality(Given(s)')
           total == Sinks!Owners(s)
           totalAfter == Sinks!Owners(s)'
<1>1. yAfter = y - gone + come
  BY GivenChange DEF Sinks!Update, TeeInv
<1>2. Named(s)' = Named(s) /\ Pointing(s)' = Pointing(s)
  BY DEF Named, Pointing
<1>3. /\ total = x + y + z /\ totalAfter = x + yAfter + z
      /\ x \in Nat /\ y \in Nat /\ z \in Nat
  BY <1>2, OwnersSum, Zenon
<1>4. gone \in {0, 1} /\ come \in {0, 1} /\ (come = 1 <=> c.parameter = s)
  BY DEF One
<1>5. refs[s] = total /\ counts[s] = refs[s] - gone + come /\ (c.parameter = s => total > 0)
  BY DEF TeeInv, CountedRight
<1> HIDE DEF gone, come, x, y, z, yAfter, total, totalAfter
<1>6. totalAfter = total - gone + come /\ total \in Nat
  BY <1>1, <1>3, <1>4
<1>7. counts[s] = totalAfter
  BY <1>4, <1>5, <1>6
<1>8. totalAfter > 0 => total > 0
  BY <1>4, <1>5, <1>6
<1> QED
  BY <1>7, <1>8 DEF total, totalAfter

\* A call begins when the lock allows it.
LEMMA EnterKeeps ==
    ASSUME TeeInv, NEW t \in Threads, NEW kind \in Inside \ {"found"}, NEW n \in Names \union {None},
           NEW sink \in SinkOrNone, NEW left \in SUBSET Names, Sinks!Enter(t, kind, n, sink, left),
           kind \in {"add", "remove", "find"} => n \in Names, kind # "add" => sink = None,
           sink # None => \E p \in Pointers : pointer[t][p] = sink
    PROVE  TeeInv'
<1> DEFINE c == Sinks!Calling(kind, n, sink, left)
           counts == Sinks!AddRef(refs, sink)
<1>1. /\ call[t].kind = "none" /\ Sinks!MayEnter(t, kind) /\ Sinks!Update(t, c) /\ Sinks!Count(counts)
      /\ UNCHANGED <<named, made, pointer>>
  BY DEF Sinks!Enter, Sinks!InCall
<1>2. c \in TeeCalls /\ c.kind = kind /\ c.name = n /\ c.parameter = sink /\ c.at = None
  BY DEF Sinks!Calling, TeeCalls, SinkOrNone
<1>3. MayBe(t, c)
  <2>1. ASSUME NEW u \in Threads \ {t}, call[u].kind \in Inside
        PROVE  kind \in Sinks!Sharing /\ call[u].kind \in Sinks!Sharing
    BY <1>1, <2>1 DEF Sinks!MayEnter, Sinks!InCall, Sinks!Sharing, Inside
  <2> QED
    BY <1>2, <2>1 DEF MayBe
<1>4. call[t].parameter = None
  BY <1>1 DEF TeeInv, UsedInside
<1>5. counts \in [1..MaxSinks -> Int] /\ \A s \in 1..MaxSinks : counts[s] = refs[s] + One(sink, s)
  BY AddedAndReleased DEF TeeInv, TeeTypes, SinkOrNone
<1> HIDE DEF c, counts
<1>6. \A s \in 1..MaxSinks : counts[s] = refs[s] - One(call[t].parameter, s) + One(c.parameter, s)
  <2>1. \A s \in 1..MaxSinks : One(call[t].parameter, s) = 0 /\ refs[s] \in Int /\ One(sink, s) \in Int
    BY <1>4, NoneAssumption DEF One, TeeInv, TeeTypes
  <2> QED
    BY <1>2, <1>5, <2>1
<1>7. \A s \in 1..MaxSinks : c.parameter = s => Sinks!Owners(s) > 0
  <2> SUFFICES ASSUME NEW s \in 1..MaxSinks, sink = s PROVE Sinks!Owners(s) > 0
    BY <1>2
  <2>1. \E p \in Pointers : pointer[t][p] = s
    BY NoneAssumption
  <2> QED
    BY <2>1, HasOwner DEF TeeInv
<1>8. CountsFollow(counts)
  BY <1>1, <1>2, <1>5, <1>6, <1>7, GivenFollows
<1>9. named' \in [Names -> SinkOrNone] /\ pointer' \in PointerValues
  BY <1>1 DEF TeeInv, TeeTypes, PointerValues
<1>10. UsedIsNamed'
  <2>1. \A u \in Threads : call'[u].at # None => call[u].at = call'[u].at
    BY <1>1, <1>2 DEF Sinks!Update, TeeInv, TeeTypes
  <2> QED
    BY <1>1, <2>1 DEF TeeInv, UsedIsNamed
<1> QED
  BY <1>1, <1>3, <1>8, <1>9, <1>10, CountedKeeps

\* A call returns and releases its parameter.
LEMMA LeaveKeeps ==
    ASSUME TeeInv, NEW t \in Threads, Sinks!Leave(t)
    PROVE  TeeInv'
<1> DEFINE c == Sinks!Idle
           v == call[t].parameter
           counts == Sinks!Release(refs, v)
<1>1. /\ Sinks!Update(t, c) /\ Sinks!Count(counts)
      /\ UNCHANGED <<named, made, pointer>>
  BY DEF Sinks!Leave
<1>2. c \in TeeCalls /\ c.kind = "none" /\ c.parameter = None /\ c.at = None
  BY DEF Sinks!Idle, Sinks!Calling, TeeCalls, Outside, SinkOrNone
<1>3. MayBe(t, c)
  BY <1>2 DEF MayBe, Inside
<1>4. v \in SinkOrNone /\ refs \in [1..MaxSinks -> Int]
  BY DEF TeeInv, TeeTypes, TeeCalls
<1>5. counts \in [1..MaxSinks -> Int] /\ \A s \in 1..MaxSinks : counts[s] = refs[s] - One(v, s)
  BY <1>4, AddedAndReleased DEF SinkOrNone
<1> HIDE DEF c, counts
<1>6. \A s \in 1..MaxSinks : counts[s] = refs[s] - One(call[t].parameter, s) + One(c.parameter, s)
  <2>1. \A s \in 1..MaxSinks : One(c.parameter, s) = 0 /\ refs[s] \in Int /\ One(v, s) \in Int
    BY <1>2, <1>4, NoneAssumption DEF One
  <2> QED
    BY <1>5, <2>1
<1>7. \A s \in 1..MaxSinks : c.parameter # s
  BY <1>2, NoneAssumption
<1>8. CountsFollow(counts)
  BY <1>1, <1>2, <1>5, <1>6, <1>7, GivenFollows
<1>9. named' \in [Names -> SinkOrNone] /\ pointer' \in PointerValues
  BY <1>1 DEF TeeInv, TeeTypes, PointerValues
<1>10. UsedIsNamed'
  <2>1. \A u \in Threads : call'[u].at # None => call[u].at = call'[u].at
    BY <1>1, <1>2 DEF Sinks!Update, TeeInv, TeeTypes
  <2> QED
    BY <1>1, <2>1 DEF TeeInv, UsedIsNamed
<1> QED
  BY <1>1, <1>3, <1>8, <1>9, <1>10, CountedKeeps

\* One name is given to another sink, or to none.
LEMMA NamedFollows ==
    ASSUME TeeInv, NEW n \in Names, NEW v \in SinkOrNone, named' = [named EXCEPT ![n] = v],
           UNCHANGED pointer, \A s \in 1..MaxSinks : Given(s)' = Given(s),
           NEW counts \in [1..MaxSinks -> Int],
           \A s \in 1..MaxSinks : counts[s] = refs[s] - One(named[n], s) + One(v, s),
           \A s \in 1..MaxSinks : v = s => Sinks!Owners(s) > 0
    PROVE  CountsFollow(counts) /\ named' \in [Names -> SinkOrNone]
<1>0. named' \in [Names -> SinkOrNone]
  BY DEF TeeInv, TeeTypes
<1> SUFFICES ASSUME NEW s \in 1..MaxSinks
             PROVE  counts[s] = Sinks!Owners(s)' /\ (Sinks!Owners(s)' > 0 => Sinks!Owners(s) > 0)
  BY <1>0 DEF CountsFollow
<1> DEFINE gone == One(named[n], s)
           come == One(v, s)
           x == Cardinality(Named(s))
           y == Cardinality(Given(s))
           z == Cardinality(Pointing(s))
           xAfter == Cardinality(Named(s)')
           total == Sinks!Owners(s)
           totalAfter == Sinks!Owners(s)'
<1>1. xAfter = x - gone + come
  BY NamedChange DEF TeeInv
<1>2. Given(s)' = Given(s) /\ Pointing(s)' = Pointing(s)
  BY DEF Pointing
<1>3. /\ total = x + y + z /\ totalAfter = xAfter + y + z
      /\ x \in Nat /\ y \in Nat /\ z \in Nat
  BY <1>2, OwnersSum, Zenon
<1>4. gone \in {0, 1} /\ come \in {0, 1} /\ (come = 1 <=> v = s)
  BY DEF One
<1>5. refs[s] = total /\ counts[s] = refs[s] - gone + come /\ (v = s => total > 0)
  BY DEF TeeInv, CountedRight
<1> HIDE DEF gone, come, x, y, z, xAfter, total, totalAfter
<1>6. totalAfter = total - gone + come /\ total \in Nat
  BY <1>1, <1>3, <1>4
<1>7. counts[s] = totalAfter
  BY <1>4, <1>5, <1>6
<1>8. totalAfter > 0 => total > 0
  BY <1>4, <1>5, <1>6
<1> QED
  BY <1>7, <1>8 DEF total, totalAfter

\* A call that is about to leave: what it was given is still its own.
LEMMA LeavingMayBe ==
    ASSUME TeeInv, NEW t \in Threads, Sinks!Leaving(t)
    PROVE  \E c : /\ Sinks!Update(t, c) /\ MayBe(t, c) /\ c \in TeeCalls
                  /\ c.at = None /\ c.parameter = call[t].parameter
                  /\ \A s \in 1..MaxSinks : Given(s)' = Given(s)
                  /\ \A u \in Threads : call'[u].at # None => u # t /\ call[u] = call'[u]
<1> DEFINE c == [call[t] EXCEPT !.kind = "leaving", !.at = None]
<1>1. Sinks!Update(t, c)
  BY DEF Sinks!Leaving
<1>2. call[t] \in TeeCalls /\ call \in [Threads -> TeeCalls]
  BY DEF TeeInv, TeeTypes
<1>3. c \in TeeCalls /\ c.kind = "leaving" /\ c.at = None /\ c.parameter = call[t].parameter
  BY <1>2 DEF TeeCalls, Outside, SinkOrNone
<1>4. MayBe(t, c)
  BY <1>3 DEF MayBe, Inside
<1> HIDE DEF c
<1>5. /\ \A u \in Threads : call'[u].parameter = call[u].parameter
      /\ \A u \in Threads : call'[u].at # None => u # t /\ call[u] = call'[u]
  BY <1>1, <1>2, <1>3 DEF Sinks!Update
<1>6. \A s \in 1..MaxSinks : Given(s)' = Given(s)
  BY <1>5 DEF Given
<1> QED
  BY <1>1, <1>3, <1>4, <1>5, <1>6

\* addSink(): the map takes over the parameter, or the process aborts.
LEMMA AddSinkKeeps ==
    ASSUME TeeInv, NEW t \in Threads, Sinks!AddSink(t)
    PROVE  TeeInv'
<1> DEFINE n == call[t].name
           v == call[t].parameter
           counts == Sinks!AddRef(refs, v)
<1>1. /\ call[t].kind = "add" /\ n \in Names /\ v \in SinkOrNone /\ call[t] \in TeeCalls
      /\ call[t].at = None
      /\ refs \in [1..MaxSinks -> Int] /\ pointer \in PointerValues
      /\ UNCHANGED <<made, pointer>>
  BY DEF Sinks!AddSink, Sinks!InCall, TeeInv, TeeTypes, TeeCalls, UsedInside, PointerValues
<1>2. CASE named[n] = None
  <2>1. named' = [named EXCEPT ![n] = v] /\ Sinks!Count(counts) /\ Sinks!Leaving(t)
    BY <1>2 DEF Sinks!AddSink
  <2>2. PICK c : /\ Sinks!Update(t, c) /\ MayBe(t, c)
                 /\ \A s \in 1..MaxSinks : Given(s)' = Given(s)
                 /\ \A u \in Threads : call'[u].at # None => u # t /\ call[u] = call'[u]
    BY <2>1, LeavingMayBe
  <2>3. counts \in [1..MaxSinks -> Int] /\ \A s \in 1..MaxSinks : counts[s] = refs[s] + One(v, s)
    BY <1>1, AddedAndReleased DEF SinkOrNone
  <2> HIDE DEF counts
  <2>4. \A s \in 1..MaxSinks : counts[s] = refs[s] - One(named[n], s) + One(v, s)
    <3>1. \A s \in 1..MaxSinks : One(named[n], s) = 0 /\ One(v, s) \in Int /\ refs[s] \in Int
      BY <1>1, <1>2, NoneAssumption DEF One
    <3> QED
      BY <2>3, <3>1
  <2>5. \A s \in 1..MaxSinks : v = s => Sinks!Owners(s) > 0
    BY HasOwner DEF TeeInv
  <2>6. CountsFollow(counts) /\ named' \in [Names -> SinkOrNone]
    BY <1>1, <2>1, <2>2, <2>3, <2>4, <2>5, NamedFollows
  <2>7. UsedIsNamed'
    <3> SUFFICES ASSUME NEW u \in Threads, call'[u].at # None
                 PROVE  \E m \in Names : named'[m] = call'[u].at
      BY DEF UsedIsNamed
    <3>1. PICK m \in Names : named[m] = call'[u].at
      BY <2>2 DEF TeeInv, UsedIsNamed
    <3> QED
      BY <1>2, <2>1, <3>1 DEF TeeInv, TeeTypes
  <2> QED
    BY <1>1, <2>1, <2>2, <2>6, <2>7, CountedKeeps
<1>3. CASE named[n] # None
  <2> DEFINE c == [call[t] EXCEPT !.kind = "aborted"]
  <2>1. Sinks!Update(t, c) /\ UNCHANGED <<named, refs, alive, made, pointer>>
    BY <1>3 DEF Sinks!AddSink
  <2>2. c \in TeeCalls /\ c.kind = "aborted" /\ c.parameter = call[t].parameter /\ c.at = None
    BY <1>1 DEF TeeCalls
  <2>3. MayBe(t, c)
    BY <2>2 DEF MayBe, Inside
  <2> HIDE DEF c
  <2> QED
    BY <2>1, <2>2, <2>3, QuietKeeps
<1> QED
  BY <1>2, <1>3

\* removeSink(): the map releases its sink.
LEMMA RemoveSinkKeeps ==
    ASSUME TeeInv, NEW t \in Threads, Sinks!RemoveSink(t)
    PROVE  TeeInv'
<1> DEFINE n == call[t].name
           w == named[n]
           counts == Sinks!Release(refs, w)
<1>1. /\ call[t].kind = "remove" /\ n \in Names
      /\ refs \in [1..MaxSinks -> Int] /\ pointer \in PointerValues
      /\ UNCHANGED <<made, pointer>>
  BY DEF Sinks!RemoveSink, Sinks!InCall, TeeInv, TeeTypes, PointerValues
<1>2. /\ named' = [named EXCEPT ![n] = None] /\ Sinks!Count(counts) /\ Sinks!Leaving(t)
      /\ w \in SinkOrNone
  BY <1>1 DEF Sinks!RemoveSink, TeeInv, TeeTypes
<1>3. PICK c : /\ Sinks!Update(t, c) /\ MayBe(t, c)
               /\ \A s \in 1..MaxSinks : Given(s)' = Given(s)
               /\ \A u \in Threads : call'[u].at # None => u # t /\ call[u] = call'[u]
  BY <1>2, LeavingMayBe
<1>4. counts \in [1..MaxSinks -> Int] /\ \A s \in 1..MaxSinks : counts[s] = refs[s] - One(w, s)
  BY <1>1, <1>2, AddedAndReleased DEF SinkOrNone
<1> HIDE DEF counts
<1>5. \A s \in 1..MaxSinks : counts[s] = refs[s] - One(w, s) + One(None, s)
  <2>1. \A s \in 1..MaxSinks : One(None, s) = 0 /\ One(w, s) \in Int /\ refs[s] \in Int
    BY <1>1, NoneAssumption DEF One
  <2> QED
    BY <1>4, <2>1
<1>6. (\A s \in 1..MaxSinks : None # s) /\ None \in SinkOrNone
  BY NoneAssumption DEF SinkOrNone
<1>7. CountsFollow(counts) /\ named' \in [Names -> SinkOrNone]
  BY <1>1, <1>2, <1>3, <1>4, <1>5, <1>6, NamedFollows
<1>8. UsedIsNamed'
  <2>1. ASSUME NEW u \in Threads, call'[u].at # None PROVE FALSE
    <3>1. u # t /\ call[u].kind \in Inside
      BY <1>3, <2>1 DEF TeeInv, UsedInside, Inside
    <3> QED
      BY <1>1, <3>1 DEF TeeInv, LockIsKept, Inside, Sinks!Sharing
  <2> QED
    BY <2>1 DEF UsedIsNamed
<1> QED
  BY <1>1, <1>2, <1>3, <1>7, <1>8, CountedKeeps

\* findSink() returns a pointer to what it has found.
LEMMA CopyFoundKeeps ==
    ASSUME TeeInv, NEW t \in Threads, NEW p \in Pointers, Sinks!CopyFound(t, p)
    PROVE  TeeInv'
<1> DEFINE v == call[t].at
           counts == Sinks!Release(Sinks!AddRef(refs, v), pointer[t][p])
<1>1. /\ pointer' = Assigned(pointer, t, p, v) /\ Sinks!Count(counts) /\ Sinks!Leaving(t)
      /\ UNCHANGED <<named, made>> /\ v \in SinkOrNone
  BY DEF Sinks!CopyFound, Sinks!Assign, Assigned, TeeInv, TeeTypes, TeeCalls
<1>2. PICK c : /\ Sinks!Update(t, c) /\ MayBe(t, c)
               /\ \A s \in 1..MaxSinks : Given(s)' = Given(s)
               /\ \A u \in Threads : call'[u].at # None => u # t /\ call[u] = call'[u]
  BY <1>1, LeavingMayBe
<1>3. ASSUME NEW s \in 1..MaxSinks, v = s PROVE Sinks!Owners(s) > 0
  <2>1. \E n \in Names : named[n] = s
    BY <1>3, NoneAssumption DEF TeeInv, UsedIsNamed
  <2> QED
    BY <2>1, HasOwner DEF TeeInv
<1>4. pointer' \in PointerValues /\ CountsFollow(counts)
  BY <1>1, <1>2, <1>3, AssignFollows
<1>5. UsedIsNamed' /\ named' \in [Names -> SinkOrNone]
  BY <1>1, <1>2 DEF TeeInv, TeeTypes, UsedIsNamed
<1> HIDE DEF counts
<1> QED
  BY <1>1, <1>2, <1>4, <1>5, CountedKeeps

\* ~Tee(): the map releases every sink.
LEMMA DestroyTeeKeeps ==
    ASSUME TeeInv, Sinks!Destroy
    PROVE  TeeInv'
<1> DEFINE counts == [s \in 1..MaxSinks |-> refs[s] - Cardinality(Named(s))]
<1>1. /\ \A t \in Threads : call[t].kind = "none"
      /\ named' = [n \in Names |-> None] /\ UNCHANGED <<made, pointer, call>>
  BY DEF Sinks!Destroy, Sinks!InCall
<1>2. Sinks!Count(counts)
  <2>1. [s \in Sinks!Sinks |-> refs[s] - Sinks!Cardinality({n \in Names : named[n] = s})] = counts
    BY SinksCardinality DEF Sinks!Sinks, Named
  <2> QED
    BY <2>1, Zenon DEF Sinks!Destroy
<1>3. ASSUME NEW s \in 1..MaxSinks
      PROVE  counts[s] \in Int /\ counts[s] = Sinks!Owners(s)' /\ (Sinks!Owners(s)' > 0 => Sinks!Owners(s) > 0)
  <2> DEFINE x == Cardinality(Named(s))
             y == Cardinality(Given(s))
             z == Cardinality(Pointing(s))
             total == Sinks!Owners(s)
             totalAfter == Sinks!Owners(s)'
  <2>1. Given(s)' = Given(s) /\ Pointing(s)' = Pointing(s) /\ Named(s)' = {}
    BY <1>1, NoneAssumption DEF Given, Pointing, Named
  <2>2. Cardinality(Named(s)') = 0
    BY <2>1, FS_EmptySet
  <2>3. total = x + y + z /\ totalAfter = 0 + y + z /\ x \in Nat /\ y \in Nat /\ z \in Nat
    BY <2>1, <2>2, OwnersSum, Zenon
  <2>4. refs[s] = total /\ counts[s] = refs[s] - x
    BY DEF TeeInv, CountedRight
  <2> HIDE DEF counts, x, y, z, total, totalAfter
  <2>5. counts[s] = totalAfter /\ counts[s] \in Int /\ (totalAfter > 0 => total > 0)
    BY <2>3, <2>4
  <2> QED
    BY <2>5 DEF total, totalAfter
<1>4. CountsFollow(counts)
  BY <1>3 DEF CountsFollow
<1> HIDE DEF counts
<1>5. CountedRight' /\ NotYetMade' /\ refs' \in [1..MaxSinks -> Int] /\ alive' \subseteq 1..MaxSinks
  BY <1>1, <1>2, <1>4, CountKeeps, NotMadeKeeps
<1>6. TeeTypes'
  BY <1>1, <1>5 DEF TeeInv, TeeTypes, TeeCalls, SinkOrNone
<1>7. LockIsKept' /\ UsedInside' /\ UsedIsNamed'
  BY <1>1 DEF TeeInv, LockIsKept, UsedInside, UsedIsNamed
<1> QED
  BY <1>5, <1>6, <1>7 DEF TeeInv

\* No sink is made at the start.
LEMMA TeeStart == LoggerInit => TeeInv
<1> SUFFICES ASSUME LoggerInit PROVE TeeInv
  OBVIOUS
<1>1. /\ named = [n \in Names |-> None] /\ refs = [s \in 1..MaxSinks |-> 0] /\ alive = {} /\ made = 0
      /\ pointer = [t \in Threads |-> [p \in Pointers |-> None]]
      /\ call = [t \in Threads |-> Sinks!Idle]
  BY DEF LoggerInit, Sinks!Init, Sinks!Sinks
<1>2. /\ Sinks!Idle \in TeeCalls /\ Sinks!Idle.kind = "none" /\ Sinks!Idle.parameter = None
      /\ Sinks!Idle.at = None
  BY DEF Sinks!Idle, Sinks!Calling, TeeCalls, Outside, SinkOrNone
<1>3. TeeTypes
  BY <1>1, <1>2, TeeAssumption DEF TeeTypes, SinkOrNone
<1>4. ASSUME NEW s \in 1..MaxSinks PROVE Sinks!Owners(s) = 0
  <2>1. Named(s) = {} /\ Given(s) = {} /\ Pointing(s) = {}
    BY <1>1, <1>2, NoneAssumption DEF Named, Given, Pointing
  <2>2. Sinks!Owners(s) \in Nat /\ ~(Sinks!Owners(s) > 0)
    BY <2>1, OwnersSum
  <2> QED
    BY <2>2
<1>5. CountedRight /\ NotYetMade
  BY <1>1, <1>4 DEF CountedRight, NotYetMade
<1>6. LockIsKept /\ UsedInside /\ UsedIsNamed
  BY <1>1, <1>2 DEF LockIsKept, UsedInside, UsedIsNamed, Inside
<1> QED
  BY <1>3, <1>5, <1>6 DEF TeeInv

\* The steps together, beside those of the other parts.
LEMMA TeeNext == TeeInv /\ [ChainStep \/ TeeStep \/ PlacesStep]_allVars => TeeInv'
<1> SUFFICES ASSUME TeeInv, [ChainStep \/ TeeStep \/ PlacesStep]_allVars PROVE TeeInv'
  OBVIOUS
<1>1. CASE UNCHANGED teeVars
  <2>1. \A s : Sinks!Owners(s)' = Sinks!Owners(s)
    BY <1>1 DEF teeVars, Sinks!Owners
  <2> QED
    BY <1>1, <2>1 DEF teeVars, TeeInv, TeeTypes, LockIsKept, UsedInside, CountedRight,
       UsedIsNamed, NotYetMade
<1>2. CASE Sinks!Next
  <2>1. CASE Sinks!Over
    BY <1>1, <2>1 DEF Sinks!Over, Sinks!vars, teeVars
  <2>2. CASE Sinks!Destroy
    BY <2>2, DestroyTeeKeeps
  <2>3. ASSUME NEW t \in Threads, Sinks!OfPointers(t) PROVE TeeInv'
    BY <2>3, MakeSinkKeeps, ResetKeeps, CopyPointerKeeps, MovePointerKeeps DEF Sinks!OfPointers
  <2>4. ASSUME NEW t \in Threads, Sinks!OfCalls(t) PROVE TeeInv'
    <3>1. ASSUME NEW kind \in Sinks!Sharing, Sinks!BeginVisits(t, kind) PROVE TeeInv'
      BY <3>1, EnterKeeps DEF Sinks!BeginVisits, Sinks!Sharing, Inside, SinkOrNone
    <3>2. ASSUME NEW n \in Names, NEW p \in Pointers, Sinks!Enter(t, "add", n, pointer[t][p], {})
          PROVE  TeeInv'
      <4>1. pointer[t][p] \in SinkOrNone
        BY DEF TeeInv, TeeTypes
      <4> QED
        BY <3>2, <4>1, EnterKeeps DEF Inside
    <3>3. ASSUME NEW n \in Names, NEW kind \in {"remove", "find"}, Sinks!Enter(t, kind, n, None, {})
          PROVE  TeeInv'
      <4>1. kind \in Inside \ {"found"} /\ None \in SinkOrNone /\ kind # "add" /\ {} \in SUBSET Names
        BY DEF Inside, SinkOrNone
      <4>2. n \in Names \union {None}
        OBVIOUS
      <4> QED
        BY <3>3, <4>1, <4>2, EnterKeeps
    <3>4. ASSUME NEW p \in Pointers, Sinks!CopyFound(t, p) PROVE TeeInv'
      BY <3>4, CopyFoundKeeps
    <3> QED
      BY <2>4, <3>1, <3>2, <3>3, <3>4, VisitsKeep, LeaveKeeps, AddSinkKeeps,
         RemoveSinkKeeps DEF Sinks!OfCalls
  <2> QED
    BY <1>2, <2>1, <2>2, <2>3, <2>4 DEF Sinks!Next
<1> QED
  BY <1>1, <1>2 DEF ChainStep, TeeStep, PlacesStep, allVars, teeVars

\* A sink lives for exactly as long as the tee, a pointer or a call has it, and the one
\* that write(), flush() or findSink() of tee.cxx uses is still one of the tee's.
THEOREM SinksStayLive == LoggerSpec => []SinksLiveWhileUsed
<1>1. TeeInv => SinksLiveWhileUsed
  BY DEF TeeInv, CountedRight, UsedIsNamed, SinksLiveWhileUsed, Sinks!SinksLiveWhileUsed,
     Sinks!Sinks
<1> QED
  BY <1>1, TeeStart, TeeNext, PTL DEF LoggerSpec

-----------------------------------------------------------------------------
\* A set of natural numbers that is not empty has a least one.
LEMMA Least ==
    ASSUME NEW S \in SUBSET Nat, S # {}
    PROVE  Min(S) \in S /\ \A y \in S : Min(S) <= y
<1> DEFINE Less == {p \in Nat \X Nat : p[1] < p[2]}
<1>1. OpToRel(<, Nat) = Less
  BY DEF OpToRel
<1>2. IsWellFoundedOn(Less, Nat)
  BY <1>1, NatLessThanWellFounded, Zenon
<1> HIDE DEF Less
<1>3. \E x \in S : \A y \in S : ~ (<<y, x>> \in Less)
  BY <1>2, WFMin, Zenon
<1>4. PICK x \in S : \A y \in S : <<y, x>> \notin Less
  BY <1>3
<1>5. ASSUME NEW y \in S PROVE x <= y
  <2>1. <<y, x>> \notin Less /\ x \in Nat /\ y \in Nat
    BY <1>4
  <2> QED
    BY <2>1 DEF Less
<1> QED
  BY <1>5 DEF Min

\* An instance has the operators of the modules that it extends as its own.
LEMMA SameOperators ==
    ASSUME NEW S
    PROVE  Places!Cardinality(S) = Cardinality(S) /\ Places!Min(S) = Min(S)
  BY DEF Places!Cardinality, Cardinality, Places!Min, Min

-----------------------------------------------------------------------------
(***************************************************************************)
(* ThreadData: what a logger keeps for a thread is its own.                *)
(***************************************************************************)
Users == {Main, Service, Other}

PlaceTypes ==
    /\ id \in [Users -> Places!Ids \union {None}]
    /\ td \in [Threads -> Seq({0, 1})]
    /\ stored \in [Threads -> [Users -> {0, 1}]]
    /\ sending \in [Threads -> [logger : Users, size : Nat] \union {None}]

\* The loggers that are there have ids of their own, and the main one has the first.
OwnIds ==
    /\ \A l, m \in Places!Live : id[l] = id[m] => l = m
    /\ Places!Live # {} => Main \in Places!Live /\ id[Main] = 0

\* Nothing is stored for a logger that is not there, nor in a place that nobody has.
EmptyIfFree ==
    \A t \in Threads :
        /\ \A l \in Users \ Places!Live : stored[t][l] = 0
        /\ \A p \in DOMAIN td[t] : (\A l \in Places!Live : id[l] + 1 # p) => td[t][p] = 0

\* A thread that sends has the place of the logger it sends from.
PlaceIsThere == \A t \in Threads : sending[t] # None => Len(td[t]) >= 1

PlacesInv == PlaceTypes /\ OwnIds /\ EmptyIfFree /\ PlaceIsThere /\ Places!PlacesAreOwn

\* There are three loggers.
LEMMA UsersFinite == IsFiniteSet(Users) /\ Cardinality(Users) \in Nat
<1>1. IsFiniteSet({Main}) /\ IsFiniteSet({Service}) /\ IsFiniteSet({Other})
  BY FS_Singleton
<1>2. Users = ({Main} \cup {Service}) \cup {Other}
  BY DEF Users
<1> QED
  BY <1>1, <1>2, FS_Union, FS_CardinalityType

\* There is always an id for one logger more, and the first such id is given.
LEMMA FirstFreeIsFree ==
    ASSUME PlacesInv, NEW l \in Users, l \notin Places!Live
    PROVE  /\ Places!FirstFree \in Places!Ids
           /\ Places!Ids \subseteq Nat
           /\ \A m \in Places!Live : id[m] # Places!FirstFree
           /\ Places!Live = {} => Places!FirstFree = 0
<1> DEFINE taken == {id[m] : m \in Places!Live}
           free == Places!Ids \ taken
           n == Cardinality(Users)
           given == [m \in Places!Live |-> id[m]]
<1>1. IsFiniteSet(Users) /\ n \in Nat
  BY UsersFinite
<1>2. Places!Ids = 0..n
  BY SameOperators DEF Places!Ids, Users
<1>3. IsFiniteSet(Places!Live) /\ Cardinality(Places!Live) <= n
  BY <1>1, FS_Subset DEF Places!Live, Users
<1>4. given \in Surjection(Places!Live, taken)
  BY DEF Surjection
<1>5. IsFiniteSet(taken) /\ Cardinality(taken) <= n /\ Cardinality(taken) \in Nat
  BY <1>1, <1>3, <1>4, FS_Surjection, FS_CardinalityType
<1>6. IsFiniteSet(Places!Ids) /\ Cardinality(Places!Ids) = n + 1
  BY <1>1, <1>2, FS_Interval
<1>7. free # {}
  <2>1. SUFFICES ASSUME Places!Ids \subseteq taken PROVE FALSE
    OBVIOUS
  <2>2. Cardinality(Places!Ids) <= Cardinality(taken)
    BY <1>5, <2>1, FS_Subset
  <2> QED
    BY <1>1, <1>5, <1>6, <2>2
<1>8. free \in SUBSET Nat
  BY <1>1, <1>2
<1>9. Places!FirstFree \in free /\ \A y \in free : Places!FirstFree <= y
  <2>1. Places!FirstFree = Min(free)
    BY SameOperators DEF Places!FirstFree
  <2> HIDE DEF free
  <2> QED
    BY <1>7, <1>8, <2>1, Least
<1>10. ASSUME Places!Live = {} PROVE Places!FirstFree = 0
  <2>1. 0 \in free
    BY <1>1, <1>2, <1>10
  <2> QED
    BY <1>8, <1>9, <2>1
<1> QED
  BY <1>1, <1>2, <1>9, <1>10

\* No logger is made at the start.
LEMMA PlacesStart == Places!Init => PlacesInv
<1> SUFFICES ASSUME Places!Init PROVE PlacesInv
  OBVIOUS
<1> USE DEF Places!Init, Users, Places!Empty
<1>1. Places!Live = {}
  BY DEF Places!Live
<1>2. PlaceTypes
  BY DEF PlaceTypes
<1> QED
  BY <1>1, <1>2 DEF PlacesInv, OwnIds, EmptyIfFree, PlaceIsThere, Places!PlacesAreOwn

\* A logger is made: it gets the least id that is free, whose place is empty.
LEMMA MakeKeeps == ASSUME PlacesInv, NEW l \in Users, Places!Make(l) PROVE PlacesInv'
<1> USE DEF Places!Make
<1>1. l \notin Places!Live /\ UNCHANGED <<td, sending, stored>>
  OBVIOUS
<1>2. Places!FirstFree \in Places!Ids /\ Places!FirstFree \in Nat /\ Places!FirstFree # None
  BY <1>1, FirstFreeIsFree, NoneAssumption
<1>3. /\ id' \in [Users -> Places!Ids \union {None}]
      /\ id'[l] = Places!FirstFree
      /\ \A m \in Users \ {l} : id'[m] = id[m]
  BY <1>2 DEF PlacesInv, PlaceTypes, Users
<1>4. Places!Live' = Places!Live \union {l}
  BY <1>2, <1>3 DEF Places!Live, Users
<1>5. Places!Live \subseteq Users
  BY DEF Places!Live, Users
<1>6. OwnIds'
  <2>1. \A j, m \in Places!Live' : id'[j] = id'[m] => j = m
    BY <1>1, <1>3, <1>4, <1>5, FirstFreeIsFree DEF PlacesInv, OwnIds
  <2>2. Main \in Places!Live' /\ id'[Main] = 0
    BY <1>1, <1>3, <1>4, <1>5, FirstFreeIsFree DEF PlacesInv, OwnIds
  <2> QED
    BY <2>1, <2>2 DEF OwnIds
<1>7. EmptyIfFree'
  BY <1>1, <1>3, <1>4, <1>5 DEF PlacesInv, EmptyIfFree
<1>8. Places!PlacesAreOwn'
  <2> SUFFICES ASSUME NEW t \in Threads, NEW m \in Places!Live \union {l}
               PROVE  stored[t][m] = IF id'[m] + 1 \in DOMAIN td[t] THEN td[t][id'[m] + 1] ELSE 0
    BY <1>1, <1>4 DEF Places!PlacesAreOwn, PlacesInv, Places!Place, Places!Empty
  <2>1. CASE m # l
    BY <1>1, <1>3, <1>5, <2>1 DEF Places!PlacesAreOwn, PlacesInv, Places!Place, Places!Empty
  <2>2. CASE m = l
    <3>1. stored[t][l] = 0
      BY <1>1 DEF PlacesInv, EmptyIfFree
    <3>2. \A j \in Places!Live : id[j] # Places!FirstFree /\ id[j] \in Nat
      BY <1>1, <1>5, FirstFreeIsFree DEF PlacesInv, PlaceTypes, Places!Live
    <3>3. \A j \in Places!Live : id[j] + 1 # Places!FirstFree + 1
      BY <1>2, <3>2
    <3> QED
      BY <1>3, <2>2, <3>1, <3>3 DEF PlacesInv, EmptyIfFree
  <2> QED
    BY <2>1, <2>2
<1>9. PlaceTypes' /\ PlaceIsThere'
  BY <1>1, <1>3 DEF PlacesInv, PlaceTypes, PlaceIsThere, Places!Ids
<1> QED
  BY <1>6, <1>7, <1>8, <1>9 DEF PlacesInv

\* A logger that nothing is stored for goes, and its id is free.
LEMMA DestroyKeeps == ASSUME PlacesInv, NEW l \in Users, Places!Destroy(l) PROVE PlacesInv'
<1> USE DEF Places!Destroy
<1>1. /\ l \in Places!Live /\ UNCHANGED <<td, sending, stored>>
      /\ \A t \in Threads : stored[t][l] = 0
      /\ l = Main => Places!Live = {Main}
  BY DEF Places!Empty
<1>2. /\ id' \in [Users -> Places!Ids \union {None}]
      /\ id'[l] = None
      /\ \A m \in Users \ {l} : id'[m] = id[m]
  BY DEF PlacesInv, PlaceTypes, Users
<1>3. Places!Live' = Places!Live \ {l} /\ Places!Live \subseteq Users
  BY <1>2 DEF Places!Live, Users
<1>4. OwnIds'
  BY <1>1, <1>2, <1>3 DEF PlacesInv, OwnIds
<1>5. EmptyIfFree'
  <2>1. \A t \in Threads, m \in Users \ Places!Live' : stored'[t][m] = 0
    BY <1>1, <1>3 DEF PlacesInv, EmptyIfFree
  <2>2. ASSUME NEW t \in Threads, NEW p \in DOMAIN td[t],
               \A m \in Places!Live' : id'[m] + 1 # p
        PROVE  td[t][p] = 0
    <3>1. CASE id[l] + 1 = p
      BY <1>1, <3>1 DEF PlacesInv, Places!PlacesAreOwn, Places!Place, Places!Empty
    <3>2. CASE id[l] + 1 # p
      BY <1>2, <1>3, <2>2, <3>2 DEF PlacesInv, EmptyIfFree
    <3> QED
      BY <3>1, <3>2
  <2> QED
    BY <1>1, <2>1, <2>2 DEF EmptyIfFree
<1>6. Places!PlacesAreOwn'
  BY <1>1, <1>2, <1>3 DEF PlacesInv, Places!PlacesAreOwn, Places!Place
<1>7. PlaceTypes' /\ PlaceIsThere'
  BY <1>1, <1>2 DEF PlacesInv, PlaceTypes, PlaceIsThere, Places!Ids
<1> QED
  BY <1>4, <1>5, <1>6, <1>7 DEF PlacesInv

\* A reference of a thread to its own data, for any value that is stored.
LEMMA DataKeeps ==
    ASSUME PlacesInv, NEW t \in Threads, NEW l \in Places!Live, NEW v \in {0, 1},
           Places!Data(t, l, v), UNCHANGED id
    PROVE  /\ td' \in [Threads -> Seq({0, 1})]
           /\ stored' \in [Threads -> [Users -> {0, 1}]]
           /\ OwnIds' /\ EmptyIfFree'
           /\ \A u \in Threads : \A m \in Places!Live :
                 stored'[u][m] = IF id[m] + 1 \in DOMAIN td'[u] THEN td'[u][id[m] + 1] ELSE 0
           /\ \A u \in Threads \ {t} : td'[u] = td[u]
           /\ Len(td'[t]) = Len(Places!Grown(t, l)) /\ Len(td'[t]) >= 1
           /\ Len(td[t]) >= id[l] + 1 => Len(td'[t]) = Len(td[t])
<1> DEFINE p == id[l] + 1
           old == td[t]
           more == [i \in 1..(p - Len(old)) |-> 0]
<1>1. /\ l \in Users /\ Places!Live \subseteq Users /\ Places!Live' = Places!Live
      /\ p \in Nat /\ p >= 1 /\ old \in Seq({0, 1})
  <2>1. Places!Live \subseteq Users /\ Places!Live' = Places!Live
    BY DEF Places!Live, Users
  <2>2. id[l] \in 0..Cardinality(Users)
    BY <2>1, SameOperators DEF PlacesInv, PlaceTypes, Places!Live, Places!Ids, Users
  <2>3. IsFiniteSet(Users) /\ Cardinality(Users) \in Nat
    BY UsersFinite
  <2> QED
    BY <2>1, <2>2, <2>3 DEF PlacesInv, PlaceTypes
<1>2. /\ more \in Seq({0, 1}) /\ Len(more) = IF p > Len(old) THEN p - Len(old) ELSE 0
      /\ \A i \in 1..Len(more) : more[i] = 0
  <2>1. Len(old) \in Nat
    BY <1>1
  <2>2. CASE p > Len(old)
    <3>1. p - Len(old) \in Nat
      BY <1>1, <2>1, <2>2
    <3> QED
      BY <2>2, <3>1
  <2>3. CASE ~(p > Len(old))
    <3>1. 1..(p - Len(old)) = {}
      BY <1>1, <2>1, <2>3
    <3>2. more = << >>
      BY <3>1
    <3> HIDE DEF more
    <3> QED
      BY <2>3, <3>2
  <2> QED
    BY <2>2, <2>3
<1>3. DEFINE grown == old \o more
<1>4. /\ grown \in Seq({0, 1}) /\ Len(grown) = Len(old) + Len(more)
      /\ p \in 1..Len(grown)
      /\ \A i \in 1..Len(old) : grown[i] = old[i]
      /\ \A i \in (Len(old) + 1)..Len(grown) : grown[i] = 0
  <2> HIDE DEF more
  <2>1. /\ grown \in Seq({0, 1}) /\ Len(grown) = Len(old) + Len(more)
        /\ \A i \in 1..Len(grown) : grown[i] = IF i <= Len(old) THEN old[i] ELSE more[i - Len(old)]
    <3> DEFINE bits == {0, 1}
    <3>1. old \in Seq(bits) /\ more \in Seq(bits)
      BY <1>1, <1>2
    <3> HIDE DEF bits, old
    <3>2. /\ grown \in Seq(bits) /\ Len(grown) = Len(old) + Len(more)
          /\ \A i \in 1..(Len(old) + Len(more)) : grown[i] = IF i <= Len(old) THEN old[i] ELSE more[i - Len(old)]
      BY <3>1, ConcatProperties, Zenon
    <3> QED
      BY <3>2, Zenon DEF bits
  <2>2. Len(old) \in Nat /\ Len(more) \in Nat /\ Len(grown) \in Nat
    BY <1>1, <1>2, <2>1
  <2> HIDE DEF grown, p
  <2>3. p \in 1..Len(grown)
    <3>1. p \in Nat /\ p >= 1
      BY <1>1
    <3>2. CASE p > Len(old)
      <4>1. Len(more) = p - Len(old)
        BY <1>2, <3>2
      <4>2. Len(grown) = p
        BY <2>1, <2>2, <3>1, <4>1
      <4> QED
        BY <3>1, <4>2
    <3>3. CASE ~(p > Len(old))
      <4>1. p <= Len(old) /\ Len(old) <= Len(grown)
        BY <2>1, <2>2, <3>1, <3>3
      <4> QED
        BY <2>2, <3>1, <4>1
    <3> QED
      BY <3>2, <3>3
  <2>4. ASSUME NEW i \in (Len(old) + 1)..Len(grown) PROVE grown[i] = 0
    <3>1. i \in 1..Len(grown) /\ ~(i <= Len(old)) /\ i - Len(old) \in 1..Len(more)
      BY <2>1, <2>2
    <3> QED
      BY <1>2, <2>1, <3>1
  <2>5. ASSUME NEW i \in 1..Len(old) PROVE grown[i] = old[i]
    <3>1. i \in 1..Len(grown) /\ i <= Len(old)
      BY <2>1, <2>2
    <3> QED
      BY <2>1, <3>1
  <2> QED
    BY <2>1, <2>3, <2>4, <2>5
<1>5. Places!Grown(t, l) = grown
  BY DEF Places!Grown, Places!Place, Places!Empty
<1> HIDE DEF more, grown
<1>6. DEFINE new == [grown EXCEPT ![p] = v]
<1>7. new \in Seq({0, 1}) /\ Len(new) = Len(grown) /\ new[p] = v
      /\ \A i \in 1..Len(grown) : i # p => new[i] = grown[i]
  BY <1>4
<1>8. /\ td' = [td EXCEPT ![t] = new]
      /\ stored' = [stored EXCEPT ![t][l] = v]
  BY <1>5 DEF Places!Data, Places!Place
<1> HIDE DEF new
<1>9. td' \in [Threads -> Seq({0, 1})] /\ td'[t] = new /\ \A u \in Threads \ {t} : td'[u] = td[u]
  BY <1>7, <1>8 DEF PlacesInv, PlaceTypes
<1>10. /\ stored' \in [Threads -> [Users -> {0, 1}]] /\ stored'[t][l] = v
       /\ \A m \in Users \ {l} : stored'[t][m] = stored[t][m]
       /\ \A u \in Threads \ {t} : stored'[u] = stored[u]
  BY <1>1, <1>8 DEF PlacesInv, PlaceTypes
<1>11. \A m \in Places!Live : m # l => id[m] + 1 # p
  <2>1. \A m \in Places!Live : id[m] \in Int
    BY <1>1, UsersFinite, SameOperators DEF PlacesInv, PlaceTypes, Places!Live, Places!Ids, Users
  <2> QED
    BY <2>1 DEF PlacesInv, OwnIds
<1>12. DOMAIN new = 1..Len(new) /\ DOMAIN old = 1..Len(old)
  BY <1>1, <1>7
<1>13. OwnIds'
  BY <1>1 DEF PlacesInv, OwnIds
<1>14. EmptyIfFree'
  <2>1. \A u \in Threads : \A m \in Users \ Places!Live' : stored'[u][m] = 0
    BY <1>1, <1>10 DEF PlacesInv, EmptyIfFree
  <2>2. ASSUME NEW i \in DOMAIN new, \A m \in Places!Live : id[m] + 1 # i
        PROVE  new[i] = 0
    <3>1. i # p /\ new[i] = grown[i] /\ i \in 1..Len(grown)
      BY <1>1, <1>7, <1>12, <2>2
    <3>2. CASE i \in DOMAIN old
      BY <1>4, <1>12, <2>2, <3>1, <3>2 DEF PlacesInv, EmptyIfFree
    <3>3. CASE i \notin DOMAIN old
      BY <1>1, <1>2, <1>4, <1>12, <3>1, <3>3
    <3> QED
      BY <3>2, <3>3
  <2>3. \A u \in Threads : \A i \in DOMAIN td'[u] :
            (\A m \in Places!Live : id[m] + 1 # i) => td'[u][i] = 0
    BY <1>9, <2>2 DEF PlacesInv, EmptyIfFree
  <2> QED
    BY <1>1, <2>1, <2>3 DEF EmptyIfFree
<1>15. ASSUME NEW m \in Places!Live
       PROVE  stored'[t][m] = IF id[m] + 1 \in DOMAIN new THEN new[id[m] + 1] ELSE 0
  <2>1. CASE m = l
    BY <1>4, <1>7, <1>10, <1>12, <2>1
  <2>2. CASE m # l
    <3>1. stored'[t][m] = IF id[m] + 1 \in DOMAIN old THEN old[id[m] + 1] ELSE 0
      BY <1>1, <1>10, <2>2 DEF PlacesInv, Places!PlacesAreOwn, Places!Place, Places!Empty
    <3> QED
      BY <1>1, <1>4, <1>7, <1>11, <1>12, <2>2, <3>1
  <2> QED
    BY <2>1, <2>2
<1>16. ASSUME NEW u \in Threads, NEW m \in Places!Live
       PROVE  stored'[u][m] = IF id[m] + 1 \in DOMAIN td'[u] THEN td'[u][id[m] + 1] ELSE 0
  <2>1. CASE u = t
    BY <1>9, <1>15, <2>1
  <2>2. CASE u # t
    BY <1>9, <1>10, <2>2 DEF PlacesInv, Places!PlacesAreOwn, Places!Place, Places!Empty
  <2> QED
    BY <2>1, <2>2
<1>17. Len(new) = Len(grown) /\ Len(new) >= 1 /\ (Len(old) >= p => Len(new) = Len(old))
  BY <1>1, <1>2, <1>4, <1>7
<1> QED
  BY <1>5, <1>9, <1>10, <1>13, <1>14, <1>16, <1>17

\* data(): the vector of the thread grows if it has to.
LEMMA AccessKeeps ==
    ASSUME PlacesInv, NEW t \in Threads, NEW l \in Users, NEW v \in {0, 1}, Places!Access(t, l, v)
    PROVE  PlacesInv'
<1>1. /\ l \in Places!Live /\ (sending[t] = None \/ l = Main)
      /\ Places!Data(t, l, v) /\ UNCHANGED <<id, sending>>
  BY DEF Places!Access
<1>2. Places!Live' = Places!Live
  BY <1>1 DEF Places!Live
<1>3. PlaceTypes'
  BY <1>1, DataKeeps DEF PlacesInv, PlaceTypes, Places!Ids
<1>4. \A u \in Threads : sending[u] # None => Len(td'[u]) = Len(td[u])
  <2>1. l = Main => id[l] = 0
    BY <1>1 DEF PlacesInv, OwnIds
  <2>2. /\ \A u \in Threads \ {t} : td'[u] = td[u]
        /\ Len(td[t]) >= id[l] + 1 => Len(td'[t]) = Len(td[t])
    BY <1>1, DataKeeps
  <2>3. sending[t] # None => Len(td[t]) >= id[l] + 1
    BY <1>1, <2>1 DEF PlacesInv, PlaceIsThere
  <2>4. sending[t] # None => Len(td'[t]) = Len(td[t])
    BY <2>2, <2>3
  <2> QED
    BY <2>2, <2>4
<1>5. PlaceIsThere'
  BY <1>1, <1>4 DEF PlacesInv, PlaceIsThere
<1>6. Places!PlacesAreOwn'
  BY <1>1, <1>2, <1>4, DataKeeps DEF PlacesInv, Places!PlacesAreOwn, Places!Place, Places!Empty
<1> QED
  BY <1>1, <1>3, <1>5, <1>6, DataKeeps DEF PlacesInv

\* endBlock() takes its reference.
LEMMA EndBlockKeeps ==
    ASSUME PlacesInv, NEW t \in Threads, NEW l \in Users, Places!EndBlock(t, l)
    PROVE  PlacesInv'
<1>1. /\ l \in Places!Live /\ sending[t] = None
      /\ Places!Data(t, l, 0) /\ UNCHANGED id
      /\ sending' = [sending EXCEPT ![t] = [logger |-> l, size |-> Len(Places!Grown(t, l))]]
  BY DEF Places!EndBlock, Places!Empty
<1>2. Places!Live' = Places!Live
  BY <1>1 DEF Places!Live
<1>3. Len(Places!Grown(t, l)) \in Nat
  <2>1. td'[t] \in Seq({0, 1}) /\ Len(td'[t]) = Len(Places!Grown(t, l))
    BY <1>1, DataKeeps
  <2> QED
    BY <2>1
<1>4. PlaceTypes'
  BY <1>1, <1>3, DataKeeps DEF PlacesInv, PlaceTypes, Places!Ids
<1>5. /\ \A u \in Threads \ {t} : sending'[u] = sending[u] /\ td'[u] = td[u]
      /\ sending'[t].size = Len(td'[t]) /\ Len(td'[t]) >= 1
  BY <1>1, DataKeeps DEF PlacesInv, PlaceTypes
<1>6. PlaceIsThere'
  BY <1>5 DEF PlacesInv, PlaceIsThere
<1>7. Places!PlacesAreOwn'
  BY <1>1, <1>2, <1>5, DataKeeps DEF PlacesInv, Places!PlacesAreOwn, Places!Place, Places!Empty
<1> QED
  BY <1>1, <1>4, <1>6, <1>7, DataKeeps DEF PlacesInv

\* endBlock() uses its reference again.
LEMMA SentKeeps == ASSUME PlacesInv, NEW t \in Threads, Places!Sent(t) PROVE PlacesInv'
<1>1. UNCHANGED <<id, td, stored>> /\ sending' = [sending EXCEPT ![t] = None]
  BY DEF Places!Sent
<1>2. Places!Live' = Places!Live /\ \A u \in Threads : sending'[u] # None => sending'[u] = sending[u]
  BY <1>1 DEF Places!Live, PlacesInv, PlaceTypes
<1>3. PlaceTypes'
  BY <1>1 DEF PlacesInv, PlaceTypes, Places!Ids
<1> QED
  BY <1>1, <1>2, <1>3
     DEF PlacesInv, OwnIds, EmptyIfFree, PlaceIsThere, Places!PlacesAreOwn, Places!Place

\* The steps together.
LEMMA PlacesNext == PlacesInv /\ [Places!Next]_placeVars => PlacesInv'
<1> SUFFICES ASSUME PlacesInv, [Places!Next]_placeVars PROVE PlacesInv'
  OBVIOUS
<1>1. CASE UNCHANGED placeVars
  <2>1. UNCHANGED <<id, td, sending, stored>> /\ Places!Live' = Places!Live
    BY <1>1 DEF placeVars, Places!Live
  <2>2. PlaceTypes' /\ OwnIds' /\ EmptyIfFree' /\ PlaceIsThere'
    BY <2>1 DEF PlacesInv, PlaceTypes, OwnIds, EmptyIfFree, PlaceIsThere, Places!Ids
  <2>3. Places!PlacesAreOwn'
    BY <2>1 DEF PlacesInv, Places!PlacesAreOwn, Places!Place
  <2> QED
    BY <2>2, <2>3 DEF PlacesInv
<1>2. CASE Places!Next
  BY <1>2, MakeKeeps, DestroyKeeps, AccessKeeps, EndBlockKeeps, SentKeeps
     DEF Places!Next, Places!Contents, Places!Empty, Users
<1> QED
  BY <1>1, <1>2

\* Every logger finds in each thread what it has stored there itself, whatever loggers
\* come and go (data(), allocateInstanceId() and releaseInstanceId() of thread_data.hxx).
THEOREM PlacesStayOwn == LoggerSpec => []PlacesAreOwn
<1>1. LoggerInit => PlacesInv
  BY PlacesStart DEF LoggerInit
<1>2. PlacesInv /\ [ChainStep \/ TeeStep \/ PlacesStep]_allVars => PlacesInv'
  BY PlacesNext DEF ChainStep, TeeStep, PlacesStep, allVars
<1>3. PlacesInv => PlacesAreOwn
  BY DEF PlacesInv, PlacesAreOwn
<1> QED
  BY <1>1, <1>2, <1>3, PTL DEF LoggerSpec
=============================================================================
