---------------------------- MODULE RuntimeProofs ----------------------------
(***************************************************************************)
(* What holds of the parts that MCRuntimeParts puts into one run, whatever *)
(* the numbers of files, records, processes, types, handles, calls and     *)
(* selectors and the lengths of names: FileSink, ProcessCollector,         *)
(* StatLine, LuaTypes, LuaStack and LuaSelector.  The parts share no       *)
(* state, and each has an inductive invariant of its own: SinkInv,         *)
(* CollectorInv, LineInv, TypesInv, StackInv and SelectorInv.  The         *)
(* theorems are at the end.  (Reflectable, which is in that run, too, is   *)
(* in ReflectableProofs.)                                                  *)
(***************************************************************************)
EXTENDS MCRuntimeParts, SequenceTheorems, FiniteSetTheorems, TLAPS

-----------------------------------------------------------------------------
\* A part of a sequence.
LEMMA PartOf ==
    ASSUME NEW S, NEW s \in Seq(S), NEW m \in Nat \ {0}, NEW n \in Int, n <= Len(s), m <= n + 1
    PROVE  /\ SubSeq(s, m, n) \in Seq(S)
           /\ Len(SubSeq(s, m, n)) = n - m + 1
           /\ \A i \in 1..(n - m + 1) : SubSeq(s, m, n)[i] = s[m + i - 1]
<1>1. \A i \in m..n : s[i] \in S
  OBVIOUS
<1> QED
  BY <1>1, SubSeqProperties

-----------------------------------------------------------------------------
(***************************************************************************)
(* FileSink.                                                               *)
(***************************************************************************)
\* A byte of a record, and the numbers of the old logs.
AnyByte == [record : Nat, at : Nat]
File == 0..Sink!Oldest

\* The types, and the index of a rotation is that of a file.
SinkTypes ==
    /\ step \in Sink!Steps
    /\ index \in Int /\ (step \in {"remove", "rename"} => index \in File)
    /\ log \in Seq(AnyByte) /\ kept \in [File -> Seq(AnyByte)]
    /\ written \in 0..Parts /\ records \in Nat
    /\ renameFailed \in BOOLEAN

\* What has been renamed is gone from where it was, as long as no rename has failed.
Emptied ==
    /\ ~renameFailed /\ step \in {"remove", "rename"} /\ index # Sink!Oldest => kept[index] = <<>>
    /\ ~renameFailed /\ step = "makeLog" /\ Keep # 0 => log = <<>>

\* The record that is being written is in the log only, up to what has been written of it.
WrittenSoFar ==
    /\ \A i \in File : \A k \in DOMAIN kept[i] :
            kept[i][k].record <= records /\ (step = "writing" => kept[i][k].record # records)
    /\ \A k \in DOMAIN log :
            log[k].record <= records /\ (step = "writing" /\ log[k].record = records => log[k].at <= written)
    /\ step = "writing" => \A k \in 1..written : \E l \in DOMAIN log : log[l] = Sink!Byte(records, k)
    /\ step \notin {"writing"} => records = 0 \/ records \in damaged \/ written = Parts

-----------------------------------------------------------------------------
\* A reader's files, whatever they hold.
Places == 1..(Keep + 1)
\* In order, no record in two files, and what is among the bytes.
OrderIn(F) ==
    \A i, j \in Places : \A k \in DOMAIN F[i], l \in DOMAIN F[j] :
        i < j \/ (i = j /\ k < l) => Sink!Before(F[i][k], F[j][l])
ApartIn(F) == \A i, j \in Places : \A k \in DOMAIN F[i], l \in DOMAIN F[j] : i # j => F[i][k].record # F[j][l].record
IsIn(F, byte) == \E i \in Places : \E k \in DOMAIN F[i] : F[i][k] = byte
OlderIn(F, r) == \E i \in Places : \E k \in DOMAIN F[i] : F[i][k].record < r

\* The files from the oldest to the log.
FilesOf(lg, kp) == [j \in Places |-> IF j = Keep + 1 THEN lg ELSE kp[Keep - j]]

\* Which file is at which place.
LEMMA FilesAre ==
    ASSUME NEW lg \in Seq(AnyByte), NEW kp \in [File -> Seq(AnyByte)]
    PROVE  /\ FilesOf(lg, kp) \in [Places -> Seq(AnyByte)]
           /\ Keep + 1 \in Places /\ FilesOf(lg, kp)[Keep + 1] = lg
           /\ \A i \in File : Keep - i \in Places /\ Keep - i # Keep + 1 /\ FilesOf(lg, kp)[Keep - i] = kp[i]
           /\ \A j \in Places : j # Keep + 1 => Keep - j \in File /\ FilesOf(lg, kp)[j] = kp[Keep - j]
<1>1. \A i \in File : Keep - i \in Places /\ Keep - i # Keep + 1 /\ Keep - (Keep - i) = i
  BY SinkAssumption DEF File, Sink!Oldest, Places
<1>2. \A j \in Places : j # Keep + 1 => j <= Keep /\ Keep - j \in File
  BY SinkAssumption DEF File, Sink!Oldest, Places
<1>3. Keep + 1 \in Places
  BY SinkAssumption DEF Places
<1> DEFINE F == FilesOf(lg, kp)
<1>5. F = [j \in Places |-> IF j = Keep + 1 THEN lg ELSE kp[Keep - j]]
  BY DEF FilesOf
<1> HIDE DEF F
<1>6. F[Keep + 1] = lg
  BY <1>3, <1>5
<1>7. ASSUME NEW j \in Places, j # Keep + 1
      PROVE  Keep - j \in File /\ F[j] = kp[Keep - j]
  BY <1>2, <1>5, <1>7
<1>8. ASSUME NEW i \in File
      PROVE  Keep - i \in Places /\ Keep - i # Keep + 1 /\ F[Keep - i] = kp[i]
  BY <1>1, <1>7
<1>9. F \in [Places -> Seq(AnyByte)]
  <2>1. \A j \in Places : (IF j = Keep + 1 THEN lg ELSE kp[Keep - j]) \in Seq(AnyByte)
    BY <1>2
  <2> QED
    BY <1>5, <2>1
<1> QED
  BY <1>3, <1>6, <1>7, <1>8, <1>9 DEF F

-----------------------------------------------------------------------------
\* Files that are the same as others but for their places, in the same order, and for
\* empty ones.
LEMMA Replaced ==
    ASSUME NEW F \in [Places -> Seq(AnyByte)], NEW G \in [Places -> Seq(AnyByte)],
           NEW f \in [Places -> Places],
           \A i \in Places : G[i] # <<>> => G[i] = F[f[i]],
           \A i, j \in Places : i < j /\ G[i] # <<>> /\ G[j] # <<>> => f[i] < f[j],
           OrderIn(F), ApartIn(F)
    PROVE  /\ OrderIn(G) /\ ApartIn(G)
           /\ \A r : OlderIn(G, r) => OlderIn(F, r)
<1>1. ASSUME NEW i \in Places, NEW k \in DOMAIN G[i]
      PROVE  G[i] # <<>> /\ k \in DOMAIN F[f[i]] /\ G[i][k] = F[f[i]][k]
  BY <1>1
<1>2. ASSUME NEW i \in Places, NEW j \in Places, NEW k \in DOMAIN G[i], NEW l \in DOMAIN G[j]
      PROVE  /\ i < j \/ (i = j /\ k < l) => Sink!Before(G[i][k], G[j][l])
             /\ i # j => G[i][k].record # G[j][l].record
  <2>1. i < j => f[i] < f[j]
    BY <1>1, <1>2
  <2>2. j < i => f[j] < f[i]
    BY <1>1, <1>2
  <2>3. f[i] \in Places /\ f[j] \in Places /\ Places \subseteq Int
    BY DEF Places
  <2>4. i # j => f[i] # f[j]
    <3>1. f[i] \in Int /\ f[j] \in Int /\ i \in Int /\ j \in Int
      BY <2>3
    <3>2. i # j => i < j \/ j < i
      BY <3>1
    <3> QED
      BY <2>1, <2>2, <3>1, <3>2
  <2>5. k \in DOMAIN F[f[i]] /\ l \in DOMAIN F[f[j]] /\ G[i][k] = F[f[i]][k] /\ G[j][l] = F[f[j]][l]
    BY <1>1
  <2>6. i < j \/ (i = j /\ k < l) => Sink!Before(F[f[i]][k], F[f[j]][l])
    BY <2>1, <2>3, <2>5 DEF OrderIn
  <2>7. i # j => F[f[i]][k].record # F[f[j]][l].record
    <3>1. \A a, b \in Places : a # b => \A m \in DOMAIN F[a], n \in DOMAIN F[b] : F[a][m].record # F[b][n].record
      BY DEF ApartIn
    <3>2. ASSUME f[i] # f[j] PROVE F[f[i]][k].record # F[f[j]][l].record
      <4> DEFINE a == f[i]
                 b == f[j]
      <4>1. a \in Places /\ b \in Places /\ a # b /\ k \in DOMAIN F[a] /\ l \in DOMAIN F[b]
        BY <2>3, <2>5, <3>2
      <4> HIDE DEF a, b
      <4>2. F[a][k].record # F[b][l].record
        BY <3>1, <4>1
      <4> QED
        BY <4>2 DEF a, b
    <3> QED
      BY <2>4, <3>2
  <2> QED
    BY <2>5, <2>6, <2>7
<1>3. OrderIn(G) /\ ApartIn(G)
  BY <1>2 DEF OrderIn, ApartIn
<1>4. ASSUME NEW r, OlderIn(G, r) PROVE OlderIn(F, r)
  <2>1. PICK i \in Places : \E k \in DOMAIN G[i] : G[i][k].record < r
    BY <1>4 DEF OlderIn
  <2> QED
    BY <1>1, <2>1 DEF OlderIn
<1> QED
  BY <1>3, <1>4

\* A file is removed or truncated.
LEMMA Cleared ==
    ASSUME NEW F \in [Places -> Seq(AnyByte)], NEW p \in Places, OrderIn(F), ApartIn(F)
    PROVE  /\ OrderIn([F EXCEPT ![p] = <<>>]) /\ ApartIn([F EXCEPT ![p] = <<>>])
           /\ \A r : OlderIn([F EXCEPT ![p] = <<>>], r) => OlderIn(F, r)
<1> DEFINE G == [F EXCEPT ![p] = <<>>]
           f == [i \in Places |-> i]
<1>1. G \in [Places -> Seq(AnyByte)] /\ f \in [Places -> Places]
  OBVIOUS
<1>2. \A i \in Places : G[i] # <<>> => G[i] = F[f[i]]
  OBVIOUS
<1>3. \A i, j \in Places : i < j => f[i] < f[j]
  OBVIOUS
<1> HIDE DEF G, f
<1>4. OrderIn(G) /\ ApartIn(G) /\ \A r : OlderIn(G, r) => OlderIn(F, r)
  BY <1>1, <1>2, <1>3, Replaced
<1> QED
  BY <1>4 DEF G

\* The first file is the oldest: a record that is complete, and not the oldest, is not in it.
LEMMA OldestCleared ==
    ASSUME NEW F \in [Places -> Seq(AnyByte)], OrderIn(F), NEW r \in Nat, NEW k \in Nat,
           OlderIn([F EXCEPT ![1] = <<>>], r), IsIn(F, Sink!Byte(r, k))
    PROVE  IsIn([F EXCEPT ![1] = <<>>], Sink!Byte(r, k))
<1> DEFINE G == [F EXCEPT ![1] = <<>>]
<1>0. Places \subseteq Int /\ 1 \in Places /\ \A i \in Places : i # 1 => 1 < i
  BY SinkAssumption DEF Places
<1>1. PICK i \in Places : \E l \in DOMAIN G[i] : G[i][l].record < r
  BY DEF OlderIn
<1>2. PICK l \in DOMAIN G[i] : G[i][l].record < r
  BY <1>1
<1>3. i # 1 /\ l \in DOMAIN F[i] /\ G[i] = F[i]
  BY <1>0, <1>2
<1>4. PICK j \in Places : \E m \in DOMAIN F[j] : F[j][m] = Sink!Byte(r, k)
  BY DEF IsIn
<1>5. PICK m \in DOMAIN F[j] : F[j][m] = Sink!Byte(r, k)
  BY <1>4
<1>6. j # 1
  <2> SUFFICES ASSUME j = 1 PROVE FALSE
    OBVIOUS
  <2>1. Sink!Before(F[j][m], F[i][l])
    BY <1>0, <1>3, <1>5 DEF OrderIn
  <2>2. F[j][m].record = r /\ F[i][l].record < r
    BY <1>2, <1>3, <1>5 DEF Sink!Byte
  <2>3. F[i][l].record \in Nat
    <3>1. F[i] \in Seq(AnyByte) /\ l \in DOMAIN F[i]
      BY <1>3
    <3>2. F[i][l] \in AnyByte
      BY <3>1
    <3> QED
      BY <3>2 DEF AnyByte
  <2> QED
    BY <2>1, <2>2, <2>3 DEF Sink!Before
<1>7. G[j] = F[j]
  BY <1>6
<1> QED
  BY <1>5, <1>7 DEF IsIn

\* A file takes the place of the next older one.
LEMMA TakenOver ==
    ASSUME NEW F \in [Places -> Seq(AnyByte)], NEW G \in [Places -> Seq(AnyByte)],
           NEW p \in Places, p - 1 \in Places, G[p] = <<>>, G[p - 1] = F[p],
           \A i \in Places : i # p /\ i # p - 1 => G[i] = F[i],
           OrderIn(F), ApartIn(F)
    PROVE  /\ OrderIn(G) /\ ApartIn(G)
           /\ \A r : OlderIn(G, r) => OlderIn(F, r)
           /\ F[p - 1] = <<>> => \A byte : IsIn(F, byte) => IsIn(G, byte)
<1> DEFINE f == [i \in Places |-> IF i = p - 1 THEN p ELSE i]
<1>0. Places \subseteq Int /\ p # p - 1
  BY DEF Places
<1>1. G \in [Places -> Seq(AnyByte)] /\ f \in [Places -> Places]
  OBVIOUS
<1>2. G[p] = <<>> /\ G[p - 1] = F[p] /\ \A i \in Places : i # p /\ i # p - 1 => G[i] = F[i]
  OBVIOUS
<1>3. \A i \in Places : f[i] = IF i = p - 1 THEN p ELSE i
  OBVIOUS
<1> HIDE DEF f
<1>4. \A i \in Places : G[i] # <<>> => G[i] = F[f[i]]
  BY <1>2, <1>3
<1>5. ASSUME NEW i \in Places, NEW j \in Places, i < j, G[i] # <<>>, G[j] # <<>>
      PROVE  f[i] < f[j]
  <2>1. i # p /\ j # p
    BY <1>2, <1>5
  <2> QED
    BY <1>0, <1>3, <1>5, <2>1
<1>6. OrderIn(G) /\ ApartIn(G) /\ \A r : OlderIn(G, r) => OlderIn(F, r)
  BY <1>1, <1>4, <1>5, Replaced
<1>7. ASSUME F[p - 1] = <<>>, NEW byte, IsIn(F, byte) PROVE IsIn(G, byte)
  <2>1. PICK i \in Places : \E k \in DOMAIN F[i] : F[i][k] = byte
    BY <1>7 DEF IsIn
  <2>2. PICK k \in DOMAIN F[i] : F[i][k] = byte
    BY <2>1
  <2>3. i # p - 1
    BY <1>7, <2>2
  <2>4. CASE i = p
    BY <1>2, <2>2, <2>4 DEF IsIn
  <2>5. CASE i # p
    BY <1>2, <2>2, <2>3, <2>5 DEF IsIn
  <2> QED
    BY <2>4, <2>5
<1> QED
  BY <1>6, <1>7

-----------------------------------------------------------------------------
\* FileSink!LogsReadBack, of files in their order.
GapsIn(F, recs, wr, dmg) ==
    \E r \in 1..recs :
        /\ OlderIn(F, r) /\ r \notin dmg /\ (r = recs => wr = Parts)
        /\ \E k \in 1..Parts : ~IsIn(F, Sink!Byte(r, k))

\* LogsReadBack, about the files as a row.
ReadBack ==
    /\ OrderIn(FilesOf(log, kept)) /\ ApartIn(FilesOf(log, kept))
    /\ ~renameFailed => ~GapsIn(FilesOf(log, kept), records, written, damaged)

SinkInv == SinkTypes /\ Emptied /\ WrittenSoFar /\ ReadBack

\* FileSink has this as LogsReadBack.
LEMMA ReadBackSuffices == SinkInv => Sink!LogsReadBack
<1> SUFFICES ASSUME SinkInv PROVE Sink!LogsReadBack
  OBVIOUS
<1> DEFINE F == FilesOf(log, kept)
<1>1. F = Sink!Files /\ DOMAIN F = Places
  <2>1. \A j \in Places : j > Keep <=> j = Keep + 1
    BY SinkAssumption DEF Places
  <2> QED
    BY <2>1 DEF Sink!Files, FilesOf, Places
<1>2. OrderIn(F) /\ ApartIn(F) /\ (~renameFailed => ~GapsIn(F, records, written, damaged))
  BY DEF SinkInv, ReadBack
<1> HIDE DEF F
<1>3. Sink!InOrder
  BY <1>1, <1>2 DEF Sink!InOrder, OrderIn
<1>4. Sink!NotSplit
  BY <1>1, <1>2 DEF Sink!NotSplit, ApartIn, Sink!RecordsIn
<1>5. ASSUME ~renameFailed PROVE Sink!NoGaps
  <2> SUFFICES ASSUME NEW r \in 1..records, \E i \in DOMAIN F : \E old \in Sink!RecordsIn(F[i]) : old < r,
                      r \notin damaged, r = records => written = Parts, NEW k \in 1..Parts
               PROVE  Sink!IsThere(Sink!Byte(r, k))
    BY <1>1 DEF Sink!NoGaps
  <2>1. OlderIn(F, r)
    BY <1>1 DEF OlderIn, Sink!RecordsIn
  <2>2. IsIn(F, Sink!Byte(r, k))
    BY <1>2, <1>5, <2>1 DEF GapsIn
  <2> QED
    BY <1>1, <2>2 DEF Sink!IsThere, IsIn
<1> QED
  BY <1>3, <1>4, <1>5 DEF Sink!LogsReadBack

\* Files that hold no older record than others, and all that the others do: nothing goes missing.
LEMMA NothingMissing ==
    ASSUME NEW F, NEW G, NEW recs, NEW wr, NEW dmg, NEW more,
           ~GapsIn(F, recs, wr, dmg), dmg \subseteq more,
           \A r : OlderIn(G, r) => OlderIn(F, r),
           \A r \in 1..recs, k \in 1..Parts :
                OlderIn(G, r) /\ IsIn(F, Sink!Byte(r, k)) => IsIn(G, Sink!Byte(r, k))
    PROVE  ~GapsIn(G, recs, wr, more)
  BY DEF GapsIn

-----------------------------------------------------------------------------
\* What becomes of the files when one of them is replaced.
LEMMA KeptReplaced ==
    ASSUME NEW lg \in Seq(AnyByte), NEW kp \in [File -> Seq(AnyByte)], NEW i \in File, NEW c \in Seq(AnyByte),
           NEW kq \in [File -> Seq(AnyByte)], kq[i] = c, \A n \in File : n # i => kq[n] = kp[n]
    PROVE  FilesOf(lg, kq) = [FilesOf(lg, kp) EXCEPT ![Keep - i] = c]
<1> DEFINE F == FilesOf(lg, kp)
           G == FilesOf(lg, kq)
           H == [F EXCEPT ![Keep - i] = c]
<1>2. /\ F \in [Places -> Seq(AnyByte)] /\ F[Keep + 1] = lg
      /\ \A j \in Places : j # Keep + 1 => Keep - j \in File /\ F[j] = kp[Keep - j]
      /\ Keep - i \in Places /\ Keep - i # Keep + 1
  BY FilesAre
<1>3. /\ G \in [Places -> Seq(AnyByte)] /\ G[Keep + 1] = lg
      /\ \A j \in Places : j # Keep + 1 => Keep - j \in File /\ G[j] = kq[Keep - j]
  BY FilesAre
<1> HIDE DEF F, G
<1>4. H \in [Places -> Seq(AnyByte)] /\ H[Keep - i] = c /\ \A j \in Places : j # Keep - i => H[j] = F[j]
  BY <1>2
<1> HIDE DEF H
<1>5. ASSUME NEW j \in Places PROVE G[j] = H[j]
  <2>1. CASE j = Keep + 1
    BY <1>2, <1>3, <1>4, <2>1
  <2>2. CASE j # Keep + 1
    <3>1. Keep - j \in File /\ G[j] = kq[Keep - j] /\ F[j] = kp[Keep - j]
      BY <1>2, <1>3, <2>2
    <3>2. Keep - j = i <=> j = Keep - i
      BY SinkAssumption DEF Places, File
    <3>3. CASE Keep - j = i
      BY <1>4, <3>1, <3>2, <3>3
    <3>4. CASE Keep - j # i
      BY <1>4, <3>1, <3>2, <3>4
    <3> QED
      BY <3>3, <3>4
  <2> QED
    BY <2>1, <2>2
<1>6. G = H
  BY <1>3, <1>4, <1>5
<1> QED
  BY <1>6 DEF F, G, H

\* The log is the last of the files.
LEMMA LogReplaced ==
    ASSUME NEW lg \in Seq(AnyByte), NEW kp \in [File -> Seq(AnyByte)], NEW c \in Seq(AnyByte)
    PROVE  FilesOf(c, kp) = [FilesOf(lg, kp) EXCEPT ![Keep + 1] = c]
<1> DEFINE F == FilesOf(lg, kp)
           G == FilesOf(c, kp)
<1>1. /\ F \in [Places -> Seq(AnyByte)] /\ Keep + 1 \in Places
      /\ \A j \in Places : j # Keep + 1 => Keep - j \in File /\ F[j] = kp[Keep - j]
  BY FilesAre
<1>2. /\ G \in [Places -> Seq(AnyByte)] /\ G[Keep + 1] = c
      /\ \A j \in Places : j # Keep + 1 => Keep - j \in File /\ G[j] = kp[Keep - j]
  BY FilesAre
<1> HIDE DEF F, G
<1>3. G = [F EXCEPT ![Keep + 1] = c]
  BY <1>1, <1>2
<1> QED
  BY <1>3 DEF F, G

-----------------------------------------------------------------------------
(***************************************************************************)
(* The rotation.                                                           *)
(***************************************************************************)
LEMMA RemoveDestStep == SinkInv /\ Sink!RemoveDest => SinkInv'
<1> SUFFICES ASSUME SinkInv, Sink!RemoveDest PROVE SinkInv'
  OBVIOUS
<1> USE DEF SinkInv
<1> DEFINE F == FilesOf(log, kept)
           G == FilesOf(log, kept')
<1>1. index \in File /\ kept' = [kept EXCEPT ![index] = <<>>] /\ step' = "rename"
      /\ UNCHANGED <<index, log, size, written, records, starts, damaged, renameFailed>>
  BY DEF Sink!RemoveDest, SinkTypes
<1>2. SinkTypes'
  BY <1>1 DEF SinkTypes, Sink!Steps
<1>3. Emptied'
  BY <1>1 DEF SinkTypes, Emptied
<1>4. WrittenSoFar'
  <2>1. \A i \in File : \A k \in DOMAIN kept'[i] : i # index /\ kept'[i] = kept[i]
    BY <1>1 DEF SinkTypes
  <2> QED
    BY <1>1, <2>1 DEF WrittenSoFar, Sink!RemoveDest
<1>5. ReadBack'
  <2>0. G = [F EXCEPT ![Keep - index] = <<>>] /\ F \in [Places -> Seq(AnyByte)]
        /\ Keep - index \in Places /\ F[Keep - index] = kept[index]
    <3>0. index \in File
      BY <1>1
    <3>1. <<>> \in Seq(AnyByte) /\ log \in Seq(AnyByte) /\ kept \in [File -> Seq(AnyByte)]
      BY DEF SinkTypes
    <3>2. /\ kept' \in [File -> Seq(AnyByte)] /\ kept'[index] = <<>>
          /\ \A n \in File : n # index => kept'[n] = kept[n]
      BY <1>1, <3>1
    <3>4. G = [F EXCEPT ![Keep - index] = <<>>]
      BY <3>0, <3>1, <3>2, KeptReplaced
    <3>3. F \in [Places -> Seq(AnyByte)] /\ Keep - index \in Places /\ F[Keep - index] = kept[index]
      BY <1>1, <3>1, FilesAre
    <3> QED
      BY <3>3, <3>4
  <2>1. OrderIn(F) /\ ApartIn(F) /\ (~renameFailed => ~GapsIn(F, records, written, damaged))
    BY DEF ReadBack
  <2> HIDE DEF F, G
  <2>2. OrderIn(G) /\ ApartIn(G) /\ \A r : OlderIn(G, r) => OlderIn(F, r)
    BY <2>0, <2>1, Cleared
  <2>3. ASSUME ~renameFailed PROVE ~GapsIn(G, records, written, damaged)
    <3>1. CASE index = Sink!Oldest
      <4>1. Keep - index = 1
        BY <3>1, SinkAssumption DEF Sink!Oldest
      <4>2. ASSUME NEW r \in 1..records, NEW k \in 1..Parts, OlderIn(G, r), IsIn(F, Sink!Byte(r, k))
            PROVE  IsIn(G, Sink!Byte(r, k))
        <5>1. r \in Nat /\ k \in Nat
          BY SinkAssumption DEF SinkTypes
        <5> QED
          BY <2>0, <2>1, <4>1, <4>2, <5>1, OldestCleared
      <4> QED
        BY <2>1, <2>2, <2>3, <4>2, NothingMissing
    <3>2. CASE index # Sink!Oldest
      <4>1. kept[index] = <<>>
        BY <2>3, <3>2 DEF Emptied, Sink!RemoveDest
      <4>2. G = F
        BY <2>0, <4>1
      <4> QED
        BY <2>1, <2>3, <4>2
    <3> QED
      BY <3>1, <3>2
  <2> QED
    BY <1>1, <2>2, <2>3 DEF ReadBack, G
<1> QED
  BY <1>2, <1>3, <1>4, <1>5

\* rename(): a file moves to the next place, which remove() has emptied or holds the oldest.
LEMMA RenameStep == SinkInv /\ Sink!Rename => SinkInv'
<1> SUFFICES ASSUME SinkInv, Sink!Rename PROVE SinkInv'
  OBVIOUS
<1> USE DEF SinkInv
<1> DEFINE F == FilesOf(log, kept)
           G == FilesOf(log', kept')
           p == Keep - index + 1
<1>0. /\ index \in File /\ Keep # 0 /\ index - 1 \in Int /\ (index # 0 => index - 1 \in File)
      /\ log \in Seq(AnyByte) /\ kept \in [File -> Seq(AnyByte)]
  BY SinkAssumption DEF Sink!Rename, SinkTypes, File, Sink!Oldest
<1>1. ASSUME index = 0
      PROVE  /\ kept' \in [File -> Seq(AnyByte)] /\ kept'[0] = log /\ log' = <<>>
             /\ \A i \in File : i # 0 => kept'[i] = kept[i]
  <2>1. kept' = [kept EXCEPT ![0] = log] /\ log' = <<>>
    BY <1>1 DEF Sink!Rename, Sink!Moved
  <2> QED
    BY <1>0, <1>1, <2>1
<1>2. ASSUME index # 0
      PROVE  /\ kept' \in [File -> Seq(AnyByte)] /\ kept'[index] = kept[index - 1] /\ kept'[index - 1] = <<>>
             /\ \A i \in File : i # index /\ i # index - 1 => kept'[i] = kept[i]
             /\ log' = log
  <2>1. kept' = [kept EXCEPT ![index] = kept[index - 1], ![index - 1] = <<>>] /\ log' = log
    BY <1>2 DEF Sink!Rename, Sink!Moved, Sink!Source
  <2>2. index # index - 1 /\ index - 1 \in File /\ kept[index - 1] \in Seq(AnyByte) /\ <<>> \in Seq(AnyByte)
    BY <1>0, <1>2
  <2>3. kept' \in [File -> Seq(AnyByte)]
    BY <1>0, <2>1, <2>2
  <2>4. kept'[index] = kept[index - 1] /\ kept'[index - 1] = <<>>
    BY <1>0, <2>1, <2>2
  <2>5. \A i \in File : i # index /\ i # index - 1 => kept'[i] = kept[i]
    BY <1>0, <2>1, <2>2
  <2> QED
    BY <2>1, <2>3, <2>4, <2>5
<1>3. /\ UNCHANGED <<size, written, records, starts, damaged, renameFailed>>
      /\ step = "rename"
      /\ index = 0 => step' = "makeLog" /\ index' = index
      /\ index # 0 => step' = "remove" /\ index' = index - 1
  BY DEF Sink!Rename, Sink!NextIndex
<1>4. SinkTypes'
  <2>1. <<>> \in Seq(AnyByte)
    OBVIOUS
  <2> QED
    BY <1>0, <1>1, <1>2, <1>3, <2>1 DEF SinkTypes, Sink!Steps
<1>5. Emptied'
  BY <1>0, <1>1, <1>2, <1>3 DEF Emptied
<1>6. WrittenSoFar'
  <2>1. \A i \in File : kept'[i] = <<>> \/ kept'[i] = log \/ \E j \in File : kept'[i] = kept[j]
    BY <1>0, <1>1, <1>2
  <2>2. log' = <<>> \/ log' = log
    BY <1>1, <1>2
  <2>3. step' # "writing"
    BY <1>3
  <2> QED
    BY <1>3, <2>1, <2>2, <2>3 DEF WrittenSoFar
<1>7. ReadBack'
  <2>1. OrderIn(F) /\ ApartIn(F) /\ (~renameFailed => ~GapsIn(F, records, written, damaged))
    BY DEF ReadBack
  <2>2. p \in Places /\ p - 1 \in Places /\ p - 1 = Keep - index
    BY <1>0, SinkAssumption DEF Places, File, Sink!Oldest
  <2>3. F \in [Places -> Seq(AnyByte)] /\ F[Keep + 1] = log /\ \A j \in Places : j # Keep + 1 => Keep - j \in File /\ F[j] = kept[Keep - j]
    BY <1>0, FilesAre
  <2>4. G \in [Places -> Seq(AnyByte)] /\ G[Keep + 1] = log' /\ \A j \in Places : j # Keep + 1 => Keep - j \in File /\ G[j] = kept'[Keep - j]
    <3>1. log' \in Seq(AnyByte) /\ kept' \in [File -> Seq(AnyByte)]
      BY <1>4 DEF SinkTypes
    <3> QED
      BY <3>1, FilesAre
  <2> HIDE DEF F, G
  <2>5. G[p] = <<>> /\ G[p - 1] = F[p] /\ F[p - 1] = kept[index]
    <3>1. p - 1 # Keep + 1 /\ Keep - (p - 1) = index
      BY <1>0, SinkAssumption DEF File
    <3>2. CASE index = 0
      <4>1. p = Keep + 1
        BY <3>2, SinkAssumption
      <4> QED
        BY <1>1, <2>2, <2>3, <2>4, <3>1, <3>2, <4>1
    <3>3. CASE index # 0
      <4>1. p # Keep + 1 /\ Keep - p = index - 1
        BY <1>0, <3>3, SinkAssumption DEF File
      <4> QED
        BY <1>2, <2>2, <2>3, <2>4, <3>1, <3>3, <4>1
    <3> QED
      BY <3>2, <3>3
  <2>6. ASSUME NEW j \in Places, j # p, j # p - 1
        PROVE  G[j] = F[j]
    <3>1. j \in Int
      BY DEF Places
    <3>2. CASE j = Keep + 1
      <4>1. index # 0
        BY <1>0, <2>6, <3>2, SinkAssumption
      <4> QED
        BY <1>2, <2>3, <2>4, <3>2, <4>1
    <3>3. CASE j # Keep + 1
      <4>1. Keep - j \in File /\ Keep - j # index /\ (index # 0 => Keep - j # index - 1)
        BY <1>0, <2>3, <2>6, <3>1, <3>3, SinkAssumption DEF File
      <4>2. kept'[Keep - j] = kept[Keep - j]
        BY <1>1, <1>2, <4>1
      <4> QED
        BY <2>3, <2>4, <3>3, <4>2
    <3> QED
      BY <3>2, <3>3
  <2> HIDE DEF p
  <2>7. /\ OrderIn(G) /\ ApartIn(G)
        /\ \A r : OlderIn(G, r) => OlderIn(F, r)
    BY <2>1, <2>2, <2>3, <2>4, <2>5, <2>6, TakenOver
  <2>8. ASSUME ~renameFailed PROVE ~GapsIn(G, records, written, damaged)
    <3> DEFINE E == [F EXCEPT ![p - 1] = <<>>]
    <3>1. p \in Int /\ p # p - 1
      BY <2>2 DEF Places
    <3>2. /\ E \in [Places -> Seq(AnyByte)] /\ E[p - 1] = <<>> /\ E[p] = F[p]
          /\ \A j \in Places : j # p /\ j # p - 1 => E[j] = F[j]
      BY <2>2, <2>3, <3>1
    <3>3. OrderIn(E) /\ ApartIn(E) /\ \A r : OlderIn(E, r) => OlderIn(F, r)
      BY <2>1, <2>2, <2>3, Cleared
    <3>4. ~GapsIn(E, records, written, damaged)
      <4>1. CASE index = Sink!Oldest
        <5>1. p - 1 = 1
          BY <2>2, <4>1, SinkAssumption DEF Sink!Oldest
        <5>2. ASSUME NEW r \in 1..records, NEW k \in 1..Parts, OlderIn(E, r), IsIn(F, Sink!Byte(r, k))
              PROVE  IsIn(E, Sink!Byte(r, k))
          <6>1. r \in Nat /\ k \in Nat
            BY SinkAssumption DEF SinkTypes
          <6> QED
            BY <2>1, <2>3, <5>1, <5>2, <6>1, OldestCleared
        <5> QED
          BY <2>1, <2>8, <3>3, <5>2, NothingMissing
      <4>2. CASE index # Sink!Oldest
        <5>1. F[p - 1] = <<>>
          BY <1>3, <2>5, <2>8, <4>2 DEF Emptied
        <5>2. E = F
          BY <2>2, <2>3, <5>1
        <5> QED
          BY <2>1, <2>8, <5>2
      <4> QED
        BY <4>1, <4>2
    <3> HIDE DEF E
    <3>5. /\ \A r : OlderIn(G, r) => OlderIn(E, r)
          /\ \A byte : IsIn(E, byte) => IsIn(G, byte)
      BY <2>2, <2>4, <2>5, <2>6, <3>2, <3>3, TakenOver
    <3> QED
      BY <3>4, <3>5, NothingMissing
  <2> QED
    BY <1>3, <2>7, <2>8 DEF ReadBack, G
<1> QED
  BY <1>4, <1>5, <1>6, <1>7

\* makeLog(): the log is truncated, and holds nothing unless a rename failed.
LEMMA MakeLogStep == SinkInv /\ Sink!MakeLog => SinkInv'
<1> SUFFICES ASSUME SinkInv, Sink!MakeLog PROVE SinkInv'
  OBVIOUS
<1> USE DEF SinkInv
<1> DEFINE F == FilesOf(log, kept)
           G == FilesOf(log', kept')
<1>1. /\ step = "makeLog" /\ step' = "ready" /\ log' = <<>>
      /\ UNCHANGED <<index, kept, written, records, starts, damaged, renameFailed>>
      /\ log \in Seq(AnyByte) /\ log' \in Seq(AnyByte) /\ kept \in [File -> Seq(AnyByte)]
  BY DEF Sink!MakeLog, SinkTypes
<1>2. SinkTypes' /\ Emptied' /\ WrittenSoFar'
  BY <1>1 DEF SinkTypes, Sink!Steps, Emptied, WrittenSoFar
<1>3. ReadBack'
  <2>1. OrderIn(F) /\ ApartIn(F) /\ (~renameFailed => ~GapsIn(F, records, written, damaged))
    BY DEF ReadBack
  <2>2. F \in [Places -> Seq(AnyByte)] /\ Keep + 1 \in Places /\ F[Keep + 1] = log
    BY <1>1, FilesAre
  <2>3. G = [F EXCEPT ![Keep + 1] = <<>>]
    <3>0. log \in Seq(AnyByte) /\ log' \in Seq(AnyByte) /\ kept \in [File -> Seq(AnyByte)]
      BY <1>1
    <3>1. FilesOf(log', kept) = [F EXCEPT ![Keep + 1] = log']
      BY <3>0, LogReplaced
    <3> QED
      BY <1>1, <3>1
  <2> HIDE DEF F, G
  <2>4. OrderIn(G) /\ ApartIn(G) /\ \A r : OlderIn(G, r) => OlderIn(F, r)
    BY <2>1, <2>2, <2>3, Cleared
  <2>5. ASSUME ~renameFailed PROVE ~GapsIn(G, records, written, damaged)
    <3>1. CASE Keep = 0
      <4>1. Keep + 1 = 1
        BY <3>1
      <4>2. ASSUME NEW r \in 1..records, NEW k \in 1..Parts, OlderIn(G, r), IsIn(F, Sink!Byte(r, k))
            PROVE  IsIn(G, Sink!Byte(r, k))
        <5>1. r \in Nat /\ k \in Nat
          BY SinkAssumption DEF SinkTypes
        <5> QED
          BY <2>1, <2>2, <2>3, <4>1, <4>2, <5>1, OldestCleared
      <4> QED
        BY <2>1, <2>4, <2>5, <4>2, NothingMissing
    <3>2. CASE Keep # 0
      <4>1. log = <<>>
        BY <1>1, <2>5, <3>2 DEF Emptied
      <4>2. G = F
        BY <2>2, <2>3, <4>1
      <4> QED
        BY <2>1, <2>5, <4>2
    <3> QED
      BY <3>1, <3>2
  <2> QED
    BY <1>1, <2>4, <2>5 DEF ReadBack, G
<1> QED
  BY <1>2, <1>3

\* The other steps of the rotation leave the files alone, and so does the end of the
\* process or of a record.
LEMMA FilesStay ==
    ASSUME SinkInv, SinkTypes', log' = log, kept' = kept, records' = records, written' = written,
           damaged \subseteq damaged', renameFailed => renameFailed', step' # "writing",
           ~renameFailed' /\ step' \in {"remove", "rename"} => index' = Sink!Oldest \/ kept[index'] = <<>>,
           ~renameFailed' /\ step' = "makeLog" /\ Keep # 0 => log = <<>>,
           step = "writing" => records \in damaged' \/ written = Parts
    PROVE  SinkInv'
<1> USE DEF SinkInv
<1>1. Emptied'
  BY DEF Emptied
<1>2. WrittenSoFar'
  BY DEF WrittenSoFar
<1>3. ReadBack'
  <2>1. ~renameFailed' => ~GapsIn(FilesOf(log, kept), records, written, damaged')
    BY DEF ReadBack, GapsIn
  <2> QED
    BY <2>1 DEF ReadBack
<1> QED
  BY <1>1, <1>2, <1>3

\* Errors, the end of a record, a kill and a start leave the files.
LEMMA OtherSinkSteps ==
    SinkInv /\ (Sink!RemoveFails \/ Sink!RenameFails \/ Sink!MakeLogFails \/ Sink!WriteFails \/ Sink!EndWrite \/ Sink!Kill \/ Sink!Start) => SinkInv'
<1> SUFFICES ASSUME SinkInv
             PROVE  Sink!RemoveFails \/ Sink!RenameFails \/ Sink!MakeLogFails \/ Sink!WriteFails \/ Sink!EndWrite \/ Sink!Kill \/ Sink!Start
                       => SinkInv'
  OBVIOUS
<1>0. SinkTypes /\ Sink!Oldest \in Int /\ (Keep # 0 => Sink!Oldest \in File)
  BY SinkAssumption DEF SinkInv, File, Sink!Oldest
<1> USE DEF Sink!Steps
<1>1. ASSUME Sink!RenameFails PROVE SinkInv'
  <2>1. index \in File /\ (index # 0 => index - 1 \in File)
    BY <1>0, <1>1 DEF Sink!RenameFails, SinkTypes, File
  <2>2. SinkTypes'
    BY <1>0, <1>1, <2>1 DEF Sink!RenameFails, Sink!NextIndex, SinkTypes, File
  <2>3. /\ step = "rename" /\ UNCHANGED <<log, kept, size, written, records, starts, damaged>>
        /\ renameFailed' = (renameFailed \/ Sink!Moving # <<>>)
        /\ index = 0 => step' = "makeLog" /\ index' = index
        /\ index # 0 => step' = "remove" /\ index' = index - 1
    BY <1>1 DEF Sink!RenameFails, Sink!NextIndex
  <2>4. ~renameFailed' => (index = 0 => log = <<>>) /\ (index # 0 => kept[index - 1] = <<>>)
    BY <2>3 DEF Sink!Moving, Sink!Source
  <2> QED
    BY <2>2, <2>3, <2>4, FilesStay
<1>7. ASSUME Sink!RemoveFails PROVE SinkInv'
  <2>1. SinkTypes'
    BY <1>0, <1>7 DEF Sink!RemoveFails, SinkTypes
  <2>2. ~renameFailed => index = Sink!Oldest \/ kept[index] = <<>>
    BY <1>7 DEF Sink!RemoveFails, SinkInv, Emptied
  <2> QED
    BY <1>7, <2>1, <2>2, FilesStay DEF Sink!RemoveFails
<1>2. ASSUME Sink!MakeLogFails PROVE SinkInv'
  <2>1. SinkTypes'
    BY <1>0, <1>2 DEF Sink!MakeLogFails, SinkTypes
  <2> QED
    BY <1>2, <2>1, FilesStay DEF Sink!MakeLogFails
<1>3. ASSUME Sink!WriteFails PROVE SinkInv'
  <2>1. SinkTypes'
    BY <1>0, <1>3 DEF Sink!WriteFails, SinkTypes
  <2> QED
    BY <1>3, <2>1, FilesStay DEF Sink!WriteFails
<1>4. ASSUME Sink!EndWrite PROVE SinkInv'
  <2>1. SinkTypes'
    BY <1>0, <1>4 DEF Sink!EndWrite, Sink!BeginRotation, SinkTypes
  <2> QED
    BY <1>4, <2>1, FilesStay DEF Sink!EndWrite, Sink!BeginRotation
<1>5. ASSUME Sink!Kill PROVE SinkInv'
  <2>1. SinkTypes'
    BY <1>0, <1>5 DEF Sink!Kill, SinkTypes
  <2>2. step = "writing" => records \in damaged' \/ written = Parts
    BY <1>0, <1>5, SinkAssumption DEF Sink!Kill, SinkTypes
  <2> QED
    BY <1>5, <2>1, <2>2, FilesStay DEF Sink!Kill
<1>6. ASSUME Sink!Start PROVE SinkInv'
  <2>1. SinkTypes'
    BY <1>0, <1>6 DEF Sink!Start, Sink!AtStart, Sink!BeginRotation, SinkTypes
  <2> QED
    BY <1>6, <2>1, FilesStay DEF Sink!Start, Sink!AtStart, Sink!BeginRotation
<1> QED
  BY <1>1, <1>2, <1>3, <1>4, <1>5, <1>6, <1>7

-----------------------------------------------------------------------------
(***************************************************************************)
(* The writing of a record.                                                *)
(***************************************************************************)
LEMMA BeginWriteStep == SinkInv /\ Sink!BeginWrite => SinkInv'
<1> SUFFICES ASSUME SinkInv, Sink!BeginWrite PROVE SinkInv'
  OBVIOUS
<1> USE DEF SinkInv
<1>1. /\ step = "ready" /\ step' = "writing" /\ records' = records + 1 /\ written' = 0
      /\ UNCHANGED <<index, log, kept, size, starts, damaged, renameFailed>>
      /\ records \in Nat
      /\ log \in Seq(AnyByte) /\ kept \in [File -> Seq(AnyByte)]
  BY DEF Sink!BeginWrite, SinkTypes
<1>2. SinkTypes' /\ Emptied'
  BY <1>1, SinkAssumption DEF SinkTypes, Sink!Steps, Emptied
<1>3. WrittenSoFar'
  <2>1. ASSUME NEW i \in File, NEW k \in DOMAIN kept[i]
        PROVE  kept[i][k].record <= records' /\ kept[i][k].record # records'
    <3>1. kept[i][k] \in AnyByte /\ kept[i][k].record <= records
      BY <1>1 DEF WrittenSoFar
    <3> QED
      BY <1>1, <3>1 DEF AnyByte
  <2>2. ASSUME NEW k \in DOMAIN log
        PROVE  log[k].record <= records' /\ log[k].record # records'
    <3>1. log[k] \in AnyByte /\ log[k].record <= records
      BY <1>1 DEF WrittenSoFar
    <3> QED
      BY <1>1, <3>1 DEF AnyByte
  <2> QED
    BY <1>1, <2>1, <2>2 DEF WrittenSoFar
<1>4. ReadBack'
  <2> DEFINE F == FilesOf(log, kept)
  <2>1. OrderIn(F) /\ ApartIn(F) /\ (~renameFailed => ~GapsIn(F, records, written, damaged))
    BY DEF ReadBack
  <2> HIDE DEF F
  <2>2. ASSUME ~renameFailed, GapsIn(F, records', written', damaged') PROVE FALSE
    <3>1. PICK r \in 1..(records + 1) :
            /\ OlderIn(F, r) /\ r \notin damaged /\ r # records + 1
            /\ \E k \in 1..Parts : ~IsIn(F, Sink!Byte(r, k))
      BY <1>1, <2>2, SinkAssumption DEF GapsIn
    <3>2. r \in 1..records
      BY <1>1, <3>1
    <3>3. r = records => written = Parts
      BY <1>1, <3>1, <3>2 DEF WrittenSoFar
    <3> QED
      BY <2>1, <2>2, <3>1, <3>2, <3>3 DEF GapsIn
  <2> QED
    BY <1>1, <2>1, <2>2 DEF ReadBack, F
<1> QED
  BY <1>2, <1>3, <1>4

\* ::write(): the bytes that come next go to the end of the log.
LEMMA WriteSomeStep == SinkInv /\ Sink!WriteSome => SinkInv'
<1> SUFFICES ASSUME SinkInv, Sink!WriteSome PROVE SinkInv'
  OBVIOUS
<1> USE DEF SinkInv
<1>1. /\ step = "writing" /\ step' = "writing"
      /\ UNCHANGED <<index, kept, size, records, starts, damaged, renameFailed>>
      /\ records \in Nat /\ written \in Nat /\ log \in Seq(AnyByte) /\ kept \in [File -> Seq(AnyByte)]
  BY SinkAssumption DEF Sink!WriteSome, SinkTypes
<1>2. PICK n \in 1..(Parts - written) : log' = log \o Sink!Portion(n) /\ written' = written + n
  BY DEF Sink!WriteSome
<1>3. n \in Nat /\ written' \in 0..Parts /\ written' \in Nat
  BY <1>1, <1>2, SinkAssumption DEF SinkTypes
<1> DEFINE b == Sink!Portion(n)
<1>4. b \in Seq(AnyByte) /\ Len(b) = n /\ \A k \in 1..n : b[k] = Sink!Byte(records, written + k)
  <2>1. (written + n) - (written + 1) + 1 = n /\ \A k \in 1..n : written + 1 + k - 1 = written + k /\ written + k \in Nat
    BY <1>1, <1>3
  <2>2. b = [k \in 1..n |-> Sink!Byte(records, written + 1 + k - 1)]
    BY <2>1 DEF Sink!Portion, Sink!Bytes
  <2>3. \A k \in 1..n : Sink!Byte(records, written + 1 + k - 1) \in AnyByte
    BY <1>1, <2>1 DEF Sink!Byte, AnyByte
  <2>4. b \in [1..n -> AnyByte]
    BY <2>2, <2>3
  <2>5. b \in Seq(AnyByte) /\ Len(b) = n
    BY <1>3, <2>4
  <2> QED
    BY <2>1, <2>2, <2>5
<1> HIDE DEF b
<1>5. /\ log' \in Seq(AnyByte) /\ Len(log') = Len(log) + n /\ Len(log) \in Nat
      /\ \A k \in DOMAIN log : k \in DOMAIN log' /\ log'[k] = log[k]
      /\ \A k \in DOMAIN log' : k \notin DOMAIN log =>
            k - Len(log) \in 1..n /\ log'[k] = Sink!Byte(records, written + (k - Len(log)))
  <2>1. log' = log \o b
    BY <1>2 DEF b
  <2>2. log' \in Seq(AnyByte) /\ Len(log') = Len(log) + Len(b)
        /\ \A k \in 1..(Len(log) + Len(b)) : log'[k] = IF k <= Len(log) THEN log[k] ELSE b[k - Len(log)]
    BY <1>1, <1>4, <2>1, ConcatProperties
  <2>3. DOMAIN log = 1..Len(log) /\ DOMAIN log' = 1..(Len(log) + n) /\ Len(log) \in Nat
    BY <1>1, <1>4, <2>2
  <2>4. ASSUME NEW k \in DOMAIN log' , k \notin DOMAIN log
        PROVE  k - Len(log) \in 1..n /\ log'[k] = b[k - Len(log)]
    BY <1>3, <1>4, <2>2, <2>3, <2>4
  <2> QED
    BY <1>3, <1>4, <2>2, <2>3, <2>4
<1> DEFINE new == {k \in DOMAIN log' : k \notin DOMAIN log}
           at(k) == written + (k - Len(log))
<1>6. ASSUME NEW k \in new
      PROVE  /\ k \in Nat /\ log'[k].record = records /\ log'[k].at = at(k)
             /\ at(k) \in Nat /\ at(k) > written /\ at(k) <= written'
             /\ \A l \in DOMAIN log : l < k
  <2>1. k - Len(log) \in 1..n /\ log'[k] = Sink!Byte(records, written + (k - Len(log)))
    BY <1>5
  <2>2. k \in Nat /\ k > Len(log) /\ \A l \in DOMAIN log : l <= Len(log) /\ l \in Nat
    BY <1>1, <1>5, <2>1
  <2> QED
    BY <1>1, <1>2, <1>3, <2>1, <2>2 DEF Sink!Byte
<1>7. SinkTypes' /\ Emptied'
  <2>1. log' \in Seq(AnyByte) /\ written' \in 0..Parts
    BY <1>3, <1>5
  <2> QED
    BY <1>1, <2>1 DEF SinkTypes, Emptied
<1>8. WrittenSoFar'
  <2>1. ASSUME NEW k \in DOMAIN log'
        PROVE  log'[k].record <= records /\ (log'[k].record = records => log'[k].at <= written')
    <3>1. CASE k \in new
      BY <1>1, <1>6, <3>1
    <3>2. CASE k \notin new
      <4>1. k \in DOMAIN log /\ log'[k] = log[k] /\ log[k] \in AnyByte
        BY <1>1, <1>5, <3>2
      <4>2. log[k].record <= records /\ (log[k].record = records => log[k].at <= written) /\ log[k].at \in Nat
        BY <1>1, <4>1 DEF WrittenSoFar, AnyByte
      <4> QED
        BY <1>1, <1>2, <1>3, <4>1, <4>2
    <3> QED
      BY <3>1, <3>2
  <2>2. ASSUME NEW k \in 1..written'
        PROVE  \E l \in DOMAIN log' : log'[l] = Sink!Byte(records, k)
    <3>1. CASE k <= written
      <4>1. k \in 1..written
        BY <1>1, <1>3, <3>1
      <4>2. PICK l \in DOMAIN log : log[l] = Sink!Byte(records, k)
        BY <1>1, <4>1 DEF WrittenSoFar
      <4> QED
        BY <1>5, <4>2
    <3>2. CASE ~(k <= written)
      <4> DEFINE l == Len(log) + (k - written)
      <4>1. k \in Nat /\ k - written \in 1..n /\ l \in Nat /\ l - Len(log) = k - written /\ written + (k - written) = k
        BY <1>1, <1>2, <1>3, <1>5, <3>2
      <4>2. l \in 1..(Len(log) + n) /\ l \notin 1..Len(log)
        BY <1>3, <1>5, <4>1
      <4>3. DOMAIN log = 1..Len(log) /\ DOMAIN log' = 1..(Len(log) + n)
        BY <1>1, <1>5
      <4> HIDE DEF l
      <4>4. log'[l] = Sink!Byte(records, written + (l - Len(log)))
        BY <1>5, <4>2, <4>3
      <4> QED
        BY <4>1, <4>2, <4>3, <4>4
    <3> QED
      BY <3>1, <3>2
  <2> QED
    BY <1>1, <2>1, <2>2 DEF WrittenSoFar
<1> DEFINE F == FilesOf(log, kept)
           G == FilesOf(log', kept)
<1>9. OrderIn(F) /\ ApartIn(F) /\ (~renameFailed => ~GapsIn(F, records, written, damaged))
  BY DEF ReadBack
<1>10. /\ F \in [Places -> Seq(AnyByte)] /\ Keep + 1 \in Places /\ F[Keep + 1] = log
       /\ \A j \in Places : j # Keep + 1 => Keep - j \in File /\ F[j] = kept[Keep - j]
  BY <1>1, FilesAre
<1>11. /\ G \in [Places -> Seq(AnyByte)] /\ G[Keep + 1] = log'
       /\ \A j \in Places : j # Keep + 1 => Keep - j \in File /\ G[j] = kept[Keep - j]
  BY <1>1, <1>5, FilesAre
<1> HIDE DEF F, G
\* What is in G is in F, or new.
<1>12. ASSUME NEW i \in Places, NEW k \in DOMAIN G[i]
       PROVE  \/ k \in DOMAIN F[i] /\ G[i][k] = F[i][k]
              \/ i = Keep + 1 /\ k \in new /\ G[i][k] = log'[k]
  BY <1>5, <1>10, <1>11
<1>13. ASSUME NEW i \in Places, NEW k \in DOMAIN F[i]
       PROVE  k \in DOMAIN G[i] /\ G[i][k] = F[i][k]
  BY <1>5, <1>10, <1>11
\* What was in the files is from before.
<1>14. ASSUME NEW i \in Places, NEW k \in DOMAIN F[i]
       PROVE  /\ F[i][k] \in AnyByte
              /\ F[i][k].record < records \/ (i = Keep + 1 /\ F[i][k].record = records /\ F[i][k].at <= written)
              /\ i # Keep + 1 => F[i][k].record # records
  <2>1. F[i][k] \in AnyByte
    BY <1>10
  <2>2. CASE i = Keep + 1
    <3>1. F[i][k].record <= records /\ (F[i][k].record = records => F[i][k].at <= written)
      BY <1>1, <1>10, <2>2 DEF WrittenSoFar
    <3> QED
      BY <1>1, <2>1, <2>2, <3>1 DEF AnyByte
  <2>3. CASE i # Keep + 1
    <3>1. F[i][k].record <= records /\ F[i][k].record # records
      BY <1>1, <1>10, <2>3 DEF WrittenSoFar
    <3> QED
      BY <1>1, <2>1, <2>3, <3>1 DEF AnyByte
  <2> QED
    BY <2>1, <2>2, <2>3
<1> HIDE DEF new, at
<1>15. OrderIn(G)
  <2> SUFFICES ASSUME NEW i \in Places, NEW j \in Places, NEW k \in DOMAIN G[i], NEW l \in DOMAIN G[j],
                      i < j \/ (i = j /\ k < l)
               PROVE  Sink!Before(G[i][k], G[j][l])
    BY DEF OrderIn
  <2>0. i \in Int /\ j \in Int /\ j <= Keep + 1 /\ i <= Keep + 1 /\ k \in Int /\ l \in Int
    BY <1>11, SinkAssumption DEF Places
  <2>1. CASE k \in DOMAIN F[i] /\ G[i][k] = F[i][k] /\ l \in DOMAIN F[j] /\ G[j][l] = F[j][l]
    BY <1>9, <2>1 DEF OrderIn
  <2>2. CASE k \in DOMAIN F[i] /\ G[i][k] = F[i][k] /\ j = Keep + 1 /\ l \in new /\ G[j][l] = log'[l]
    <3>1. F[i][k] \in AnyByte /\ (F[i][k].record < records \/ (F[i][k].record = records /\ F[i][k].at <= written))
      BY <1>14, <2>2
    <3>2. G[j][l].record = records /\ G[j][l].at = at(l) /\ at(l) \in Nat /\ at(l) > written
      BY <1>6, <2>2
    <3> QED
      BY <1>1, <2>2, <3>1, <3>2 DEF Sink!Before, AnyByte
  <2>3. CASE i = Keep + 1 /\ k \in new /\ G[i][k] = log'[k]
    <3>1. i = j /\ k < l
      BY <2>0, <2>3, SinkAssumption
    <3>2. l \in new /\ G[j][l] = log'[l]
      <4>1. l \in DOMAIN F[j] => l \in DOMAIN log
        BY <1>10, <2>3, <3>1
      <4>2. \A m \in DOMAIN log : m < k
        BY <1>6, <2>3
      <4>3. l \notin DOMAIN F[j]
        BY <2>0, <3>1, <4>1, <4>2
      <4> QED
        BY <1>12, <4>3
    <3>3. at(k) < at(l) /\ at(k) \in Nat /\ at(l) \in Nat
      BY <1>1, <1>5, <1>6, <2>3, <3>1, <3>2 DEF at
    <3>4. G[i][k].record = records /\ G[i][k].at = at(k) /\ G[j][l].record = records /\ G[j][l].at = at(l)
      BY <1>6, <2>3, <3>2
    <3> QED
      BY <3>3, <3>4 DEF Sink!Before
  <2> QED
    BY <1>12, <2>1, <2>2, <2>3
<1>16. ApartIn(G)
  <2> SUFFICES ASSUME NEW i \in Places, NEW j \in Places, NEW k \in DOMAIN G[i], NEW l \in DOMAIN G[j], i # j
               PROVE  G[i][k].record # G[j][l].record
    BY DEF ApartIn
  <2>1. CASE k \in DOMAIN F[i] /\ G[i][k] = F[i][k] /\ l \in DOMAIN F[j] /\ G[j][l] = F[j][l]
    BY <1>9, <2>1 DEF ApartIn
  <2>2. CASE i = Keep + 1 /\ k \in new /\ G[i][k] = log'[k]
    <3>1. l \in DOMAIN F[j] /\ G[j][l] = F[j][l]
      BY <1>12, <2>2
    <3> QED
      BY <1>6, <1>14, <2>2, <3>1
  <2>3. CASE j = Keep + 1 /\ l \in new /\ G[j][l] = log'[l]
    <3>1. k \in DOMAIN F[i] /\ G[i][k] = F[i][k]
      BY <1>12, <2>3
    <3> QED
      BY <1>6, <1>14, <2>3, <3>1
  <2> QED
    BY <1>12, <2>1, <2>2, <2>3
<1>17. ASSUME ~renameFailed, GapsIn(G, records, written', damaged) PROVE FALSE
  <2>1. PICK r \in 1..records : /\ OlderIn(G, r) /\ r \notin damaged /\ (r = records => written' = Parts)
                                /\ \E k \in 1..Parts : ~IsIn(G, Sink!Byte(r, k))
    BY <1>17 DEF GapsIn
  <2>2. PICK k \in 1..Parts : ~IsIn(G, Sink!Byte(r, k))
    BY <2>1
  <2>3. OlderIn(F, r)
    <3>1. PICK i \in Places : \E l \in DOMAIN G[i] : G[i][l].record < r
      BY <2>1 DEF OlderIn
    <3>2. PICK l \in DOMAIN G[i] : G[i][l].record < r
      BY <3>1
    <3>3. ~(l \in new /\ G[i][l] = log'[l])
      BY <1>1, <1>6, <3>2
    <3> QED
      BY <1>12, <3>2, <3>3 DEF OlderIn
  <2>4. r # records
    <3> SUFFICES ASSUME r = records PROVE FALSE
      OBVIOUS
    <3>1. k \in 1..written'
      BY <2>1
    <3>2. PICK l \in DOMAIN log' : log'[l] = Sink!Byte(r, k)
      BY <1>1, <1>8, <3>1 DEF WrittenSoFar
    <3> QED
      BY <1>10, <1>11, <2>2, <3>2 DEF IsIn
  <2>5. IsIn(F, Sink!Byte(r, k))
    BY <1>9, <1>17, <2>1, <2>3, <2>4 DEF GapsIn
  <2> QED
    BY <1>13, <2>2, <2>5 DEF IsIn
<1>18. ReadBack'
  BY <1>1, <1>15, <1>16, <1>17 DEF ReadBack, G
<1> QED
  BY <1>7, <1>8, <1>18

-----------------------------------------------------------------------------
\* The steps together.
LEMMA SinkNext == SinkInv /\ [Sink!Next]_(Sink!vars) => SinkInv'
<1> SUFFICES ASSUME SinkInv, [Sink!Next]_(Sink!vars) PROVE SinkInv'
  OBVIOUS
<1>1. ASSUME UNCHANGED Sink!vars PROVE SinkInv'
  BY <1>1 DEF Sink!vars, SinkInv, SinkTypes, Emptied, WrittenSoFar, ReadBack
<1>2. ASSUME Sink!Ended PROVE SinkInv'
  BY <1>1, <1>2 DEF Sink!Ended
<1> QED
  BY <1>1, <1>2, RemoveDestStep, RenameStep, MakeLogStep, OtherSinkSteps, BeginWriteStep,
     WriteSomeStep
     DEF Sink!Next, Sink!Rotate, Sink!Write

\* There are no files at the start.
LEMMA SinkStart == Sink!Init => SinkInv
<1> SUFFICES ASSUME Sink!Init PROVE SinkInv
  OBVIOUS
<1>1. <<>> \in Seq(AnyByte) /\ log = <<>> /\ kept = [i \in File |-> <<>>]
  BY DEF Sink!Init, File
<1>2. SinkTypes
  <2>1. log \in Seq(AnyByte) /\ kept \in [File -> Seq(AnyByte)]
    BY <1>1
  <2>2. written \in 0..Parts
    BY SinkAssumption DEF Sink!Init
  <2>3. step = "down" /\ index = 0 /\ records = 0
    BY DEF Sink!Init
  <2>4. renameFailed \in BOOLEAN
    BY DEF Sink!Init
  <2> QED
    BY <2>1, <2>2, <2>3, <2>4 DEF SinkTypes, Sink!Steps
<1>6. \A i \in File : kept[i] = <<>>
  BY <1>1
<1>7. Emptied /\ WrittenSoFar
  <2>1. \A i \in File : DOMAIN kept[i] = {}
    BY <1>6
  <2>2. DOMAIN log = {}
    BY <1>1
  <2> QED
    BY <2>1, <2>2 DEF Sink!Init, Emptied, WrittenSoFar
<1> DEFINE F == FilesOf(log, kept)
<1>3. \A i \in Places : F[i] = <<>>
  <2>1. log \in Seq(AnyByte) /\ kept \in [File -> Seq(AnyByte)]
    BY <1>2 DEF SinkTypes
  <2>2. F[Keep + 1] = log /\ \A j \in Places : j # Keep + 1 => Keep - j \in File /\ F[j] = kept[Keep - j]
    BY <2>1, FilesAre
  <2> QED
    BY <1>1, <1>6, <2>2
<1> HIDE DEF F
<1>4. \A i \in Places : DOMAIN F[i] = {}
  BY <1>3
<1>5. OrderIn(F) /\ ApartIn(F) /\ ~GapsIn(F, records, written, damaged)
  BY <1>4 DEF OrderIn, ApartIn, GapsIn, OlderIn
<1> QED
  BY <1>2, <1>5, <1>7 DEF SinkInv, ReadBack, F

-----------------------------------------------------------------------------
(***************************************************************************)
(* ProcessCollector.                                                       *)
(***************************************************************************)
\* The fields with a file of their own, in the order they are read.
Optional == {"Comm", "CmdLine", "Exe", "UserName", "Env"}
Reading == Optional \union {"done"}

\* The fields that the collector has come past.
ReadBy(c) ==
    FromStat \union {"Pid", "Ruid"} \union
        (CASE c = "Comm" -> {}
           [] c = "CmdLine" -> {"Comm"}
           [] c = "Exe" -> {"Comm", "CmdLine"}
           [] c = "UserName" -> {"Comm", "CmdLine", "Exe"}
           [] c = "Env" -> {"Comm", "CmdLine", "Exe", "UserName"}
           [] OTHER -> Optional)

\* The types; while there is a process, it is the last one born.
CollectorTypes ==
    /\ process \in Nat /\ born \in Nat /\ program \in Nat
    /\ process # 0 => process = born
    /\ pc \in {"idle", "owner", "stat", "error"} \union Reading
    /\ mask \subseteq Collector!Fields
    /\ owner \in Nat \X Nat /\ stat \in Nat \X Nat /\ first \in Nat \X Nat

\* What had the pid when the call began is not newer than what has it now.
FirstIsOldest ==
    /\ first[1] <= born
    /\ process # 0 /\ first[1] = process => first[2] <= program
    /\ pc = "idle" => first = Collector!Nothing
    /\ pc = "error" => first[1] = 0 \/ process = 0 \/ process > first[1]

\* The directory and the file stat were those of a process.
StatIsOne ==
    /\ pc \in {"stat"} \union Reading => first[1] <= owner[1] /\ (Collector!Steady => owner = Collector!Now)
    /\ pc \in Reading => /\ 1 <= stat[1] /\ stat[1] <= born
                         /\ Collector!Steady => stat = Collector!Now

\* The fields set so far.
OutIsRead ==
    pc \in Reading =>
        /\ {"Pid"} \union (mask \intersect (FromStat \union {"Ruid"})) \subseteq DOMAIN out
        /\ pc # "Comm" => mask \intersect {"Comm"} \subseteq DOMAIN out
        /\ DOMAIN out \subseteq (mask \union {"Pid"}) \intersect ReadBy(pc)
        /\ \A f \in DOMAIN out :
            /\ f \in FromStat \union {"Pid"} => out[f] = stat
            /\ \/ out[f] = Collector!Empty
               \/ out[f][1] >= stat[1]
               \/ f \in {"Ruid", "UserName"} /\ out[f][1] >= first[1]
        /\ Collector!Steady =>
            /\ DOMAIN out = Collector!Has(process) \intersect ReadBy(pc)
            /\ \A f \in DOMAIN out : out[f] \in {Collector!Now, Collector!Empty}

CollectorInv == CollectorTypes /\ FirstIsOldest /\ StatIsOne /\ OutIsRead

-----------------------------------------------------------------------------
\* The files come one after the other.
LEMMA FilesFollow ==
    ASSUME NEW c \in Optional
    PROVE  /\ Collector!After(c) \in Reading \ {"Comm"}
           /\ ReadBy(Collector!After(c)) = ReadBy(c) \union {c}
           /\ c \notin ReadBy(c)
<1> DEFINE place(f) == CHOOSE i \in 1..7 : Collector!Files[i] = f
<1>1. \A i \in 1..7 : i = 1 \/ i = 2 \/ i = 3 \/ i = 4 \/ i = 5 \/ i = 6 \/ i = 7
  OBVIOUS
<1>2. /\ Collector!Files[1] = "owner" /\ Collector!Files[2] = "stat" /\ Collector!Files[3] = "Comm"
      /\ Collector!Files[4] = "CmdLine" /\ Collector!Files[5] = "Exe" /\ Collector!Files[6] = "UserName"
      /\ Collector!Files[7] = "Env" /\ Collector!Files[8] = "done"
  BY DEF Collector!Files
<1>3. ASSUME NEW f, NEW i \in 1..7, Collector!Files[i] = f, \A j \in 1..7 : Collector!Files[j] = f => j = i
      PROVE  place(f) = i
  BY <1>3
<1>4. Collector!After(c) = Collector!Files[1 + place(c)]
  BY DEF Collector!After
<1> HIDE DEF place
<1>5. CASE c = "Comm"
  <2>1. place(c) = 3
    BY <1>1, <1>2, <1>3, <1>5
  <2>2. Collector!After(c) = "CmdLine"
    BY <1>2, <1>4, <2>1
  <2> QED
    BY <1>5, <2>2, CollectorAssumption DEF ReadBy, Reading, Optional
<1>6. CASE c = "CmdLine"
  <2>1. place(c) = 4
    BY <1>1, <1>2, <1>3, <1>6
  <2>2. Collector!After(c) = "Exe"
    BY <1>2, <1>4, <2>1
  <2> QED
    BY <1>6, <2>2, CollectorAssumption DEF ReadBy, Reading, Optional
<1>7. CASE c = "Exe"
  <2>1. place(c) = 5
    BY <1>1, <1>2, <1>3, <1>7
  <2>2. Collector!After(c) = "UserName"
    BY <1>2, <1>4, <2>1
  <2> QED
    BY <1>7, <2>2, CollectorAssumption DEF ReadBy, Reading, Optional
<1>8. CASE c = "UserName"
  <2>1. place(c) = 6
    BY <1>1, <1>2, <1>3, <1>8
  <2>2. Collector!After(c) = "Env"
    BY <1>2, <1>4, <2>1
  <2> QED
    BY <1>8, <2>2, CollectorAssumption DEF ReadBy, Reading, Optional
<1>9. CASE c = "Env"
  <2>1. place(c) = 7
    BY <1>1, <1>2, <1>3, <1>9
  <2>2. Collector!After(c) = "done"
    BY <1>2, <1>4, <2>1
  <2> QED
    BY <1>9, <2>2, CollectorAssumption DEF ReadBy, Reading, Optional
<1> QED
  BY <1>5, <1>6, <1>7, <1>8, <1>9 DEF Optional

\* A file of the process sets its field, and only if there is something in it; the names
\* come from what has been read before.
LEMMA FileIsRead ==
    ASSUME CollectorInv, Collector!ReadNext
    PROVE  /\ pc \in Optional
           /\ \/ /\ out' = out
                 /\ pc = "Comm" => pc \notin mask
                 /\ Collector!Steady => pc \notin Collector!Has(process)
              \/ \E v :
                 /\ out' = Collector!WithField(out, pc, v)
                 /\ pc \in mask
                 /\ \/ v = Collector!Empty
                    \/ process # 0 /\ v = Collector!Now
                    \/ pc = "Comm" /\ v = stat
                    \/ pc = "UserName" /\ v = owner
                 /\ Collector!Steady => pc \in Collector!Has(process)
<1> USE DEF Optional
<1>0. Collector!Steady => process # 0 /\ process \in Nat /\ owner = Collector!Now
  BY DEF CollectorInv, CollectorTypes, StatIsOne, Reading, Collector!Steady, Collector!Now,
     Collector!ReadNext,
         Collector!ReadComm, Collector!ReadCmdLine, Collector!ReadExe, Collector!LookUpUser,
         Collector!ReadEnv
<1>1. process \in Nat /\ Collector!Now # Collector!Failed /\ Collector!Now # Collector!Empty
      /\ Collector!Empty # Collector!Failed
  BY DEF CollectorInv, CollectorTypes, Collector!Now, Collector!Failed, Collector!Empty
<1>2. CASE Collector!ReadComm
  <2>1. Collector!Steady => pc \in Collector!Has(process)
    BY <1>2 DEF Collector!ReadComm, Collector!Has
  <2> QED
    BY <1>1, <1>2, <2>1 DEF Collector!ReadComm, Collector!CommFile, Collector!Load,
       Collector!StandIn
<1>3. CASE Collector!ReadCmdLine
  <2>1. Collector!Steady => pc \in Collector!Has(process) /\ Collector!CmdLineFile # Collector!Failed
    BY <1>0, <1>1, <1>3 DEF Collector!ReadCmdLine, Collector!Has, Collector!CmdLineFile,
       Collector!Load
  <2>2. Collector!CmdLineFile = Collector!Failed \/ Collector!CmdLineFile = Collector!Empty
        \/ (process # 0 /\ Collector!CmdLineFile = Collector!Now)
    BY DEF Collector!CmdLineFile, Collector!Load
  <2> QED
    BY <1>3, <2>1, <2>2 DEF Collector!ReadCmdLine
<1>4. CASE Collector!ReadExe
  <2>1. Collector!ExeLink \in {Collector!Failed, Collector!Empty} \/ (process # 0 /\ Collector!ExeLink = Collector!Now)
    BY DEF Collector!ExeLink
  <2>2. Collector!Steady =>
            (pc \in Collector!Has(process) <=> Collector!ExeLink \notin {Collector!Failed, Collector!Empty})
    BY <1>0, <1>1, <1>4 DEF Collector!ReadExe, Collector!Has, Collector!ExeLink
  <2> QED
    BY <1>4, <2>1, <2>2 DEF Collector!ReadExe
<1>5. CASE Collector!LookUpUser
  <2>1. Collector!UserName = Collector!Empty \/ Collector!UserName = owner
    BY DEF Collector!UserName
  <2>2. Collector!Steady => (pc \in Collector!Has(process) <=> Collector!UserName # Collector!Empty)
    <3>1. Collector!Steady => owner[1] = process
      BY <1>0 DEF Collector!Now
    <3> QED
      BY <1>0, <1>1, <1>5, <3>1 DEF Collector!LookUpUser, Collector!Has, Collector!UserName
  <2> QED
    BY <1>5, <2>1, <2>2 DEF Collector!LookUpUser
<1>6. CASE Collector!ReadEnv
  <2>1. Collector!EnvFile \in {Collector!Failed, Collector!Empty} \/ (process # 0 /\ Collector!EnvFile = Collector!Now)
    BY DEF Collector!EnvFile, Collector!Load
  <2>2. Collector!Steady =>
            (pc \in Collector!Has(process) <=> Collector!EnvFile \notin {Collector!Failed, Collector!Empty})
    BY <1>0, <1>1, <1>6 DEF Collector!ReadEnv, Collector!Has, Collector!EnvFile, Collector!Load
  <2> QED
    BY <1>6, <2>1, <2>2 DEF Collector!ReadEnv
<1>7. CASE pc \in {"Comm", "CmdLine", "Exe", "UserName", "Env"} \ mask /\ UNCHANGED out
  BY <1>7 DEF Collector!Has
<1> QED
  BY <1>2, <1>3, <1>4, <1>5, <1>6, <1>7 DEF Collector!ReadNext

-----------------------------------------------------------------------------
\* When the process goes on, ends or is replaced, nothing that was read is its latest.
LEMMA SystemStep ==
    CollectorInv /\ (Collector!Execute \/ Collector!Exit \/ Collector!Born) => CollectorInv'
<1> SUFFICES ASSUME CollectorInv, Collector!Execute \/ Collector!Exit \/ Collector!Born PROVE CollectorInv'
  OBVIOUS
<1> USE DEF CollectorInv
<1>0. UNCHANGED <<kernel, private, nameless, pc, mask, owner, stat, out, first>>
  BY DEF Collector!Execute, Collector!Exit, Collector!Born
<1>1. /\ process \in Nat /\ born \in Nat /\ program \in Nat /\ first[1] \in Nat /\ first[2] \in Nat
      /\ process # 0 => process = born
  BY DEF CollectorTypes
<1>2. \/ process # 0 /\ process' = process /\ born' = born /\ program' = program + 1
      \/ process' = 0 /\ born' = born /\ program' = 0
      \/ process = 0 /\ born' = born + 1 /\ process' = born + 1 /\ program' = 1
  BY DEF Collector!Execute, Collector!Exit, Collector!Born
<1>3. first[1] <= born /\ (process # 0 /\ first[1] = process => first[2] <= program)
  BY DEF FirstIsOldest
<1>4. CollectorTypes'
  BY <1>0, <1>1, <1>2 DEF CollectorTypes
<1>5. ~Collector!Steady'
  <2> SUFFICES ASSUME first[1] # 0, first = <<process', program'>> PROVE FALSE
    BY <1>0 DEF Collector!Steady, Collector!Now
  <2>1. first[1] = process' /\ first[2] = program'
    OBVIOUS
  <2> QED
    BY <1>1, <1>2, <1>3, <2>1
<1>6. FirstIsOldest'
  <2>1. first[1] <= born' /\ (process' # 0 /\ first[1] = process' => first[2] <= program')
    BY <1>1, <1>2, <1>3
  <2>2. pc = "error" => first[1] = 0 \/ process' = 0 \/ process' > first[1]
    BY <1>1, <1>2, <1>3 DEF FirstIsOldest
  <2> QED
    BY <1>0, <2>1, <2>2 DEF FirstIsOldest, Collector!Nothing
<1>7. StatIsOne'
  <2>1. \A n \in Nat : n <= born => n <= born'
    BY <1>1, <1>2
  <2>2. stat[1] \in Nat
    BY DEF CollectorTypes
  <2> QED
    BY <1>0, <1>5, <2>1, <2>2 DEF StatIsOne
<1>8. OutIsRead'
  BY <1>0, <1>5 DEF OutIsRead, Collector!Empty
<1> QED
  BY <1>4, <1>6, <1>7, <1>8

\* A call begins, finds the directory of its process, and returns.
LEMMA CallStep ==
    CollectorInv /\ (Collector!Request \/ Collector!ReadOwner \/ Collector!Return) => CollectorInv'
<1> SUFFICES ASSUME CollectorInv, Collector!Request \/ Collector!ReadOwner \/ Collector!Return PROVE CollectorInv'
  OBVIOUS
<1> USE DEF CollectorInv, Reading, Optional
<1>0. UNCHANGED <<process, program, born, kernel, private, nameless>>
  BY DEF Collector!Request, Collector!ReadOwner, Collector!Return, Collector!system
<1>1. /\ process \in Nat /\ born \in Nat /\ program \in Nat /\ process <= born
      /\ process # 0 => process = born
      /\ Collector!Now \in Nat \X Nat /\ Collector!Now[1] = process /\ Collector!Now[2] = program
      /\ Collector!Nothing \in Nat \X Nat /\ Collector!Nothing[1] = 0
  BY DEF CollectorTypes, Collector!Now, Collector!Nothing
<1>2. CASE Collector!Request
  <2>1. mask' \subseteq Collector!Fields
    BY <1>2 DEF Collector!Request, Collector!UnmarshalMask, Collector!MarshalMask
  <2>2. pc' = "owner" /\ first' = Collector!Now /\ UNCHANGED <<owner, stat, out>>
    BY <1>2 DEF Collector!Request
  <2>3. CollectorTypes'
    BY <1>0, <1>1, <2>1, <2>2 DEF CollectorTypes
  <2>4. FirstIsOldest'
    BY <1>0, <1>1, <2>2 DEF FirstIsOldest
  <2> QED
    BY <2>2, <2>3, <2>4 DEF StatIsOne, OutIsRead
<1>3. CASE Collector!ReadOwner
  <2>1. UNCHANGED <<mask, stat, out, first>>
    BY <1>3 DEF Collector!ReadOwner
  <2>2. CASE process = 0
    <3>1. pc' = "error" /\ owner' = owner
      BY <1>3, <2>2 DEF Collector!ReadOwner, Collector!StatFails
    <3>2. CollectorTypes'
      BY <1>0, <1>1, <2>1, <3>1 DEF CollectorTypes
    <3>3. FirstIsOldest'
      BY <1>0, <1>1, <2>1, <2>2, <3>1 DEF FirstIsOldest
    <3> QED
      BY <3>1, <3>2, <3>3 DEF StatIsOne, OutIsRead
  <2>3. CASE process # 0
    <3>1. pc' = "stat" /\ owner' = Collector!Now
      BY <1>3, <2>3 DEF Collector!ReadOwner
    <3>2. CollectorTypes'
      BY <1>0, <1>1, <2>1, <3>1 DEF CollectorTypes
    <3>3. FirstIsOldest'
      BY <1>0, <1>1, <2>1, <3>1 DEF FirstIsOldest
    <3>4. first[1] <= owner'[1] /\ owner' = Collector!Now'
      BY <1>0, <1>1, <2>3, <3>1 DEF FirstIsOldest, Collector!Now
    <3>5. StatIsOne'
      BY <2>1, <3>1, <3>4 DEF StatIsOne
    <3> QED
      BY <3>1, <3>2, <3>3, <3>5 DEF OutIsRead
  <2> QED
    BY <2>2, <2>3
<1>4. CASE Collector!Return
  <2>1. pc' = "idle" /\ mask' = {} /\ owner' = Collector!Nothing /\ stat' = Collector!Nothing /\ first' = Collector!Nothing
    BY <1>4 DEF Collector!Return
  <2>2. CollectorTypes'
    BY <1>0, <1>1, <2>1 DEF CollectorTypes
  <2>3. FirstIsOldest'
    <3>1. first'[1] = 0 /\ first'[1] <= born'
      BY <1>0, <1>1, <2>1
    <3> QED
      BY <1>0, <1>1, <2>1, <3>1 DEF FirstIsOldest, Collector!Nothing
  <2> QED
    BY <2>1, <2>2, <2>3 DEF StatIsOne, OutIsRead
<1> QED
  BY <1>2, <1>3, <1>4

\* The numbers of stat are those of one process.
LEMMA StatStep == CollectorInv /\ Collector!ReadStat => CollectorInv'
<1> SUFFICES ASSUME CollectorInv, Collector!ReadStat PROVE CollectorInv'
  OBVIOUS
<1> USE DEF CollectorInv
<1>0. pc = "stat" /\ UNCHANGED <<process, program, born, kernel, private, nameless, mask, owner, first>>
  BY DEF Collector!ReadStat, Collector!system
<1>1. /\ process \in Nat /\ born \in Nat /\ program \in Nat /\ process <= born
      /\ process # 0 => process = born
      /\ Collector!Now \in Nat \X Nat /\ Collector!Now[1] = process /\ mask \subseteq Collector!Fields
  BY DEF CollectorTypes, Collector!Now
<1>2. CASE process = 0
  <2>1. pc' = "error" /\ stat' = stat /\ out' = out
    BY <1>2 DEF Collector!ReadStat, Collector!StatFails
  <2>2. CollectorTypes'
    BY <1>0, <2>1 DEF CollectorTypes
  <2>3. FirstIsOldest'
    BY <1>0, <1>2, <2>1 DEF FirstIsOldest
  <2> QED
    BY <2>1, <2>2, <2>3 DEF StatIsOne, OutIsRead, Reading, Optional
<1>3. CASE process # 0
  <2> DEFINE D == {f \in FromStat \union {"Pid", "Ruid"} : f \in mask \union {"Pid"}}
  <2>1. pc' = "Comm" /\ stat' = Collector!Now
        /\ out' = [f \in D |-> IF f = "Ruid" THEN owner ELSE Collector!Now]
    BY <1>3 DEF Collector!ReadStat, Collector!IsSet
  <2>2. Collector!Now' = Collector!Now
    BY <1>0 DEF Collector!Now
  <2>3. first[1] <= owner[1] /\ (Collector!Steady => owner = Collector!Now)
    BY <1>0 DEF StatIsOne
  <2>4. Collector!Steady' <=> Collector!Steady
    BY <1>0 DEF Collector!Steady, Collector!Now
  <2>5. CollectorTypes'
    BY <1>0, <1>1, <2>1 DEF CollectorTypes, Reading, Optional
  <2>6. FirstIsOldest'
    BY <1>0, <2>1 DEF FirstIsOldest
  <2>7. StatIsOne'
    BY <1>0, <1>1, <1>3, <2>1, <2>2, <2>3, <2>4 DEF StatIsOne
  <2>8. DOMAIN out' = D /\ \A f \in D : out'[f] = IF f = "Ruid" THEN owner ELSE Collector!Now
    BY <2>1
  <2>9. OutIsRead'
    <3>1. ReadBy(pc') = FromStat \union {"Pid", "Ruid"}
      BY <2>1 DEF ReadBy
    <3>2. {"Pid"} \union (mask \intersect (FromStat \union {"Ruid"})) \subseteq D
          /\ D \subseteq (mask \union {"Pid"}) \intersect ReadBy(pc')
      BY <3>1
    <3>3. D = Collector!Has(process) \intersect ReadBy(pc')
      BY <3>1, CollectorAssumption DEF Collector!Has
    <3>4. ASSUME NEW f \in D
          PROVE  /\ f \in FromStat \union {"Pid"} => out'[f] = stat'
                 /\ out'[f][1] >= stat'[1] \/ (f = "Ruid" /\ out'[f][1] >= first[1])
                 /\ Collector!Steady => out'[f] = Collector!Now
      <4>1. CASE f = "Ruid"
        <5>1. out'[f] = owner /\ f \notin FromStat \union {"Pid"}
          BY <2>8, <4>1, CollectorAssumption
        <5>2. owner[1] \in Nat /\ first[1] \in Nat
          BY DEF CollectorTypes
        <5> QED
          BY <2>3, <4>1, <5>1, <5>2
      <4>2. CASE f # "Ruid"
        <5>1. out'[f] = Collector!Now
          BY <2>8, <4>2
        <5> QED
          BY <1>1, <2>1, <5>1
      <4> QED
        BY <4>1, <4>2
    <3>5. Collector!Has(process)' = Collector!Has(process)
      BY <1>0 DEF Collector!Has
    <3> HIDE DEF D
    <3> QED
      BY <1>0, <2>1, <2>2, <2>4, <2>8, <3>2, <3>3, <3>4, <3>5 DEF OutIsRead
  <2> QED
    BY <2>5, <2>6, <2>7, <2>9
<1> QED
  BY <1>2, <1>3

\* One more file is read, or could not be.
LEMMA FileStep == CollectorInv /\ Collector!ReadNext => CollectorInv'
<1> SUFFICES ASSUME CollectorInv, Collector!ReadNext PROVE CollectorInv'
  OBVIOUS
<1> USE DEF CollectorInv
<1>0. /\ pc \in Optional /\ pc' = Collector!After(pc)
      /\ UNCHANGED <<process, program, born, kernel, private, nameless, mask, owner, stat, first>>
  BY FileIsRead DEF Collector!ReadNext, Collector!system
<1>1. pc \in Reading /\ pc' \in Reading \ {"Comm"} /\ ReadBy(pc') = ReadBy(pc) \union {pc} /\ pc \notin ReadBy(pc)
  BY <1>0, FilesFollow DEF Reading
<1>2. Collector!Now' = Collector!Now /\ (Collector!Steady' <=> Collector!Steady) /\ Collector!Has(process)' = Collector!Has(process)
  BY <1>0 DEF Collector!Now, Collector!Steady, Collector!Has
<1>3. CollectorTypes'
  BY <1>0, <1>1 DEF CollectorTypes
<1>4. FirstIsOldest' /\ StatIsOne'
  BY <1>0, <1>1, <1>2 DEF FirstIsOldest, StatIsOne, Reading, Optional
<1>5. /\ {"Pid"} \union (mask \intersect (FromStat \union {"Ruid"})) \subseteq DOMAIN out
      /\ pc # "Comm" => mask \intersect {"Comm"} \subseteq DOMAIN out
      /\ DOMAIN out \subseteq (mask \union {"Pid"}) \intersect ReadBy(pc)
      /\ Collector!Steady =>
            /\ DOMAIN out = Collector!Has(process) \intersect ReadBy(pc)
            /\ \A f \in DOMAIN out : out[f] \in {Collector!Now, Collector!Empty}
  BY <1>1 DEF OutIsRead
<1>6. CASE out' = out /\ (pc = "Comm" => pc \notin mask) /\ (Collector!Steady => pc \notin Collector!Has(process))
  <2>1. mask \intersect {"Comm"} \subseteq DOMAIN out
    BY <1>5, <1>6
  <2>2. Collector!Steady => DOMAIN out = Collector!Has(process) \intersect ReadBy(pc')
    BY <1>1, <1>5, <1>6
  <2>3. OutIsRead'
    BY <1>0, <1>1, <1>2, <1>5, <1>6, <2>1, <2>2 DEF OutIsRead
  <2> QED
    BY <1>3, <1>4, <2>3
<1>7. ASSUME NEW v, out' = Collector!WithField(out, pc, v), pc \in mask,
             \/ v = Collector!Empty
             \/ process # 0 /\ v = Collector!Now
             \/ pc = "Comm" /\ v = stat
             \/ pc = "UserName" /\ v = owner,
             Collector!Steady => pc \in Collector!Has(process)
      PROVE  CollectorInv'
  <2>1. DOMAIN out' = DOMAIN out \union {pc} /\ out'[pc] = v /\ \A f \in DOMAIN out : out'[f] = out[f]
    <3>1. pc \notin DOMAIN out
      BY <1>1, <1>5
    <3> QED
      BY <1>7, <3>1 DEF Collector!WithField
  <2>2. v = Collector!Empty \/ v[1] >= stat[1] \/ (pc = "UserName" /\ v[1] >= first[1])
    <3>1. process # 0 => Collector!Now[1] >= stat[1]
      BY <1>1 DEF CollectorTypes, StatIsOne, Collector!Now
    <3>2. stat[1] \in Nat /\ owner[1] \in Nat /\ first[1] \in Nat /\ first[1] <= owner[1]
      BY <1>1 DEF CollectorTypes, StatIsOne
    <3> QED
      BY <1>7, <3>1, <3>2
  <2>3. Collector!Steady => v \in {Collector!Now, Collector!Empty}
    BY <1>1, <1>7 DEF StatIsOne
  <2>4. pc \notin FromStat \union {"Pid"}
    BY <1>0, CollectorAssumption DEF Optional
  <2>5. OutIsRead'
    <3>1. {"Pid"} \union (mask' \intersect (FromStat \union {"Ruid"})) \subseteq DOMAIN out'
          /\ mask' \intersect {"Comm"} \subseteq DOMAIN out'
          /\ DOMAIN out' \subseteq (mask' \union {"Pid"}) \intersect ReadBy(pc')
      BY <1>0, <1>1, <1>5, <1>7, <2>1
    <3>2. ASSUME NEW f \in DOMAIN out'
          PROVE  /\ f \in FromStat \union {"Pid"} => out'[f] = stat
                 /\ \/ out'[f] = Collector!Empty
                    \/ out'[f][1] >= stat[1]
                    \/ f \in {"Ruid", "UserName"} /\ out'[f][1] >= first[1]
                 /\ Collector!Steady => out'[f] \in {Collector!Now, Collector!Empty}
      <4>1. CASE f = pc
        BY <2>1, <2>2, <2>3, <2>4, <4>1
      <4>2. CASE f # pc
        <5>1. f \in DOMAIN out /\ out'[f] = out[f]
          BY <2>1, <4>2
        <5> QED
          BY <1>1, <5>1 DEF OutIsRead
      <4> QED
        BY <4>1, <4>2
    <3>3. Collector!Steady => DOMAIN out' = Collector!Has(process) \intersect ReadBy(pc')
      BY <1>1, <1>5, <1>7, <2>1
    <3> QED
      BY <1>0, <1>2, <3>1, <3>2, <3>3 DEF OutIsRead, Collector!Empty
  <2> QED
    BY <1>3, <1>4, <2>5
<1> QED
  BY <1>6, <1>7, FileIsRead

\* The steps together.
LEMMA CollectorNext == CollectorInv /\ [Collector!Next]_(Collector!vars) => CollectorInv'
<1> SUFFICES ASSUME CollectorInv, [Collector!Next]_(Collector!vars) PROVE CollectorInv'
  OBVIOUS
<1>1. ASSUME UNCHANGED Collector!vars PROVE CollectorInv'
  BY <1>1 DEF Collector!vars, CollectorInv, CollectorTypes, FirstIsOldest, StatIsOne, OutIsRead,
     Collector!Steady, Collector!Now, Collector!Has
<1> QED
  BY <1>1, SystemStep, CallStep, StatStep, FileStep DEF Collector!Next

\* No call is being handled at the start.
LEMMA CollectorStart == Collector!Init => CollectorInv
<1> SUFFICES ASSUME Collector!Init PROVE CollectorInv
  OBVIOUS
<1>1. /\ process \in Nat /\ born = process /\ program = process /\ pc = "idle" /\ mask = {}
      /\ owner = <<0, 0>> /\ stat = <<0, 0>> /\ first = <<0, 0>>
  BY DEF Collector!Init, Collector!Nothing
<1>2. CollectorTypes /\ FirstIsOldest
  BY <1>1 DEF CollectorTypes, FirstIsOldest, Collector!Nothing
<1>3. StatIsOne /\ OutIsRead
  BY <1>1 DEF StatIsOne, OutIsRead, Reading, Optional
<1> QED
  BY <1>2, <1>3 DEF CollectorInv

\* The reply is what has been set, as it arrives on the other side.
LEMMA RepliesAsRead == CollectorInv => Collector!ReplyAsRead
<1> SUFFICES ASSUME CollectorInv PROVE Collector!ReplyAsRead
  OBVIOUS
<1> USE DEF CollectorInv
<1>1. ASSUME Collector!Steady PROVE pc # "error"
  <2>1. first[1] # 0 /\ first[1] = process /\ process \in Nat
    BY <1>1 DEF Collector!Steady, Collector!Now, CollectorTypes
  <2> QED
    BY <2>1 DEF FirstIsOldest
<1>2. ASSUME pc = "done"
      PROVE  /\ {"Pid"} \union (mask \intersect (FromStat \union {"Ruid", "Comm"})) \subseteq DOMAIN out
             /\ DOMAIN out \subseteq (mask \union {"Pid"}) \intersect ReadBy("done")
             /\ \A f \in DOMAIN out :
                /\ f \in FromStat \union {"Pid"} => out[f] = stat
                /\ out[f] = Collector!Empty \/ out[f][1] >= stat[1] \/ (f \in {"Ruid", "UserName"} /\ out[f][1] >= first[1])
             /\ Collector!Steady =>
                    /\ DOMAIN out = Collector!Has(process) \intersect ReadBy("done")
                    /\ \A f \in DOMAIN out : out[f] \in {Collector!Now, Collector!Empty}
  BY <1>2 DEF OutIsRead, Reading, Optional
<1>3. ASSUME pc = "done"
      PROVE  DOMAIN Collector!Reply = DOMAIN out /\ \A f \in DOMAIN out : Collector!Reply[f] = out[f]
  <2>1. DOMAIN out \subseteq Collector!Fields /\ "Pid" \in DOMAIN out
    BY <1>2, <1>3 DEF CollectorTypes, Collector!Fields
  <2> DEFINE M == Collector!MarshalProps(out)
  <2>2. DOMAIN M = DOMAIN out /\ \A f \in DOMAIN out : M[f] = out[f]
    BY <2>1 DEF Collector!MarshalProps
  <2>3. Collector!Reply = [f \in DOMAIN M \union {"Pid"} |-> IF f \in DOMAIN M THEN M[f] ELSE Collector!Nothing]
    BY DEF Collector!Reply, Collector!UnmarshalProps
  <2> HIDE DEF M
  <2> QED
    BY <2>1, <2>2, <2>3
<1>4. Collector!Has(process) \subseteq ReadBy("done")
  BY DEF Collector!Has, ReadBy, Optional, CollectorTypes, Collector!Fields
<1>5. ASSUME Collector!Steady, pc = "done"
      PROVE  /\ DOMAIN Collector!Reply = Collector!Has(process)
             /\ \A f \in DOMAIN Collector!Reply : Collector!Reply[f] \in {Collector!Now, Collector!Empty}
  BY <1>2, <1>3, <1>4, <1>5
<1>6. ASSUME pc = "done"
      PROVE  /\ {"Pid"} \union (mask \intersect (FromStat \union {"Ruid", "Comm"})) \subseteq DOMAIN Collector!Reply
             /\ \A f \in DOMAIN Collector!Reply \intersect (FromStat \union {"Pid"}) : Collector!Reply[f] = stat
             /\ \A f \in DOMAIN Collector!Reply :
                    \/ Collector!Reply[f] = Collector!Empty
                    \/ Collector!Reply[f][1] >= stat[1]
                    \/ (f \in {"Ruid", "UserName"} /\ Collector!Reply[f][1] >= first[1])
             /\ DOMAIN Collector!Reply \subseteq mask \union {"Pid"}
  <2>1. mask \intersect {"Comm"} \subseteq DOMAIN out
    BY <1>2, <1>6
  <2> QED
    BY <1>2, <1>3, <1>6, <2>1
<1> QED
  BY <1>1, <1>5, <1>6 DEF Collector!ReplyAsRead

-----------------------------------------------------------------------------
\* A set of natural numbers that is not empty has a least one.
LEMMA Least ==
    ASSUME NEW S \in SUBSET Nat, S # {}
    PROVE  Min(S) \in S /\ \A y \in S : Min(S) <= y
<1> DEFINE Less == {p \in Nat \X Nat : p[1] < p[2]}
<1>1. OpToRel(<, Nat) = Less
  BY DEF OpToRel
<1>2. IsWellFoundedOn(Less, Nat)
  BY <1>1, NatLessThanWellFounded, Zenon
<1> HIDE DEF Less
<1>3. \E x \in S : \A y \in S : ~ (<<y, x>> \in Less)
  BY <1>2, WFMin, Zenon
<1>4. PICK x \in S : \A y \in S : <<y, x>> \notin Less
  BY <1>3
<1>5. ASSUME NEW y \in S PROVE x <= y
  <2>1. <<y, x>> \notin Less /\ x \in Nat /\ y \in Nat
    BY <1>4
  <2> QED
    BY <2>1 DEF Less
<1> QED
  BY <1>5 DEF Min

-----------------------------------------------------------------------------
(***************************************************************************)
(* StatLine.                                                               *)
(***************************************************************************)
Character == Letters \union {"pid", "opening", "closing", "space"}
AfterName == 4 + Len(comm)      \* where the name ends
LineLength == AfterName + 2 * Len(Rest)

\* One sequence after another.
LEMMA Joined ==
    ASSUME NEW S, NEW s \in Seq(S), NEW t \in Seq(S)
    PROVE  /\ s \o t \in Seq(S)
           /\ Len(s \o t) = Len(s) + Len(t)
           /\ \A i \in 1..Len(s) : (s \o t)[i] = s[i]
  BY ConcatProperties

LEMMA JoinedAfter ==
    ASSUME NEW S, NEW s \in Seq(S), NEW t \in Seq(S)
    PROVE  \A i \in 1..Len(t) : (s \o t)[Len(s) + i] = t[i]
<1>1. Len(s) \in Nat /\ Len(t) \in Nat
  OBVIOUS
<1> QED
  BY <1>1, ConcatProperties

\* The fields after the name, each with the space before it.
LEMMA SpacedFields ==
    ASSUME NEW spaced, spaced = [i \in 1..2 * Len(Rest) |-> IF i % 2 = 1 THEN "space" ELSE Rest[i \div 2]]
    PROVE  /\ Len(Rest) \in Nat
           /\ spaced \in Seq(Character) /\ Len(spaced) = 2 * Len(Rest)
           /\ \A i \in 1..Len(Rest) : spaced[2 * i - 1] = "space" /\ spaced[2 * i] = Rest[i]
<1>1. Len(Rest) \in Nat /\ Rest \in Seq(Letters)
  BY StatAssumption
<1>2. \A i \in 1..2 * Len(Rest) : spaced[i] \in Character
  <2> SUFFICES ASSUME NEW i \in 1..2 * Len(Rest) PROVE spaced[i] \in Character
    OBVIOUS
  <2>1. CASE i % 2 = 1
    BY <2>1 DEF Character
  <2>2. CASE i % 2 # 1
    <3>1. i \div 2 \in 1..Len(Rest)
      BY <1>1, <2>2
    <3> QED
      BY <1>1, <2>2, <3>1 DEF Character
  <2> QED
    BY <2>1, <2>2
<1>3. \A i \in 1..Len(Rest) : 2 * i - 1 \in 1..2 * Len(Rest) /\ 2 * i \in 1..2 * Len(Rest)
  BY <1>1
<1>4. \A i \in Nat : i # 0 => (2 * i - 1) % 2 = 1 /\ (2 * i) % 2 = 0 /\ (2 * i) \div 2 = i
  OBVIOUS
<1>5. \A i \in 1..Len(Rest) : spaced[2 * i - 1] = "space" /\ spaced[2 * i] = Rest[i]
  BY <1>1, <1>3, <1>4
<1> QED
  BY <1>1, <1>2, <1>5

\* What stands where in the line.
LEMMA LineIs ==
    ASSUME comm \in Seq(Character)
    PROVE  /\ Len(comm) \in Nat /\ Len(Rest) \in Nat
           /\ Line!Line \in Seq(Character) /\ Len(Line!Line) = LineLength
           /\ Line!Line[1] = "pid" /\ Line!Line[2] = "space" /\ Line!Line[3] = "opening"
           /\ \A i \in 1..Len(comm) : Line!Line[3 + i] = comm[i]
           /\ Line!Line[AfterName] = "closing"
           /\ \A i \in 1..Len(Rest) : Line!Line[AfterName + (2 * i - 1)] = "space" /\ Line!Line[AfterName + 2 * i] = Rest[i]
<1> DEFINE before == <<"pid", "space", "opening">>
           upto == before \o comm
           name == upto \o <<"closing">>
           spaced == [i \in 1..2 * Len(Rest) |-> IF i % 2 = 1 THEN "space" ELSE Rest[i \div 2]]
<1>1. before \in Seq(Character) /\ Len(before) = 3 /\ before[1] = "pid" /\ before[2] = "space" /\ before[3] = "opening"
  BY DEF Character
<1>2. <<"closing">> \in Seq(Character) /\ Len(<<"closing">>) = 1 /\ <<"closing">>[1] = "closing"
  BY DEF Character
<1>3. /\ Len(Rest) \in Nat
      /\ spaced \in Seq(Character) /\ Len(spaced) = 2 * Len(Rest)
      /\ \A i \in 1..Len(Rest) : spaced[2 * i - 1] = "space" /\ spaced[2 * i] = Rest[i]
  BY SpacedFields
<1>4. Line!Line = name \o spaced
  BY DEF Line!Line
<1>5. Len(comm) \in Nat
  OBVIOUS
<1> HIDE DEF before, spaced
<1>6. /\ upto \in Seq(Character) /\ Len(upto) = 3 + Len(comm)
      /\ \A i \in 1..3 : upto[i] = before[i]
      /\ \A i \in 1..Len(comm) : upto[3 + i] = comm[i]
  <2>1. Len(before) = 3 /\ \A i \in 1..Len(before) : upto[i] = before[i]
    BY <1>1, Joined
  <2>2. upto \in Seq(Character) /\ Len(upto) = Len(before) + Len(comm)
    BY <1>1, Joined
  <2>3. \A i \in 1..Len(comm) : upto[3 + i] = comm[i]
    <3>1. \A b \in Seq(Character) : \A i \in 1..Len(comm) : (b \o comm)[Len(b) + i] = comm[i]
      BY JoinedAfter, Zenon
    <3> QED
      BY <1>1, <3>1
  <2> QED
    BY <1>1, <2>1, <2>2, <2>3
<1> HIDE DEF upto
<1>7. /\ name \in Seq(Character) /\ Len(name) = AfterName
      /\ \A i \in 1..(3 + Len(comm)) : name[i] = upto[i]
      /\ name[AfterName] = "closing"
  <2>1. /\ name \in Seq(Character) /\ Len(name) = (3 + Len(comm)) + 1
        /\ \A i \in 1..(3 + Len(comm)) : name[i] = upto[i]
        /\ \A i \in 1..1 : name[(3 + Len(comm)) + i] = <<"closing">>[i]
    BY <1>2, <1>6, Joined, JoinedAfter
  <2> QED
    BY <1>2, <1>5, <2>1 DEF AfterName
<1> HIDE DEF name
<1>8. /\ Line!Line \in Seq(Character) /\ Len(Line!Line) = LineLength
      /\ \A i \in 1..AfterName : Line!Line[i] = name[i]
      /\ \A i \in 1..(2 * Len(Rest)) : Line!Line[AfterName + i] = spaced[i]
  BY <1>3, <1>4, <1>7, Joined, JoinedAfter DEF LineLength
<1>9. \A i \in 1..(3 + Len(comm)) : Line!Line[i] = upto[i]
  BY <1>5, <1>7, <1>8 DEF AfterName
<1>10. Line!Line[1] = "pid" /\ Line!Line[2] = "space" /\ Line!Line[3] = "opening"
  BY <1>1, <1>5, <1>6, <1>9
<1>11. \A i \in 1..Len(comm) : Line!Line[3 + i] = comm[i]
  BY <1>5, <1>6, <1>9
<1>12. Line!Line[AfterName] = "closing"
  BY <1>5, <1>7, <1>8 DEF AfterName
<1>13. \A i \in 1..Len(Rest) : Line!Line[AfterName + (2 * i - 1)] = "space" /\ Line!Line[AfterName + 2 * i] = Rest[i]
  BY <1>3, <1>8
<1> QED
  BY <1>3, <1>5, <1>8, <1>10, <1>11, <1>12, <1>13

\* The fields after the name hold neither spaces nor parentheses.
LEMMA RestIs ==
    /\ Rest \in Seq(Letters) /\ Len(Rest) \in Nat
    /\ \A i \in 1..Len(Rest) : Rest[i] \in Letters /\ Rest[i] # "opening" /\ Rest[i] # "closing" /\ Rest[i] # "space"
  BY StatAssumption

Taken == Len(fields)            \* how many fields have been read

\* Where a field begins that comes after k others, and what the k-th field is read as.
Beginning(k) == IF k = 0 THEN 1 ELSE IF k = 1 THEN 2 ELSE AfterName + 2 * (k - 1) - 1
ValueOf(k) == IF k = 1 THEN <<"pid">> ELSE IF k = 2 THEN comm ELSE <<Rest[k - 2]>>

\* The scan is in or at the end of the field after those that have been read, and these
\* are the fields of the line.
LineInv ==
    /\ comm \in Seq(Character)
    /\ fields \in Seq(Seq(Character))
    /\ Taken <= 2 + Len(Rest)
    /\ start = Beginning(Taken)
    /\ Taken = 0 => end \in {1, 2}
    /\ Taken = 1 => end \in {3, AfterName + 1}
    /\ Taken > 1 => end \in {start + 1, start + 2}
    /\ \A k \in 1..Taken : fields[k] = ValueOf(k)

\* What LineInv says of the numbers.
LEMMA LineNumbers ==
    ASSUME LineInv
    PROVE  /\ Len(comm) \in Nat /\ Len(Rest) \in Nat /\ Taken \in Nat
           /\ AfterName \in Nat /\ AfterName = 4 + Len(comm)
           /\ LineLength \in Nat /\ LineLength = AfterName + 2 * Len(Rest)
           /\ start \in Nat /\ end \in Nat
<1>1. Len(comm) \in Nat /\ Len(Rest) \in Nat
  BY LineIs DEF LineInv
<1>2. Taken \in Nat
  BY DEF LineInv, Taken
<1>3. AfterName \in Nat /\ AfterName = 4 + Len(comm)
  BY <1>1 DEF AfterName
<1>4. LineLength \in Nat /\ LineLength = AfterName + 2 * Len(Rest)
  BY <1>1, <1>3 DEF LineLength
<1>5. start \in Nat
  BY <1>2, <1>3 DEF LineInv, Beginning
<1>6. end \in Nat
  BY <1>2, <1>3, <1>5 DEF LineInv
<1> QED
  BY <1>1, <1>2, <1>3, <1>4, <1>5, <1>6

\* Which field the scan is in.
LEMMA FieldsLeft ==
    ASSUME LineInv
    PROVE  /\ ~Line!AllRead => Taken < 2 + Len(Rest)
           /\ Line!AllRead => Taken = 2 + Len(Rest)
<1>1. Len(Line!Line) = LineLength
  BY LineIs DEF LineInv
<1>2. start = Beginning(Taken) /\ Taken <= 2 + Len(Rest)
  BY DEF LineInv
<1> QED
  BY <1>1, <1>2, LineNumbers DEF Line!AllRead, Beginning

\* In a field after the name.
LEMMA AfterTheName ==
    ASSUME LineInv, ~Line!AllRead, Taken > 1
    PROVE  /\ Taken - 1 \in 1..Len(Rest) /\ start = AfterName + 2 * (Taken - 1) - 1
           /\ start + 1 <= LineLength /\ Line!Line[start + 1] = Rest[Taken - 1]
           /\ end \in {start + 1, start + 2}
           /\ start + 2 <= LineLength => Line!Line[start + 2] = "space"
<1>1. Taken - 1 \in 1..Len(Rest)
  BY LineNumbers, FieldsLeft
<1>2. start = AfterName + 2 * (Taken - 1) - 1
  <2>1. start = Beginning(Taken)
    BY DEF LineInv
  <2> QED
    BY <2>1, LineNumbers DEF Beginning
<1>3. start + 1 = AfterName + 2 * (Taken - 1) /\ start + 1 <= LineLength
  BY <1>1, <1>2, LineNumbers
<1>4. Line!Line[AfterName + 2 * (Taken - 1)] = Rest[Taken - 1]
  BY <1>1, LineIs DEF LineInv
<1>5. start + 2 <= LineLength => Line!Line[start + 2] = "space"
  <2> SUFFICES ASSUME start + 2 <= LineLength PROVE Line!Line[start + 2] = "space"
    OBVIOUS
  <2>1. Taken \in 1..Len(Rest) /\ start + 2 = AfterName + (2 * Taken - 1)
    <3>1. Len(Rest) \in Nat /\ Taken \in Nat /\ AfterName \in Nat /\ LineLength = AfterName + 2 * Len(Rest)
      BY LineNumbers
    <3> QED
      BY <1>1, <1>2, <3>1
  <2>2. Line!Line[AfterName + (2 * Taken - 1)] = "space"
    BY <2>1, LineIs DEF LineInv
  <2> QED
    BY <2>1, <2>2
<1>6. end \in {start + 1, start + 2}
  BY DEF LineInv
<1> QED
  BY <1>1, <1>2, <1>3, <1>4, <1>5, <1>6

\* The last closing parenthesis of a line is that of the name.
LEMMA ClosesName ==
    ASSUME LineInv
    PROVE  Line!Closing(3) = AfterName
<1>0. /\ Len(comm) \in Nat /\ Len(Rest) \in Nat /\ Taken \in Nat
      /\ AfterName \in Nat /\ AfterName = 4 + Len(comm)
      /\ LineLength \in Nat /\ LineLength = AfterName + 2 * Len(Rest)
      /\ start \in Nat /\ end \in Nat
  BY LineNumbers
<1>1. Line!Line[AfterName] = "closing" /\ AfterName \in 3..Len(Line!Line) /\ Len(Line!Line) = LineLength
  BY <1>0, LineIs DEF LineInv
<1>2. \A j \in AfterName + 1..Len(Line!Line) : Line!Line[j] # "closing"
  <2> SUFFICES ASSUME NEW j \in AfterName + 1..Len(Line!Line) PROVE Line!Line[j] # "closing"
    OBVIOUS
  <2>0. j \in AfterName + 1..AfterName + 2 * Len(Rest)
    BY <1>0, <1>1
  <2>1. PICK i \in 1..Len(Rest) : j = AfterName + (2 * i - 1) \/ j = AfterName + 2 * i
    <3> DEFINE h == (j - AfterName + 1) \div 2
    <3>1. h \in 1..Len(Rest) /\ (j = AfterName + (2 * h - 1) \/ j = AfterName + 2 * h)
      BY <1>0, <2>0
    <3> QED
      BY <1>0, <3>1
  <2>2. Line!Line[AfterName + (2 * i - 1)] = "space" /\ Line!Line[AfterName + 2 * i] = Rest[i]
    BY LineIs DEF LineInv
  <2>3. Rest[i] # "closing"
    BY RestIs
  <2> QED
    BY <1>0, <2>1, <2>2, <2>3
<1>3. \E k \in 3..Len(Line!Line) : Line!Line[k] = "closing" /\ \A j \in k + 1..Len(Line!Line) : Line!Line[j] # "closing"
  BY <1>0, <1>1, <1>2
<1>4. PICK k \in 3..Len(Line!Line) : /\ k = Line!Closing(3)
                                     /\ Line!Line[k] = "closing" /\ \A j \in k + 1..Len(Line!Line) : Line!Line[j] # "closing"
  BY <1>0, <1>3, Zenon DEF Line!Closing
<1>5. ~(k < AfterName) /\ ~(AfterName < k)
  BY <1>0, <1>1, <1>2, <1>4
<1> QED
  BY <1>0, <1>1, <1>4, <1>5
\* The step of the scan over a character, or from the opening parenthesis to the last
\* closing one.
LEMMA ScanStep == LineInv /\ Line!Scan => LineInv'
<1> SUFFICES ASSUME LineInv, Line!Scan PROVE LineInv'
  OBVIOUS
<1>0. /\ Len(comm) \in Nat /\ Len(Rest) \in Nat /\ Taken \in Nat
      /\ AfterName \in Nat /\ AfterName = 4 + Len(comm)
      /\ LineLength \in Nat /\ LineLength = AfterName + 2 * Len(Rest)
      /\ start \in Nat /\ end \in Nat
  BY LineNumbers
<1>1. /\ ~Line!AllRead /\ end <= LineLength /\ Line!Line[end] # "space"
      /\ end' = (IF Line!Line[end] = "opening" THEN Line!Closing(end) ELSE end) + 1
      /\ comm' = comm /\ start' = start /\ fields' = fields
  BY LineIs DEF Line!Scan, Line!InField, LineInv
<1>2. /\ Taken = 0 => end' = 2
      /\ Taken = 1 => end' = AfterName + 1
      /\ Taken > 1 => end' = start + 2
  <2>1. CASE Taken = 0
    <3>1. end = 1 /\ Line!Line[1] = "pid"
      BY <1>0, <1>1, <2>1, LineIs DEF LineInv
    <3> QED
      BY <1>0, <1>1, <2>1, <3>1
  <2>2. CASE Taken = 1
    <3>1. end = 3
      <4>1. AfterName + 1 <= LineLength => Line!Line[AfterName + 1] = "space"
        <5>1. 1 \in 1..Len(Rest) => Line!Line[AfterName + (2 * 1 - 1)] = "space"
          BY LineIs DEF LineInv
        <5> QED
          BY <1>0, <5>1
      <4>2. end \in {3, AfterName + 1}
        BY <1>0, <2>2 DEF LineInv
      <4> QED
        BY <1>0, <1>1, <4>1, <4>2
    <3>2. Line!Line[3] = "opening"
      BY LineIs DEF LineInv
    <3> QED
      BY <1>0, <1>1, <2>2, <3>1, <3>2, ClosesName
  <2>3. CASE Taken > 1
    <3>1. end = start + 1
      BY <1>0, <1>1, <2>3, AfterTheName
    <3>2. Line!Line[end] # "opening"
      BY <1>0, <1>1, <2>3, <3>1, AfterTheName, RestIs
    <3> QED
      BY <1>0, <1>1, <2>3, <3>1, <3>2
  <2> QED
    BY <1>0, <2>1, <2>2, <2>3
<1>3. Taken' = Taken /\ AfterName' = AfterName
  BY <1>0, <1>1 DEF Taken, AfterName
<1>4. Beginning(Taken)' = Beginning(Taken) /\ \A k \in 1..Taken : ValueOf(k)' = ValueOf(k)
  BY <1>0, <1>1, <1>3 DEF Beginning, ValueOf
<1> QED
  BY <1>0, <1>1, <1>2, <1>3, <1>4 DEF LineInv

\* A sequence of one element.
LEMMA OneElement ==
    ASSUME NEW S, NEW s \in Seq(S), NEW x, Len(s) = 1, s[1] = x
    PROVE  s = <<x>>
  OBVIOUS

\* A part of the line, read as a value.
LEMMA PartOfLine ==
    ASSUME LineInv, NEW m \in Nat \ {0}, NEW n \in Int, n <= LineLength, m <= n + 1
    PROVE  /\ SubSeq(Line!Line, m, n) \in Seq(Character)
           /\ Len(SubSeq(Line!Line, m, n)) = n - m + 1
           /\ \A i \in 1..(n - m + 1) : SubSeq(Line!Line, m, n)[i] = Line!Line[m + i - 1]
<1>1. Line!Line \in Seq(Character) /\ Len(Line!Line) = LineLength
  BY LineIs DEF LineInv
<1> QED
  BY <1>1, PartOf

LEMMA OneOfLine ==
    ASSUME LineInv, NEW m \in Nat \ {0}, m <= LineLength
    PROVE  SubSeq(Line!Line, m, m) = <<Line!Line[m]>>
<1>1. Line!Line \in Seq(Character) /\ Len(Line!Line) = LineLength
  BY LineIs DEF LineInv
<1>2. m \in Int /\ m <= Len(Line!Line) /\ m <= m + 1 /\ m - m + 1 = 1 /\ m + 1 - 1 = m
  BY <1>1, LineNumbers
<1>3. /\ SubSeq(Line!Line, m, m) \in Seq(Character)
      /\ Len(SubSeq(Line!Line, m, m)) = m - m + 1
      /\ \A i \in 1..(m - m + 1) : SubSeq(Line!Line, m, m)[i] = Line!Line[m + i - 1]
  BY <1>1, <1>2, PartOf
<1> DEFINE one == SubSeq(Line!Line, m, m)
<1>4. one \in Seq(Character) /\ Len(one) = 1 /\ one[1] = Line!Line[m]
  BY <1>2, <1>3
<1> HIDE DEF one
<1>5. one = <<Line!Line[m]>>
  BY <1>4, OneElement
<1> QED
  BY <1>5 DEF one

\* The value of the field that ends, and where it ends.
LEMMA FieldIs ==
    ASSUME LineInv, ~Line!AllRead, ~Line!InField
    PROVE  Line!FieldValue = ValueOf(Taken + 1) /\ end = Beginning(Taken + 1)
<1>0. /\ Len(comm) \in Nat /\ Len(Rest) \in Nat /\ Taken \in Nat
      /\ AfterName \in Nat /\ AfterName = 4 + Len(comm)
      /\ LineLength \in Nat /\ LineLength = AfterName + 2 * Len(Rest)
      /\ start \in Nat /\ end \in Nat
  BY LineNumbers
<1>1. end <= LineLength => Line!Line[end] = "space"
  BY LineIs DEF Line!InField, LineInv
<1>2. /\ Taken = 0 => Line!FieldValue = SubSeq(Line!Line, start, end - 1)
      /\ Taken = 1 => Line!FieldValue = IF end > start + 3 THEN SubSeq(Line!Line, start + 2, end - 2) ELSE <<>>
      /\ Taken > 1 => Line!FieldValue = SubSeq(Line!Line, start + 1, end - 1)
  <2>1. fields = <<>> <=> Taken = 0
    BY DEF LineInv, Taken
  <2>2. Len(fields) = 1 <=> Taken = 1
    BY DEF Taken
  <2>3. Taken = 0 => Line!FieldValue = SubSeq(Line!Line, start, end - 1)
    <3> SUFFICES ASSUME Taken = 0 PROVE Line!FieldValue = SubSeq(Line!Line, start, end - 1)
      OBVIOUS
    <3>1. (fields = <<>>) /\ ~(Len(fields) = 1)
      BY <2>1, <2>2
    <3> QED
      BY <3>1, Zenon DEF Line!FieldValue
  <2>4. Taken = 1 => Line!FieldValue = IF end > start + 3 THEN SubSeq(Line!Line, start + 2, end - 2) ELSE <<>>
    BY <2>1, <2>2 DEF Line!FieldValue
  <2>5. Taken > 1 => Line!FieldValue = SubSeq(Line!Line, start + 1, end - 1)
    <3> SUFFICES ASSUME Taken > 1 PROVE Line!FieldValue = SubSeq(Line!Line, start + 1, end - 1)
      OBVIOUS
    <3>1. ~(fields = <<>>) /\ ~(Len(fields) = 1)
      BY <1>0, <2>1, <2>2
    <3> QED
      BY <3>1 DEF Line!FieldValue
  <2> QED
    BY <2>3, <2>4, <2>5
<1>3. CASE Taken = 0
  <2>1. end = 2 /\ Line!Line[1] = "pid"
    BY <1>0, <1>1, <1>3, LineIs DEF LineInv
  <2>2. SubSeq(Line!Line, 1, 1) = <<"pid">>
    BY <1>0, <2>1, OneOfLine
  <2>3. start = 1 /\ ValueOf(Taken + 1) = <<"pid">> /\ Beginning(Taken + 1) = 2
    BY <1>3 DEF LineInv, ValueOf, Beginning
  <2> QED
    BY <1>2, <1>3, <2>1, <2>2, <2>3
<1>4. CASE Taken = 1
  <2>1. end = AfterName + 1
    BY <1>0, <1>1, <1>4, LineIs DEF LineInv
  <2>2. \A i \in 1..Len(comm) : Line!Line[3 + i] = comm[i]
    BY LineIs DEF LineInv
  <2>3. SubSeq(Line!Line, 4, AfterName - 1) = comm
    <3> DEFINE name == SubSeq(Line!Line, 4, AfterName - 1)
    <3>1. /\ name \in Seq(Character) /\ Len(name) = (AfterName - 1) - 4 + 1
          /\ \A i \in 1..((AfterName - 1) - 4 + 1) : name[i] = Line!Line[4 + i - 1]
      <4>1. AfterName - 1 \in Int /\ AfterName - 1 <= LineLength /\ 4 <= (AfterName - 1) + 1
        BY <1>0
      <4> QED
        BY <1>0, <4>1, PartOfLine
    <3>2. comm \in Seq(Character)
      BY DEF LineInv
    <3> HIDE DEF name
    <3>3. Len(name) = Len(comm) /\ \A i \in 1..Len(comm) : name[i] = comm[i]
      BY <1>0, <2>2, <3>1
    <3>4. name = comm
      BY <1>0, <3>1, <3>2, <3>3
    <3> QED
      BY <1>0, <3>4 DEF name
  <2>4. end > start + 3 \/ comm = <<>>
    <3>1. start = 2 /\ comm \in Seq(Character)
      BY <1>4 DEF LineInv, Beginning
    <3> QED
      BY <1>0, <2>1, <3>1
  <2>5. start = 2 /\ ValueOf(Taken + 1) = comm /\ Beginning(Taken + 1) = AfterName + 1
    BY <1>4 DEF LineInv, ValueOf, Beginning
  <2>6. Line!FieldValue = IF end > 5 THEN comm ELSE <<>>
    <3>1. start + 3 = 5 /\ start + 2 = 4 /\ end - 2 = AfterName - 1
      BY <1>0, <2>1, <2>5
    <3> QED
      BY <1>2, <1>4, <2>3, <3>1
  <2> QED
    BY <2>1, <2>4, <2>5, <2>6
<1>5. CASE Taken > 1
  <2>1. /\ Taken - 1 \in 1..Len(Rest) /\ start = AfterName + 2 * (Taken - 1) - 1
        /\ start + 1 <= LineLength /\ Line!Line[start + 1] = Rest[Taken - 1]
        /\ end \in {start + 1, start + 2}
    BY <1>0, <1>5, AfterTheName
  <2>2. end = start + 2
    BY <1>0, <1>1, <2>1, RestIs
  <2>3. SubSeq(Line!Line, start + 1, start + 1) = <<Line!Line[start + 1]>>
    BY <1>0, <2>1, OneOfLine
  <2>4. ValueOf(Taken + 1) = <<Rest[Taken - 1]>> /\ Beginning(Taken + 1) = AfterName + 2 * Taken - 1
    <3>1. (Taken + 1) - 2 = Taken - 1
      BY <1>0
    <3> QED
      BY <1>0, <1>5, <3>1 DEF ValueOf, Beginning
  <2>5. end - 1 = start + 1
    BY <1>0, <2>2
  <2>6. Line!FieldValue = ValueOf(Taken + 1)
    BY <1>2, <1>5, <2>1, <2>3, <2>4, <2>5
  <2>7. end = Beginning(Taken + 1)
    BY <1>0, <2>1, <2>2, <2>4
  <2> QED
    BY <2>6, <2>7
<1> QED
  BY <1>0, <1>3, <1>4, <1>5

\* A field has been read.
LEMMA TakeStep == LineInv /\ Line!TakeField => LineInv'
<1> SUFFICES ASSUME LineInv, Line!TakeField PROVE LineInv'
  OBVIOUS
<1>0. /\ Len(comm) \in Nat /\ Len(Rest) \in Nat /\ Taken \in Nat
      /\ AfterName \in Nat /\ AfterName = 4 + Len(comm)
      /\ LineLength \in Nat /\ LineLength = AfterName + 2 * Len(Rest)
      /\ start \in Nat /\ end \in Nat
  BY LineNumbers
<1>1. /\ ~Line!AllRead /\ ~Line!InField
      /\ fields' = Append(fields, Line!FieldValue) /\ start' = end /\ end' = end + 1 /\ comm' = comm
  BY DEF Line!TakeField
<1>2. Line!FieldValue = ValueOf(Taken + 1) /\ end = Beginning(Taken + 1)
  BY <1>0, <1>1, FieldIs
<1>3. ValueOf(Taken + 1) \in Seq(Character)
  <2>1. <<"pid">> \in Seq(Character) /\ comm \in Seq(Character)
    BY DEF Character, LineInv
  <2>2. Taken > 1 => <<Rest[Taken - 1]>> \in Seq(Character)
    BY <1>0, <1>1, FieldsLeft, RestIs DEF Character
  <2> QED
    BY <1>0, <2>1, <2>2 DEF ValueOf
<1>4. /\ fields' \in Seq(Seq(Character)) /\ Taken' = Taken + 1
      /\ fields'[Taken + 1] = ValueOf(Taken + 1) /\ \A k \in 1..Taken : fields'[k] = fields[k]
  BY <1>0, <1>1, <1>2, <1>3, AppendProperties DEF LineInv, Taken
<1>5. AfterName' = AfterName
  BY <1>0, <1>1 DEF AfterName
<1>6. /\ (Beginning(Taken))' = Beginning(Taken + 1)
      /\ \A k \in Nat : ValueOf(k)' = ValueOf(k)
  BY <1>0, <1>1, <1>4, <1>5 DEF Beginning, ValueOf
<1>7. \A k \in 1..(Taken + 1) : fields'[k] = ValueOf(k)
  <2>1. \A k \in 1..Taken : fields[k] = ValueOf(k)
    BY DEF LineInv
  <2>2. \A k \in 1..(Taken + 1) : k \in 1..Taken \/ k = Taken + 1
    BY <1>0
  <2> QED
    BY <1>4, <2>1, <2>2
<1>8. /\ Taken + 1 = 1 => end' = 3
      /\ Taken + 1 > 1 => end' = end + 1
  BY <1>0, <1>1, <1>2 DEF Beginning
<1>9. comm' \in Seq(Character) /\ Taken' <= 2 + Len(Rest) /\ start' = Beginning(Taken)'
  BY <1>0, <1>1, <1>2, <1>4, <1>6, FieldsLeft DEF LineInv
<1>10. \A k \in 1..Taken' : fields'[k] = ValueOf(k)'
  <2>1. \A k \in 1..(Taken + 1) : k \in Nat
    BY <1>0
  <2>2. \A k \in 1..(Taken + 1) : fields'[k] = ValueOf(k)'
    BY <1>6, <1>7, <2>1
  <2> QED
    BY <1>4, <2>2
<1>11. /\ Taken' # 0
       /\ Taken' = 1 => end' \in {3, AfterName' + 1}
       /\ Taken' > 1 => end' \in {start' + 1, start' + 2}
  BY <1>0, <1>1, <1>4, <1>8
<1> QED
  BY <1>4, <1>9, <1>10, <1>11 DEF LineInv

\* The steps of readStat() keep LineInv.
LEMMA LineNext == LineInv /\ [Line!Next]_(Line!vars) => LineInv'
<1> SUFFICES ASSUME LineInv, [Line!Next]_(Line!vars) PROVE LineInv'
  OBVIOUS
<1>1. CASE Line!ReadStat
  <2>1. comm' \in Seq(Character)
    BY <1>1 DEF Line!ReadStat, Line!Names, Line!SeqOf, Character
  <2>2. Taken' = 0 /\ fields' \in Seq(Seq(Character)) /\ start' = 1 /\ end' = 1
    BY <1>1 DEF Line!ReadStat, Taken
  <2> QED
    BY <2>1, <2>2, StatAssumption DEF LineInv, Beginning
<1>2. CASE UNCHANGED Line!vars
  <2>1. comm' = comm /\ start' = start /\ end' = end /\ fields' = fields
    BY <1>2 DEF Line!vars
  <2> QED
    BY <2>1 DEF LineInv, Taken, Beginning, ValueOf, AfterName
<1> QED
  BY <1>1, <1>2, ScanStep, TakeStep DEF Line!Next

LEMMA LineStart == Line!Init => LineInv
<1> SUFFICES ASSUME Line!Init PROVE LineInv
  OBVIOUS
<1>1. comm = <<>> /\ Taken = 0 /\ fields = <<>> /\ start = 1 /\ end = 1
  BY DEF Line!Init, Taken
<1> QED
  BY <1>1, StatAssumption DEF LineInv, Beginning

\* When the line has been read, it has as many fields as there are, each read as it is.
LEMMA FieldsAreAll == LineInv => Line!NameIsOneField
<1> SUFFICES ASSUME LineInv, Line!AllRead
             PROVE  fields = <<<<"pid">>, comm>> \o [i \in DOMAIN Rest |-> <<Rest[i]>>]
  BY DEF Line!NameIsOneField
<1>0. /\ Len(comm) \in Nat /\ Len(Rest) \in Nat /\ Taken \in Nat
      /\ AfterName \in Nat /\ AfterName = 4 + Len(comm)
      /\ LineLength \in Nat /\ LineLength = AfterName + 2 * Len(Rest)
      /\ start \in Nat /\ end \in Nat
  BY LineNumbers
<1> DEFINE rest == [i \in DOMAIN Rest |-> <<Rest[i]>>]
           head == <<<<"pid">>, comm>>
<1>1. Taken = 2 + Len(Rest) /\ fields \in Seq(Seq(Character)) /\ Len(fields) = 2 + Len(Rest)
  BY FieldsLeft DEF LineInv, Taken
<1>2. rest \in Seq(Seq(Character)) /\ Len(rest) = Len(Rest) /\ \A i \in 1..Len(Rest) : rest[i] = <<Rest[i]>>
  <2>1. DOMAIN Rest = 1..Len(Rest) /\ Len(Rest) \in Nat
    BY RestIs
  <2>2. \A i \in 1..Len(Rest) : <<Rest[i]>> \in Seq(Character)
    BY RestIs DEF Character
  <2>3. rest = [i \in 1..Len(Rest) |-> <<Rest[i]>>]
    BY <2>1
  <2> QED
    BY <2>1, <2>2, <2>3
<1>3. head \in Seq(Seq(Character)) /\ Len(head) = 2 /\ head[1] = <<"pid">> /\ head[2] = comm
  BY DEF LineInv, Character
<1> HIDE DEF rest, head
<1>4. /\ head \o rest \in Seq(Seq(Character)) /\ Len(head \o rest) = 2 + Len(Rest)
      /\ \A i \in 1..(2 + Len(Rest)) : (head \o rest)[i] = IF i <= 2 THEN head[i] ELSE rest[i - 2]
  <2>1. /\ head \o rest \in Seq(Seq(Character)) /\ Len(head \o rest) = Len(head) + Len(rest)
        /\ \A i \in 1..(Len(head) + Len(rest)) : (head \o rest)[i] = IF i <= Len(head) THEN head[i] ELSE rest[i - Len(head)]
    <3>1. head \in Seq(Seq(Character)) /\ rest \in Seq(Seq(Character))
      BY <1>0, <1>2, <1>3
    <3> QED
      BY <1>0, <3>1, ConcatProperties
  <2> QED
    BY <1>0, <1>2, <1>3, <2>1
<1>5. \A k \in 1..(2 + Len(Rest)) : fields[k] = (head \o rest)[k]
  <2> SUFFICES ASSUME NEW k \in 1..(2 + Len(Rest)) PROVE fields[k] = (head \o rest)[k]
    OBVIOUS
  <2>1. fields[k] = ValueOf(k)
    BY <1>0, <1>1 DEF LineInv
  <2>2. k = 1 \/ k = 2 \/ k > 2
    BY <1>0
  <2> QED
    <3>1. CASE k = 1
      BY <1>3, <1>4, <2>1, <3>1 DEF ValueOf
    <3>2. CASE k = 2
      BY <1>3, <1>4, <2>1, <3>2 DEF ValueOf
    <3>3. CASE k > 2
      <4>1. k - 2 \in 1..Len(Rest)
        BY <1>0, <3>3
      <4>2. ValueOf(k) = <<Rest[k - 2]>>
        BY <3>3 DEF ValueOf
      <4> QED
        <5>1. (head \o rest)[k] = rest[k - 2]
          BY <1>4, <3>3
        <5> QED
          BY <1>2, <2>1, <4>1, <4>2, <5>1
    <3> QED
      BY <2>2, <3>1, <3>2, <3>3
<1>6. fields = head \o rest
  <2> DEFINE all == head \o rest
  <2>1. all \in Seq(Seq(Character)) /\ Len(all) = Len(fields) /\ \A k \in 1..Len(fields) : fields[k] = all[k]
    BY <1>1, <1>4, <1>5
  <2> HIDE DEF all
  <2>2. fields = all
    BY <1>1, <2>1
  <2> QED
    BY <2>2 DEF all
<1> QED
  BY <1>6 DEF head, rest

-----------------------------------------------------------------------------
(***************************************************************************)
(* LuaTypes.                                                               *)
(***************************************************************************)
OwnObject == [type : Types, id : Nat \ {0}, table : ClassNames]

\* What a variable of the script or the registry of Lua may hold: an object that Lua owns
\* is alive, and a pointer has been pushed.
\* What a variable or a place of the registry may hold: nothing, a table, a pointer that was
\* pushed, an object that is alive.
MayHold(v, live, pushed) ==
    \/ v = Objects!Nil
    \/ v = Objects!Table(Objects!LuasOwn)
    \/ \E T \in Types : v = Objects!Table(Objects!Borrowed(T))
    \/ \E T \in pushed : v = Objects!Light(Objects!Borrowed(T))
    \/ \E o \in live : v = Objects!Full(o)

\* What a handle may be, with "held" in the registry.
HandleFits(x, held) ==
    \/ x = None
    \/ x = [object |-> None, ref |-> Objects!RefNil]
    \/ \E r \in Objects!Refs : x = [object |-> Objects!AddressIn(held[r]), ref |-> r]

\* The types, and what Lua holds.
ObjectTypes ==
    /\ nameOf \in [Types -> ClassNames \union {None}] /\ class \in [ClassNames -> Types \union {None}]
    /\ shared \in ClassNames \union {None}
    /\ methods \subseteq Types \X ClassNames /\ lent \subseteq Types
    /\ owned \subseteq OwnObject /\ made \in Nat
    /\ DOMAIN values = Variables /\ DOMAIN refs = Objects!Refs /\ DOMAIN handle = Handles
    /\ \A x \in Variables : MayHold(values[x], owned, lent)
    /\ \A r \in Objects!Refs : MayHold(refs[r], owned, lent)

\* A handle is of the object that its place in the registry holds.
HandlesFit == \A h \in Handles : HandleFits(handle[h], refs)

\* Whatever has a metatable has been registered under its name: a type, a destructor, the
\* objects that Lua owns and the last pointer that has set the shared one.
Registered ==
    /\ \A T \in Types : nameOf[T] # None => <<T, nameOf[T]>> \in methods
    /\ \A m \in methods : class[m[2]] # None
    /\ \A n \in ClassNames : class[n] # None => <<class[n], n>> \in methods
    /\ \A o \in owned : <<o.type, o.table>> \in methods
    /\ shared # None => \E W \in lent : <<W, shared>> \in methods

TypesInv == ObjectTypes /\ HandlesFit /\ Registered

-----------------------------------------------------------------------------
\* What may be held may be held when more is alive and pushed.
LEMMA MayHoldMore ==
    ASSUME NEW v, NEW live, NEW pushed, NEW live2, NEW pushed2,
           MayHold(v, live, pushed), live \subseteq live2, pushed \subseteq pushed2
    PROVE  MayHold(v, live2, pushed2)
  BY DEF MayHold

\* The kinds of values and their addresses.
LEMMA KindsAre ==
    ASSUME NEW o
    PROVE  /\ Objects!AddressIn(Objects!Nil) = None /\ Objects!MetatableOf(Objects!Nil) = None
           /\ Objects!AddressIn(Objects!Table(o)) = Objects!LuasOwn /\ Objects!MetatableOf(Objects!Table(o)) = None
           /\ Objects!AddressIn(Objects!Light(o)) = o /\ Objects!MetatableOf(Objects!Light(o)) = shared
           /\ Objects!AddressIn(Objects!Full(o)) = o /\ Objects!MetatableOf(Objects!Full(o)) = o.table
  BY DEF Objects!Nil, Objects!Table, Objects!Light, Objects!Full, Objects!AddressIn,
     Objects!MetatableOf

\* What a handle is of has not been collected.
LEMMA HandlesPin == TypesInv => Objects!PinnedAlive
<1> SUFFICES ASSUME TypesInv, NEW h \in Handles, handle[h] # None, handle[h].object # None,
                    Objects!IsOwned(handle[h].object)
             PROVE  handle[h].object \in owned
  BY DEF Objects!PinnedAlive
<1>1. PICK r \in Objects!Refs : handle[h] = [object |-> Objects!AddressIn(refs[r]), ref |-> r]
  BY DEF TypesInv, HandlesFit, HandleFits
<1>2. handle[h].object = Objects!AddressIn(refs[r])
  BY <1>1
<1>3. MayHold(refs[r], owned, lent)
  BY DEF TypesInv, ObjectTypes
<1>4. ASSUME NEW o, refs[r] = Objects!Table(o) PROVE FALSE
  <2>1. handle[h].object = Objects!LuasOwn
    BY <1>2, <1>4, KindsAre
  <2> QED
    BY <2>1 DEF Objects!IsOwned, Objects!LuasOwn
<1>5. ASSUME NEW T, refs[r] = Objects!Light(Objects!Borrowed(T)) PROVE FALSE
  <2>1. handle[h].object = Objects!Borrowed(T)
    BY <1>2, <1>5, KindsAre
  <2> QED
    BY <2>1 DEF Objects!IsOwned, Objects!Borrowed
<1>6. refs[r] # Objects!Nil
  BY <1>2, KindsAre
<1>7. PICK o \in owned : refs[r] = Objects!Full(o)
  BY <1>3, <1>4, <1>5, <1>6 DEF MayHold
<1> QED
  BY <1>2, <1>7, KindsAre

-----------------------------------------------------------------------------
\* The two types that a value is read as and has been pushed as.
LEMMA ReadByTable ==
    ASSUME TypesInv, NEW T \in Types, NEW n \in ClassNames, <<T, n>> \in methods,
           NEW v, MayHold(v, owned, lent), Objects!MetatableOf(v) = n
    PROVE  LET o == Objects!AddressIn(v)
           IN  \/ Objects!Namesakes(o.type, T)
               \/ ~Objects!IsOwned(o) /\ o.type # None /\ Objects!Cardinality(lent) > 1
<1> DEFINE o == Objects!AddressIn(v)
<1>0. n # None
  BY TypesAssumption
<1>1. v # Objects!Nil /\ \A p : v # Objects!Table(p)
  BY <1>0, KindsAre
<1>2. ASSUME NEW U \in lent, v = Objects!Light(Objects!Borrowed(U))
      PROVE  Objects!Namesakes(o.type, T) \/ (~Objects!IsOwned(o) /\ o.type # None /\ Objects!Cardinality(lent) > 1)
  <2>1. o = Objects!Borrowed(U) /\ shared = n
    BY <1>2, KindsAre
  <2>2. o.type = U /\ ~Objects!IsOwned(o) /\ U # None
    BY <2>1, TypesAssumption DEF Objects!Borrowed, Objects!IsOwned, TypesInv, ObjectTypes
  <2>3. PICK W \in lent : <<W, n>> \in methods
    BY <1>0, <2>1 DEF TypesInv, Registered
  <2>4. CASE W = U
    BY <2>2, <2>3, <2>4 DEF Objects!Namesakes
  <2>5. CASE W # U
    <3>1. IsFiniteSet(lent) /\ {W, U} \subseteq lent
      BY TypesAssumption, FS_Subset DEF TypesInv, ObjectTypes
    <3>2. Cardinality({W, U}) = 2
      <4>1. IsFiniteSet({W}) /\ Cardinality({W}) = 1
        BY FS_Singleton
      <4>2. Cardinality({W} \union {U}) = Cardinality({W}) + 1
        BY <2>5, <4>1, FS_AddElement
      <4>3. {W, U} = {W} \union {U}
        OBVIOUS
      <4> QED
        BY <4>1, <4>2, <4>3
    <3>3. Cardinality({W, U}) <= Cardinality(lent) /\ Cardinality(lent) \in Nat
      BY <3>1, FS_Subset, FS_CardinalityType
    <3>4. Objects!Cardinality(lent) = Cardinality(lent)
      BY DEF Objects!Cardinality, Cardinality
    <3> QED
      BY <2>2, <3>2, <3>3, <3>4
  <2> QED
    BY <2>4, <2>5
<1>3. ASSUME NEW p \in owned, v = Objects!Full(p)
      PROVE  Objects!Namesakes(o.type, T)
  <2>1. o = p /\ p.table = n /\ <<p.type, p.table>> \in methods
    BY <1>3, KindsAre DEF TypesInv, Registered
  <2> QED
    BY <2>1 DEF Objects!Namesakes
<1> QED
  BY <1>1, <1>2, <1>3 DEF MayHold

\* A value that has the metatable of a type is of that type, or one of the exceptions.
LEMMA ReadByType ==
    ASSUME TypesInv, NEW T \in Types, NEW v, MayHold(v, owned, lent),
           nameOf[T] = Objects!MetatableOf(v), Objects!AddressIn(v) # None
    PROVE  LET o == Objects!AddressIn(v)
           IN  \/ Objects!Namesakes(o.type, T)
               \/ ~Objects!IsOwned(o) /\ nameOf[T] = None
               \/ ~Objects!IsOwned(o) /\ o.type # None /\ Objects!Cardinality(lent) > 1
<1>1. CASE nameOf[T] # None
  <2>1. nameOf[T] \in ClassNames /\ <<T, nameOf[T]>> \in methods
    BY <1>1 DEF TypesInv, ObjectTypes, Registered
  <2> QED
    BY <2>1, ReadByTable
<1>2. CASE nameOf[T] = None
  <2>1. ~\E o \in owned : v = Objects!Full(o)
    <3> SUFFICES ASSUME NEW o \in owned, v = Objects!Full(o) PROVE FALSE
      OBVIOUS
    <3>1. o.table = None
      BY <1>2, KindsAre
    <3>2. o.table \in ClassNames
      BY DEF TypesInv, ObjectTypes, OwnObject
    <3> QED
      BY <3>1, <3>2, TypesAssumption
  <2>2. Objects!AddressIn(v) = Objects!LuasOwn \/ \E U : Objects!AddressIn(v) = Objects!Borrowed(U)
    BY <2>1, KindsAre DEF MayHold
  <2>3. ~Objects!IsOwned(Objects!AddressIn(v))
    BY <2>2 DEF Objects!IsOwned, Objects!LuasOwn, Objects!Borrowed
  <2> QED
    BY <1>2, <2>3
<1> QED
  BY <1>1, <1>2

\* The ways out of Lua, one by one.
LEMMA ReadRight == TypesInv => Objects!ReadAsPushed
<1> SUFFICES ASSUME TypesInv, NEW a \in Objects!Accesses, a.object # None
             PROVE  \/ a.object.type = a.as
                    \/ Objects!Namesakes(a.object.type, a.as)
                    \/ ~Objects!IsOwned(a.object) /\ nameOf[a.as] = None
                    \/ ~Objects!IsOwned(a.object) /\ a.object.type # None /\ Objects!Cardinality(lent) > 1
  BY DEF Objects!ReadAsPushed
<1>0. \A v \in Objects!Held : MayHold(v, owned, lent)
  BY DEF TypesInv, ObjectTypes, Objects!Held
<1>1. ASSUME NEW T \in Types, NEW v \in Objects!Held, a = [as |-> T, object |-> Objects!Got(T, v)]
      PROVE  \/ Objects!Namesakes(a.object.type, a.as)
             \/ ~Objects!IsOwned(a.object) /\ nameOf[a.as] = None
             \/ ~Objects!IsOwned(a.object) /\ a.object.type # None /\ Objects!Cardinality(lent) > 1
  <2>1. a.as = T /\ a.object = Objects!AddressIn(v) /\ nameOf[T] = Objects!MetatableOf(v)
    BY <1>1 DEF Objects!Got, Objects!IsType
  <2> QED
    BY <1>0, <2>1, ReadByType
<1>2. ASSUME NEW T \in Types, NEW v \in Objects!Held, a = [as |-> T, object |-> Objects!Argument(T, v)]
      PROVE  \/ Objects!Namesakes(a.object.type, a.as)
             \/ ~Objects!IsOwned(a.object) /\ nameOf[a.as] = None
             \/ ~Objects!IsOwned(a.object) /\ a.object.type # None /\ Objects!Cardinality(lent) > 1
  <2>1. a.as = T /\ a.object = Objects!AddressIn(v) /\ nameOf[T] = Objects!MetatableOf(v)
    BY <1>2 DEF Objects!Argument, Objects!CheckType, Objects!IsType
  <2> QED
    BY <1>0, <2>1, ReadByType
<1>3. ASSUME NEW m \in methods, NEW v \in Objects!Held, a = [as |-> m[1], object |-> Objects!Method(m[2], v)]
      PROVE  \/ Objects!Namesakes(a.object.type, a.as)
             \/ ~Objects!IsOwned(a.object) /\ a.object.type # None /\ Objects!Cardinality(lent) > 1
  <2>1. a.as = m[1] /\ a.object = Objects!AddressIn(v) /\ Objects!MetatableOf(v) = m[2]
    BY <1>3 DEF Objects!Method
  <2>2. m[1] \in Types /\ m[2] \in ClassNames /\ <<m[1], m[2]>> \in methods
    BY DEF TypesInv, ObjectTypes
  <2> QED
    BY <1>0, <2>1, <2>2, ReadByTable
<1>4. ASSUME NEW v \in Objects!Held, a = [as |-> Objects!BoundTo(v).type, object |-> Objects!BoundTo(v)]
      PROVE  a.object.type = a.as
  BY <1>4
<1>5. ASSUME NEW o \in owned, a = [as |-> Objects!DestroyedAs(o), object |-> o]
      PROVE  Objects!Namesakes(a.object.type, a.as)
  <2>1. a.as = class[o.table] /\ a.object = o
    BY <1>5 DEF Objects!DestroyedAs
  <2>2. o.table \in ClassNames /\ <<o.type, o.table>> \in methods
    BY DEF TypesInv, ObjectTypes, OwnObject, Registered
  <2>3. class[o.table] # None
    BY <2>2 DEF TypesInv, Registered
  <2>4. <<class[o.table], o.table>> \in methods
    BY <2>2, <2>3 DEF TypesInv, Registered
  <2> QED
    BY <2>1, <2>2, <2>4 DEF Objects!Namesakes
<1> QED
  BY <1>1, <1>2, <1>3, <1>4, <1>5 DEF Objects!Accesses

-----------------------------------------------------------------------------
(***************************************************************************)
(* The steps.                                                              *)
(***************************************************************************)
LEMMA RegisterStep ==
    ASSUME TypesInv, NEW T \in Types, NEW n \in ClassNames, Objects!SetClass(T, n)
    PROVE  TypesInv'
<1>0. /\ nameOf' = [nameOf EXCEPT ![T] = n] /\ class' = [class EXCEPT ![n] = T]
      /\ methods' = methods \union {<<T, n>>}
      /\ UNCHANGED <<shared, values, owned, made, refs, handle, lent>>
  BY DEF Objects!SetClass, Objects!RegisterClass, Objects!NewMetatable, Objects!SetDtor,
     Objects!SetMembers
<1>1. nameOf' \in [Types -> ClassNames \union {None}] /\ nameOf'[T] = n /\ \A U \in Types : U # T => nameOf'[U] = nameOf[U]
  BY <1>0 DEF TypesInv, ObjectTypes
<1>2. class' \in [ClassNames -> Types \union {None}] /\ class'[n] = T /\ \A m \in ClassNames : m # n => class'[m] = class[m]
  BY <1>0 DEF TypesInv, ObjectTypes
<1>3. ObjectTypes'
  BY <1>0, <1>1, <1>2 DEF TypesInv, ObjectTypes
<1>4. HandlesFit'
  BY <1>0 DEF TypesInv, HandlesFit, HandleFits, Objects!AddressIn
<1>5. Registered'
  <2>1. \A U \in Types : nameOf'[U] # None => <<U, nameOf'[U]>> \in methods'
    BY <1>0, <1>1 DEF TypesInv, Registered
  <2>2. ASSUME NEW m \in methods' PROVE class'[m[2]] # None
    <3>1. CASE m \in methods
      <4>1. m[2] \in ClassNames /\ class[m[2]] # None
        BY <3>1 DEF TypesInv, ObjectTypes, Registered
      <4> QED
        BY <1>2, <4>1, TypesAssumption
    <3>2. CASE m = <<T, n>>
      BY <1>2, <3>2, TypesAssumption
    <3> QED
      BY <1>0, <3>1, <3>2
  <2>3. \A m \in ClassNames : class'[m] # None => <<class'[m], m>> \in methods'
    BY <1>0, <1>2 DEF TypesInv, Registered
  <2> QED
    BY <1>0, <2>1, <2>2, <2>3 DEF TypesInv, Registered
<1> QED
  BY <1>3, <1>4, <1>5 DEF TypesInv

\* Steps that change a variable of the script.
LEMMA VariableStep ==
    ASSUME TypesInv, NEW x \in Variables, NEW v, values' = [values EXCEPT ![x] = v],
           owned \subseteq owned', owned' \subseteq OwnObject, made' \in Nat, lent \subseteq lent', lent' \subseteq Types,
           MayHold(v, owned', lent'), UNCHANGED <<nameOf, class, methods, refs, handle>>,
           shared' \in ClassNames \union {None},
           shared' # None => \E W \in lent' : <<W, shared'>> \in methods,
           \A o \in owned' : <<o.type, o.table>> \in methods
    PROVE  TypesInv'
<1>1. DOMAIN values' = Variables /\ \A y \in Variables : values'[y] = v \/ values'[y] = values[y]
  BY DEF TypesInv, ObjectTypes
<1>2. \A y \in Variables : MayHold(values'[y], owned', lent')
  <2>1. \A y \in Variables : MayHold(values[y], owned', lent')
    BY MayHoldMore DEF TypesInv, ObjectTypes
  <2> QED
    BY <1>1, <2>1
<1>3. \A r \in Objects!Refs : MayHold(refs'[r], owned', lent')
  BY MayHoldMore DEF TypesInv, ObjectTypes
<1>4. ObjectTypes'
  BY <1>1, <1>2, <1>3 DEF TypesInv, ObjectTypes
<1>5. HandlesFit' /\ Registered'
  BY DEF TypesInv, HandlesFit, HandleFits, Objects!AddressIn, Registered
<1> QED
  BY <1>4, <1>5 DEF TypesInv

\* C++ pushes a pointer, or an object in a table.
LEMMA FromCppStep ==
    ASSUME TypesInv, NEW T \in Types, NEW x \in Variables,
           Objects!PushPointer(T, x) \/ Objects!SetObj(T, x)
    PROVE  TypesInv'
<1>1. ASSUME Objects!PushPointer(T, x) PROVE TypesInv'
  <2> DEFINE v == Objects!Light(Objects!Borrowed(T))
  <2>1. /\ values' = [values EXCEPT ![x] = v] /\ lent' = lent \union {T} /\ shared' = Objects!TableForAll(T)
        /\ UNCHANGED <<nameOf, class, owned, made, refs, handle, methods>>
    BY <1>1 DEF Objects!PushPointer
  <2>2. MayHold(v, owned', lent')
    BY <2>1 DEF MayHold
  <2>3. shared' \in ClassNames \union {None}
    BY <2>1 DEF Objects!TableForAll, TypesInv, ObjectTypes
  <2>4. shared' # None => \E W \in lent' : <<W, shared'>> \in methods
    BY <2>1 DEF Objects!TableForAll, TypesInv, Registered
  <2>5. owned' \subseteq OwnObject /\ made' \in Nat /\ lent' \subseteq Types /\ \A o \in owned' : <<o.type, o.table>> \in methods
    BY <2>1 DEF TypesInv, ObjectTypes, Registered
  <2> HIDE DEF v
  <2> QED
    BY <2>1, <2>2, <2>3, <2>4, <2>5, VariableStep
<1>2. ASSUME Objects!SetObj(T, x) PROVE TypesInv'
  <2> DEFINE v == Objects!Table(Objects!Borrowed(T))
  <2>1. values' = [values EXCEPT ![x] = v] /\ UNCHANGED <<nameOf, class, shared, owned, made, refs, handle, methods, lent>>
    BY <1>2 DEF Objects!SetObj
  <2>2. MayHold(v, owned', lent')
    BY DEF MayHold
  <2>3. /\ owned' \subseteq OwnObject /\ made' \in Nat /\ lent' \subseteq Types /\ shared' \in ClassNames \union {None}
        /\ \A o \in owned' : <<o.type, o.table>> \in methods
        /\ shared' # None => \E W \in lent' : <<W, shared'>> \in methods
    BY <2>1 DEF TypesInv, ObjectTypes, Registered
  <2> HIDE DEF v
  <2> QED
    BY <2>1, <2>2, <2>3, VariableStep
<1> QED
  BY <1>1, <1>2

\* An object that Lua owns is made.
LEMMA NewObjectStep ==
    ASSUME TypesInv, NEW T \in Types, NEW n \in ClassNames, NEW x \in Variables, <<T, n>> \in methods,
           Objects!NewObject(T, n, x)
    PROVE  TypesInv'
<1> DEFINE o == [type |-> T, id |-> made + 1, table |-> n]
           v == Objects!Full(o)
<1>1. /\ made' = made + 1 /\ owned' = owned \union {o} /\ values' = [values EXCEPT ![x] = v]
      /\ UNCHANGED <<nameOf, class, shared, refs, handle, methods, lent>>
  BY DEF Objects!NewObject
<1>2. made + 1 \in Nat \ {0}
  BY DEF TypesInv, ObjectTypes
<1>3. o \in OwnObject /\ o.type = T /\ o.table = n
  BY <1>2 DEF OwnObject
<1> HIDE DEF o
<1>4. MayHold(v, owned', lent')
  BY <1>1 DEF MayHold
<1>5. /\ owned \subseteq owned' /\ owned' \subseteq OwnObject /\ made' \in Nat /\ lent' \subseteq Types
      /\ \A p \in owned' : <<p.type, p.table>> \in methods
  BY <1>1, <1>2, <1>3 DEF TypesInv, ObjectTypes, Registered
<1>6. shared' \in ClassNames \union {None} /\ (shared' # None => \E W \in lent' : <<W, shared'>> \in methods)
  BY <1>1 DEF TypesInv, ObjectTypes, Registered
<1> HIDE DEF v
<1> QED
  BY <1>1, <1>4, <1>5, <1>6, VariableStep

\* What the script or a handle already has, or what holds no object.
LEMMA AssignStep ==
    ASSUME TypesInv, NEW x \in Variables, NEW v, MayHold(v, owned, lent), values' = [values EXCEPT ![x] = v],
           UNCHANGED <<nameOf, class, shared, owned, made, refs, handle, methods, lent>>
    PROVE  TypesInv'
<1>1. /\ owned' \subseteq OwnObject /\ made' \in Nat /\ lent' \subseteq Types /\ shared' \in ClassNames \union {None}
      /\ \A o \in owned' : <<o.type, o.table>> \in methods
      /\ shared' # None => \E W \in lent' : <<W, shared'>> \in methods
  BY DEF TypesInv, ObjectTypes, Registered
<1> QED
  BY <1>1, VariableStep

\* A script assigns to a variable.
LEMMA OfVariableStep ==
    ASSUME TypesInv, NEW x \in Variables, Objects!OfVariable(x)
    PROVE  TypesInv'
<1>1. PICK v : /\ v = Objects!Nil \/ v = Objects!Table(Objects!LuasOwn) \/ \E y \in Variables : v = values[y]
               /\ Objects!Assign(x, v)
  BY DEF Objects!OfVariable
<1>2. MayHold(v, owned, lent)
  <2>1. \A y \in Variables : MayHold(values[y], owned, lent)
    BY DEF TypesInv, ObjectTypes
  <2>2. MayHold(Objects!Nil, owned, lent) /\ MayHold(Objects!Table(Objects!LuasOwn), owned, lent)
    BY DEF MayHold
  <2> QED
    BY <1>1, <2>1, <2>2
<1> QED
  BY <1>1, <1>2, AssignStep DEF Objects!Assign

\* C++ pushes what a handle is of.
LEMMA PushHandleStep ==
    ASSUME TypesInv, NEW h \in Handles, NEW x \in Variables, Objects!PushHandle(h, x)
    PROVE  TypesInv'
<1> DEFINE v == IF handle[h].ref = Objects!RefNil THEN Objects!Nil ELSE refs[handle[h].ref]
<1>1. handle[h] # None /\ HandleFits(handle[h], refs)
  BY DEF Objects!PushHandle, TypesInv, HandlesFit
<1>2. handle[h].ref = Objects!RefNil \/ handle[h].ref \in Objects!Refs
  <2>1. CASE handle[h] = [object |-> None, ref |-> Objects!RefNil]
    BY <2>1
  <2>2. ASSUME NEW r \in Objects!Refs, handle[h] = [object |-> Objects!AddressIn(refs[r]), ref |-> r]
        PROVE  handle[h].ref \in Objects!Refs
    BY <2>2
  <2> QED
    BY <1>1, <2>1, <2>2 DEF HandleFits
<1>3. MayHold(v, owned, lent)
  <2>1. \A r \in Objects!Refs : MayHold(refs[r], owned, lent)
    BY DEF TypesInv, ObjectTypes
  <2>2. MayHold(Objects!Nil, owned, lent)
    BY DEF MayHold
  <2> QED
    BY <1>2, <2>1, <2>2
<1>4. values' = [values EXCEPT ![x] = v] /\ UNCHANGED <<nameOf, class, shared, owned, made, refs, handle, methods, lent>>
  BY DEF Objects!PushHandle
<1> HIDE DEF v
<1> QED
  BY <1>3, <1>4, AssignStep

\* Every handle but one cannot use up the registry's places.
LEMMA PlaceIsFree ==
    ASSUME TypesInv, NEW h \in Handles, handle[h] = None
    PROVE  /\ Objects!Min(Objects!Free) \in Objects!Free
           /\ Objects!Free \subseteq Objects!Refs
<1> DEFINE others == Handles \ {h}
           n == Cardinality(Handles)
<1>1. IsFiniteSet(others) /\ Cardinality(others) = n - 1 /\ n \in Nat
  BY TypesAssumption, FS_RemoveElement, FS_CardinalityType
<1>2. Objects!Refs = 1..n
  <2>1. \A S : Objects!Cardinality(S) = Cardinality(S)
    BY DEF Objects!Cardinality, Cardinality
  <2> QED
    BY <2>1 DEF Objects!Refs
<1>3. IsFiniteSet(1..n) /\ Cardinality(1..n) = n
  BY <1>1, FS_Interval
<1>4. Objects!Free # {}
  <2> SUFFICES ASSUME Objects!Free = {} PROVE FALSE
    OBVIOUS
  <2>1. \A r \in 1..n : \E g \in others : handle[g].ref = r
    BY <1>2 DEF Objects!Free
  <2> DEFINE taken == {handle[g].ref : g \in others}
             f == [g \in others |-> handle[g].ref]
  <2>2. f \in Surjection(others, taken)
    BY DEF Surjection
  <2>3. IsFiniteSet(taken) /\ Cardinality(taken) <= n - 1 /\ Cardinality(taken) \in Nat
    BY <1>1, <2>2, FS_Surjection, FS_CardinalityType
  <2>4. 1..n \subseteq taken
    BY <2>1
  <2>5. Cardinality(1..n) <= Cardinality(taken)
    BY <2>3, <2>4, FS_Subset
  <2> QED
    BY <1>1, <1>3, <2>3, <2>5
<1>5. Objects!Free \subseteq Objects!Refs /\ Objects!Free \in SUBSET Nat
  BY <1>1, <1>2 DEF Objects!Free
<1>6. \A S : Objects!Min(S) = Min(S)
  BY DEF Objects!Min, Min
<1> QED
  BY <1>4, <1>5, <1>6, Least

\* A handle gets a place of the registry.
LEMMA PinStep ==
    ASSUME TypesInv, NEW h \in Handles, NEW T \in Types, NEW x \in Variables, Objects!Pin(h, T, x)
    PROVE  TypesInv'
<1> DEFINE o == Objects!Got(T, values[x])
           r == Objects!Min(Objects!Free)
<1>1. handle[h] = None /\ UNCHANGED <<nameOf, class, shared, values, owned, made, methods, lent>>
  BY DEF Objects!Pin
<1>2. r \in Objects!Free /\ r \in Objects!Refs
  BY <1>1, PlaceIsFree
<1>3. CASE o = None
  <2> DEFINE c == [object |-> None, ref |-> Objects!RefNil]
  <2>1. handle' = [handle EXCEPT ![h] = c] /\ refs' = refs
    BY <1>3 DEF Objects!Pin
  <2>2. HandleFits(c, refs)
    BY DEF HandleFits
  <2> HIDE DEF c
  <2>3. DOMAIN handle' = Handles /\ \A g \in Handles : handle'[g] = c \/ handle'[g] = handle[g]
    BY <2>1 DEF TypesInv, ObjectTypes
  <2>4. HandlesFit'
    BY <2>1, <2>2, <2>3 DEF TypesInv, HandlesFit, HandleFits, Objects!AddressIn
  <2> QED
    BY <1>1, <2>1, <2>3, <2>4 DEF TypesInv, ObjectTypes, Registered
<1>4. CASE o # None
  <2> DEFINE c == [object |-> o, ref |-> r]
  <2>1. handle' = [handle EXCEPT ![h] = c] /\ refs' = [refs EXCEPT ![r] = values[x]]
    BY <1>4 DEF Objects!Pin
  <2>2. o = Objects!AddressIn(values[x])
    BY <1>4 DEF Objects!Got
  <2>3. DOMAIN refs' = Objects!Refs /\ refs'[r] = values[x] /\ \A q \in Objects!Refs : q # r => refs'[q] = refs[q]
    BY <1>2, <2>1 DEF TypesInv, ObjectTypes
  <2>4. DOMAIN handle' = Handles /\ handle'[h] = c /\ \A g \in Handles : g # h => handle'[g] = handle[g]
    BY <2>1 DEF TypesInv, ObjectTypes
  <2>5. HandleFits(handle'[h], refs')
    BY <1>2, <2>2, <2>3, <2>4 DEF HandleFits
  <2> HIDE DEF c
  <2>6. ASSUME NEW g \in Handles, g # h PROVE HandleFits(handle'[g], refs')
    <3>1. HandleFits(handle[g], refs) /\ handle'[g] = handle[g]
      BY <2>4, <2>6 DEF TypesInv, HandlesFit
    <3>2. ASSUME NEW q \in Objects!Refs, handle[g] = [object |-> Objects!AddressIn(refs[q]), ref |-> q], handle[g] # None
          PROVE  HandleFits(handle'[g], refs')
      <4>1. handle[g].ref = q
        BY <3>2
      <4>2. q # r
        BY <1>2, <3>2, <4>1 DEF Objects!Free
      <4> QED
        BY <2>3, <3>1, <3>2, <4>2 DEF HandleFits
    <3> QED
      BY <3>1, <3>2 DEF HandleFits
  <2>7. \A q \in Objects!Refs : MayHold(refs'[q], owned, lent)
    BY <2>3 DEF TypesInv, ObjectTypes
  <2>8. HandlesFit'
    BY <2>5, <2>6 DEF HandlesFit, HandleFits, Objects!AddressIn
  <2> QED
    BY <1>1, <2>3, <2>4, <2>7, <2>8 DEF TypesInv, ObjectTypes, Registered
<1> QED
  BY <1>3, <1>4

\* A handle is copied, with its place.
LEMMA CopyStep ==
    ASSUME TypesInv, NEW h \in Handles, NEW g \in Handles, Objects!CopyHandle(h, g)
    PROVE  TypesInv'
<1>1. /\ handle' = [handle EXCEPT ![h] = handle[g]]
      /\ UNCHANGED <<nameOf, class, shared, values, owned, made, refs, methods, lent>>
  BY DEF Objects!CopyHandle
<1>2. DOMAIN handle' = Handles /\ \A k \in Handles : handle'[k] = handle[g] \/ handle'[k] = handle[k]
  BY <1>1 DEF TypesInv, ObjectTypes
<1>3. \A k \in Handles : HandleFits(handle'[k], refs)
  BY <1>2 DEF TypesInv, HandlesFit
<1>4. HandlesFit'
  BY <1>1, <1>3 DEF HandlesFit, HandleFits, Objects!AddressIn
<1> QED
  BY <1>1, <1>2, <1>4 DEF TypesInv, ObjectTypes, Registered

\* A handle goes, and with the last copy its place.
LEMMA DropStep ==
    ASSUME TypesInv, NEW h \in Handles, Objects!Drop(h)
    PROVE  TypesInv'
<1>1. /\ handle' = [handle EXCEPT ![h] = None]
      /\ refs' = [r \in Objects!Refs |-> IF r \in Objects!Unrefs(h) THEN Objects!Nil ELSE refs[r]]
      /\ UNCHANGED <<nameOf, class, shared, values, owned, made, methods, lent>>
  BY DEF Objects!Drop
<1>2. DOMAIN handle' = Handles /\ handle'[h] = None /\ \A g \in Handles : g # h => handle'[g] = handle[g]
  BY <1>1 DEF TypesInv, ObjectTypes
<1>3. /\ DOMAIN refs' = Objects!Refs
      /\ \A r \in Objects!Refs : refs'[r] = IF r \in Objects!Unrefs(h) THEN Objects!Nil ELSE refs[r]
  BY <1>1
<1>4. ASSUME NEW g \in Handles PROVE HandleFits(handle'[g], refs')
  <2>1. CASE g = h
    BY <1>2, <2>1 DEF HandleFits
  <2>2. CASE g # h
    <3>1. HandleFits(handle[g], refs) /\ handle'[g] = handle[g]
      BY <1>2, <2>2 DEF TypesInv, HandlesFit
    <3>2. ASSUME NEW q \in Objects!Refs, handle[g] = [object |-> Objects!AddressIn(refs[q]), ref |-> q], handle[g] # None
          PROVE  HandleFits(handle'[g], refs')
      <4>1. handle[g].ref = q
        BY <3>2
      <4>2. q \notin Objects!Unrefs(h)
        BY <2>2, <3>2, <4>1 DEF Objects!Unrefs
      <4>3. refs'[q] = refs[q]
        BY <1>3, <4>2
      <4> QED
        BY <3>1, <3>2, <4>3 DEF HandleFits
    <3> QED
      BY <3>1, <3>2 DEF HandleFits
  <2> QED
    BY <2>1, <2>2
<1>5. HandlesFit'
  BY <1>4 DEF HandlesFit, HandleFits, Objects!AddressIn
<1>6. \A r \in Objects!Refs : MayHold(refs'[r], owned, lent)
  <2>1. MayHold(Objects!Nil, owned, lent)
    BY DEF MayHold
  <2> QED
    BY <1>3, <2>1 DEF TypesInv, ObjectTypes
<1> QED
  BY <1>1, <1>2, <1>3, <1>5, <1>6 DEF TypesInv, ObjectTypes, Registered

\* Only what nobody holds is collected.
LEMMA CollectStep ==
    ASSUME TypesInv, NEW o, Objects!Collect(o)
    PROVE  TypesInv'
<1>1. /\ Objects!Full(o) \notin Objects!Held /\ owned' = owned \ {o}
      /\ UNCHANGED <<nameOf, class, shared, values, made, refs, handle, methods, lent>>
  BY DEF Objects!Collect
<1>2. ASSUME NEW v \in Objects!Held, MayHold(v, owned, lent) PROVE MayHold(v, owned', lent)
  BY <1>1, <1>2 DEF MayHold
<1>3. /\ \A x \in Variables : MayHold(values[x], owned', lent)
      /\ \A r \in Objects!Refs : MayHold(refs[r], owned', lent)
  BY <1>2 DEF TypesInv, ObjectTypes, Objects!Held
<1>4. ObjectTypes' /\ Registered'
  BY <1>1, <1>3 DEF TypesInv, ObjectTypes, Registered
<1>5. HandlesFit'
  BY <1>1 DEF TypesInv, HandlesFit, HandleFits, Objects!AddressIn
<1> QED
  BY <1>4, <1>5 DEF TypesInv

\* The state is closed, which no handle survives: Lua has no variables any more.
LEMMA CloseStep == TypesInv /\ Objects!Close => TypesInv'
<1> SUFFICES ASSUME TypesInv, Objects!Close PROVE TypesInv'
  OBVIOUS
<1>1. /\ values' = [x \in Variables |-> Objects!Nil]
      /\ UNCHANGED <<nameOf, class, shared, owned, made, refs, handle, methods, lent>>
  BY DEF Objects!Close
<1>2. DOMAIN values' = Variables /\ \A x \in Variables : MayHold(values'[x], owned, lent)
  BY <1>1 DEF MayHold
<1>3. HandlesFit'
  BY <1>1 DEF TypesInv, HandlesFit, HandleFits, Objects!AddressIn
<1> QED
  BY <1>1, <1>2, <1>3 DEF TypesInv, ObjectTypes, Registered

\* The steps together.
LEMMA TypesNext == TypesInv /\ [Objects!Next]_(Objects!vars) => TypesInv'
<1> SUFFICES ASSUME TypesInv, [Objects!Next]_(Objects!vars) PROVE TypesInv'
  OBVIOUS
<1>1. ASSUME UNCHANGED Objects!vars PROVE TypesInv'
  BY <1>1 DEF Objects!vars, TypesInv, ObjectTypes, HandlesFit, HandleFits, Objects!AddressIn,
     Registered
<1>2. ASSUME NEW T \in Types, NEW x \in Variables, Objects!FromCpp(T, x) PROVE TypesInv'
  <2>1. ASSUME Objects!PushObject(T, x) PROVE TypesInv'
    <3>1. nameOf[T] \in ClassNames /\ <<T, nameOf[T]>> \in methods
      BY <2>1 DEF Objects!PushObject, Objects!IsRegisteredType, TypesInv, ObjectTypes, Registered
    <3> QED
      BY <2>1, <3>1, NewObjectStep DEF Objects!PushObject
  <2> QED
    BY <1>2, <2>1, FromCppStep DEF Objects!FromCpp
<1>3. ASSUME NEW T \in Types, NEW n \in ClassNames, Objects!OfClass(T, n) PROVE TypesInv'
  BY <1>3, RegisterStep, NewObjectStep DEF Objects!OfClass, Objects!Construct
<1>4. ASSUME NEW h \in Handles, Objects!OfHandle(h) PROVE TypesInv'
  BY <1>4, DropStep, CopyStep, PushHandleStep, PinStep DEF Objects!OfHandle
<1>5. ASSUME Objects!Over PROVE TypesInv'
  BY <1>1, <1>5 DEF Objects!Over
<1> QED
  BY <1>1, <1>2, <1>3, <1>4, <1>5, OfVariableStep, CloseStep, CollectStep DEF Objects!Next

\* Nothing is registered at the start.
LEMMA TypesStart == Objects!Init => TypesInv
<1> SUFFICES ASSUME Objects!Init PROVE TypesInv
  OBVIOUS
<1>1. ObjectTypes
  <2>1. MayHold(Objects!Nil, {}, {})
    BY DEF MayHold
  <2> QED
    BY <2>1 DEF Objects!Init, ObjectTypes
<1>2. HandlesFit /\ Registered
  BY DEF Objects!Init, HandlesFit, HandleFits, Registered
<1> QED
  BY <1>1, <1>2 DEF TypesInv

-----------------------------------------------------------------------------
(***************************************************************************)
(* LuaStack.                                                               *)
(***************************************************************************)

\* What stacks hold.  An error alone has a stored exception.
Cells == [is : {"argument", "handler", "result", "nil"}, of : Nat]
            \union [is : {"error"}, of : Nat, stored : Exceptions \union {None}]
\* A running C++ function.
AnyFrame ==
    [cells : Seq(Cells), kind : Stack!Kinds \union {None}, id : Nat, saved : Nat,
     listening : BOOLEAN, pcalls : Nat, pending : Exceptions \union {None}]

\* A frame in a call: what is above the saved top is the message handler or nothing.
InCall(f) ==
    /\ f.kind \in Stack!Kinds
    /\ Len(f.cells) = f.saved + (IF Stack!SetsHandler(f.kind) THEN 1 ELSE 0)

\* The types; there is always a C++ function, and scripts can always raise a message.
StackTypes ==
    /\ frames \in Seq(AnyFrame) /\ Len(frames) >= 1
    /\ control \in {"cpp", "arguments", "lua", "unwinds", "terminated"}
    /\ luaCalls \in Nat
    /\ exception \in Exceptions \union {None}
    /\ raisable \in SUBSET (Exceptions \union {None}) /\ None \in raisable
    /\ control = "arguments" => Len(frames) >= 2

\* All the functions but the innermost one are in a call, and that one is, too, while
\* Lua runs.
CallsNest ==
    /\ \A i \in 1..(Len(frames) - 1) : InCall(frames[i])
    /\ control = "lua" => InCall(frames[Len(frames)])

\* An exception unwinds, or there is none; and only a destructor is in a call while one
\* waits.
OneAtATime ==
    /\ control # "terminated"
    /\ control # "unwinds" => exception = None
    /\ \A i \in DOMAIN frames : frames[i].pending # None => frames[i].kind = "discard"

StackInv == StackTypes /\ CallsNest /\ OneAtATime /\ Stack!SinglesAreOwn

\* Two ways to write the frames of which the last one is replaced or left out.
LEMMA TopReplaced ==
    ASSUME StackTypes, NEW f \in AnyFrame, frames' = Stack!WithTop(f)
    PROVE  /\ frames' \in Seq(AnyFrame) /\ Len(frames') = Len(frames)
           /\ frames'[Len(frames')] = f
           /\ \A i \in 1..(Len(frames) - 1) : frames'[i] = frames[i]
  BY DEF Stack!WithTop, StackTypes

\* The functions but the innermost one.
LEMMA BelowIs ==
    ASSUME StackTypes
    PROVE  /\ Stack!Below \in Seq(AnyFrame) /\ Len(Stack!Below) = Len(frames) - 1
           /\ \A i \in 1..(Len(frames) - 1) : Stack!Below[i] = frames[i]
<1>1. frames \in Seq(AnyFrame) /\ Len(frames) \in Nat /\ Len(frames) >= 1
  BY DEF StackTypes
<1>2. Len(frames) - 1 - 1 + 1 = Len(frames) - 1 /\ \A i \in 1..(Len(frames) - 1) : 1 + i - 1 = i
  BY <1>1
<1>4. 1 \in Nat \ {0} /\ Len(frames) - 1 \in Int /\ Len(frames) - 1 <= Len(frames) /\ 1 <= Len(frames) - 1 + 1
  BY <1>1
<1>3. /\ Stack!Below \in Seq(AnyFrame) /\ Len(Stack!Below) = Len(frames) - 1 - 1 + 1
      /\ \A i \in 1..(Len(frames) - 1 - 1 + 1) : Stack!Below[i] = frames[1 + i - 1]
  BY <1>1, <1>4, PartOf DEF Stack!Below
<1> QED
  BY <1>1, <1>2, <1>3

\* What is left above the saved top when the message handler has been removed.
LEMMA RemovedIs ==
    ASSUME NEW f \in AnyFrame, InCall(f), NEW top \in Seq(Cells)
    PROVE  LET left == Stack!Removed(f, f.cells \o top)
               tuple == f.kind \in Stack!Tuples /\ f.saved = 0
           IN  /\ left \in Seq(Cells)
               /\ Len(top) >= 1 => Len(left) >= 1 /\ left[Len(left)] = top[Len(top)]
               /\ tuple => left = top
<1> DEFINE all == f.cells \o top
           left == Stack!Removed(f, all)
           low == SubSeq(all, 1, f.saved)
           high == SubSeq(all, f.saved + 2, Len(all))
<1>1. /\ f.cells \in Seq(Cells) /\ f.saved \in Nat /\ Len(f.cells) >= f.saved
      /\ f.kind \in Stack!Kinds
      /\ Stack!SetsHandler(f.kind) => Len(f.cells) = f.saved + 1
  BY DEF AnyFrame, InCall
<1>2. /\ all \in Seq(Cells) /\ Len(all) = Len(f.cells) + Len(top)
      /\ \A i \in 1..Len(top) : all[Len(f.cells) + i] = top[i]
  BY <1>1
<1> HIDE DEF all, low, high, left
<1>6. Len(top) \in Nat /\ Len(f.cells) \in Nat
  BY <1>1
<1>3. CASE f.kind \in Stack!Selectors \union {"functionTuple"}
  <2>1. Len(f.cells) = f.saved + 1
    BY <1>1, <1>3 DEF Stack!SetsHandler, Stack!Selectors, Stack!Scripts
  <2>2. low \in Seq(Cells) /\ Len(low) = f.saved
    BY <1>1, <1>2, <1>6, <2>1, PartOf DEF low
  <2>10. /\ f.saved + 2 <= Len(all) + 1 /\ Len(all) - (f.saved + 2) + 1 = Len(top)
         /\ Len(all) \in Int /\ Len(all) <= Len(all) /\ f.saved + 2 \in Nat \ {0}
    <3>1. Len(all) = Len(f.cells) + Len(top) /\ f.saved \in Nat
      BY <1>1, <1>2
    <3>2. f.saved + 2 <= Len(all) + 1
      BY <1>6, <2>1, <3>1
    <3>3. Len(all) - (f.saved + 2) + 1 = Len(top)
      BY <1>6, <2>1, <3>1
    <3>4. Len(all) \in Int
      BY <1>6, <2>1, <3>1
    <3>5. Len(all) <= Len(all)
      BY <3>4
    <3>6. f.saved + 2 \in Nat \ {0}
      BY <3>1
    <3> QED
      BY <3>2, <3>3, <3>4, <3>5, <3>6
  <2>3. /\ high \in Seq(Cells) /\ Len(high) = Len(top)
        /\ \A i \in 1..Len(top) : high[i] = all[f.saved + 2 + i - 1]
    <3>1. /\ high \in Seq(Cells) /\ Len(high) = Len(all) - (f.saved + 2) + 1
          /\ \A i \in 1..(Len(all) - (f.saved + 2) + 1) : high[i] = all[f.saved + 2 + i - 1]
      <4> DEFINE lo == f.saved + 2
                 hi == Len(all)
      <4>1. /\ all \in Seq(Cells) /\ lo \in Nat \ {0} /\ hi \in Int
            /\ hi <= Len(all) /\ lo <= hi + 1
        BY <1>2, <2>10
      <4> HIDE DEF lo, hi
      <4>2. /\ SubSeq(all, lo, hi) \in Seq(Cells)
            /\ Len(SubSeq(all, lo, hi)) = hi - lo + 1
            /\ \A i \in 1..(hi - lo + 1) : SubSeq(all, lo, hi)[i] = all[lo + i - 1]
        BY <4>1, PartOf
      <4> QED
        BY <4>2 DEF high, lo, hi
    <3> QED
      BY <2>10, <3>1
  <2>4. \A i \in 1..Len(top) : high[i] = top[i]
    <3> TAKE i \in 1..Len(top)
    <3>1. f.saved + 2 + i - 1 = Len(f.cells) + i
      BY <1>1, <1>6, <2>1
    <3> QED
      BY <1>2, <2>3, <3>1
  <2>5. left = low \o high
    BY <1>3 DEF Stack!Removed, low, high, left
  <2>6. f.saved = 0 => left = top
    BY <2>2, <2>3, <2>4, <2>5
  <2>7. Len(left) = Len(low) + Len(high) /\ left \in Seq(Cells)
    BY <2>2, <2>3, <2>5, ConcatProperties
  <2>8. Len(top) >= 1 => left[Len(left)] = high[Len(high)]
    BY <2>2, <2>3, <2>5, <2>7
  <2>9. Len(top) >= 1 => Len(left) >= 1 /\ left[Len(left)] = top[Len(top)]
    BY <1>1, <2>2, <2>3, <2>4, <2>7, <2>8
  <2> QED
    BY <2>6, <2>7, <2>9 DEF all, left
<1>4. CASE f.kind \notin Stack!Selectors \union {"functionTuple"}
  <2>1. left = all
    BY <1>4 DEF Stack!Removed, left
  <2>2. f.kind \notin Stack!Tuples
    BY <1>4 DEF Stack!Tuples, Stack!Selectors
  <2>3. left \in Seq(Cells) /\ (Len(top) >= 1 => Len(left) >= 1 /\ left[Len(left)] = top[Len(top)])
    BY <1>1, <1>2, <2>1
  <2> QED
    BY <2>2, <2>3 DEF all, left
<1> QED
  BY <1>3, <1>4

\* What a call reads when Lua has left the cells "top": cells of these or none, except
\* for multiple results in a function with something on its stack.
LEMMA ReadIs ==
    ASSUME NEW f \in AnyFrame, InCall(f), NEW top \in Seq(Cells),
           f.kind \in {"convert", "function"} => Len(top) >= 1,
           f.kind \notin Stack!Tuples \/ f.saved = 0
    PROVE  LET read == Stack!Read(f, Stack!Removed(f, f.cells \o top))
           IN  \A i \in DOMAIN read : read[i] = Stack!NoCell \/ \E k \in 1..Len(top) : read[i] = top[k]
<1> DEFINE left == Stack!Removed(f, f.cells \o top)
           read == Stack!Read(f, left)
<1> SUFFICES \A i \in DOMAIN read : read[i] = Stack!NoCell \/ \E k \in 1..Len(top) : read[i] = top[k]
  OBVIOUS
<1>1. /\ left \in Seq(Cells)
      /\ Len(top) >= 1 => Len(left) >= 1 /\ left[Len(left)] = top[Len(top)]
      /\ f.kind \in Stack!Tuples => left = top
  BY RemovedIs
<1> HIDE DEF left
<1>2. CASE f.kind \in Stack!Tuples
  <2>1. read = <<Stack!CellAt(left, 1), Stack!CellAt(left, 2)>>
    BY <1>2 DEF Stack!Read, Stack!Tuples
  <2>2. \A i \in {1, 2} : Stack!CellAt(left, i) = Stack!NoCell \/ \E k \in 1..Len(top) : Stack!CellAt(left, i) = top[k]
    BY <1>1, <1>2 DEF Stack!CellAt
  <2> HIDE DEF read
  <2> QED
    BY <2>1, <2>2
<1>3. CASE f.kind \in {"convert", "function"}
  <2>1. read = <<left[Len(left)]>>
    BY <1>3 DEF Stack!Read, Stack!Single, Stack!Tuples
  <2> HIDE DEF read
  <2>2. \A i \in DOMAIN read : read[i] = left[Len(left)]
    BY <2>1
  <2>3. Len(top) \in Nat /\ Len(top) >= 1
    BY <1>3
  <2> QED
    BY <1>1, <2>2, <2>3
<1>4. CASE f.kind \notin Stack!Tuples \union {"convert", "function"}
  <2>1. read = <<>>
    BY <1>4 DEF Stack!Read
  <2> HIDE DEF read
  <2> QED
    BY <2>1
<1> QED
  BY <1>2, <1>3, <1>4

\* Frame g takes the place n, and the frames above it are gone.
LEMMA CutTo ==
    ASSUME StackTypes, NEW n \in 1..Len(frames), NEW g \in AnyFrame,
           frames' = Append(SubSeq(frames, 1, n - 1), g)
    PROVE  /\ frames' \in Seq(AnyFrame) /\ Len(frames') = n /\ frames'[n] = g
           /\ \A i \in 1..(n - 1) : frames'[i] = frames[i]
<1> DEFINE low == SubSeq(frames, 1, n - 1)
<1>1. frames \in Seq(AnyFrame) /\ n \in Nat /\ 1 <= n /\ n <= Len(frames)
  BY DEF StackTypes
<1>2. low \in Seq(AnyFrame) /\ Len(low) = n - 1 /\ \A i \in 1..(n - 1) : low[i] = frames[i]
  <2>1. n - 1 \in Int /\ n - 1 <= Len(frames) /\ 1 <= n - 1 + 1 /\ n - 1 - 1 + 1 = n - 1
    BY <1>1
  <2>2. /\ low \in Seq(AnyFrame) /\ Len(low) = n - 1 - 1 + 1
        /\ \A i \in 1..(n - 1 - 1 + 1) : low[i] = frames[1 + i - 1]
    BY <1>1, <2>1, PartOf
  <2>3. \A i \in 1..(n - 1) : 1 + i - 1 = i
    BY <1>1
  <2> QED
    BY <2>1, <2>2, <2>3
<1> HIDE DEF low
<1>3. frames' = Append(low, g)
  BY DEF low
<1> QED
  BY <1>1, <1>2, <1>3

\* The frames that a call at place n leaves when it ends: those below, and the function
\* that has made it, which is in no call any more.
LEMMA CallEnds ==
    ASSUME StackTypes, CallsNest, OneAtATime, NEW n \in 1..Len(frames), InCall(frames[n]),
           frames' = Append(SubSeq(frames, 1, n - 1), Stack!Reset(frames[n]))
    PROVE  /\ frames' \in Seq(AnyFrame) /\ Len(frames') = n
           /\ \A i \in 1..(n - 1) : InCall(frames'[i])
           /\ \A i \in DOMAIN frames' : frames'[i].pending # None => frames'[i].kind = "discard"
           /\ Len(frames'[n].cells) = frames[n].saved
<1> DEFINE f == frames[n]
           g == Stack!Reset(f)
<1>1. frames \in Seq(AnyFrame) /\ n \in Nat /\ 1 <= n /\ n <= Len(frames)
  BY DEF StackTypes
<1>2. f \in AnyFrame /\ f.cells \in Seq(Cells) /\ f.saved \in Nat
  <2>1. f \in AnyFrame
    BY <1>1
  <2> QED
    BY <2>1 DEF AnyFrame
<1>3. f.saved <= Len(f.cells) /\ Len(f.cells) \in Nat
  BY <1>2 DEF InCall
<1>4. SubSeq(f.cells, 1, f.saved) \in Seq(Cells) /\ Len(SubSeq(f.cells, 1, f.saved)) = f.saved
  <2>1. 1 <= f.saved + 1 /\ f.saved \in Int /\ f.saved - 1 + 1 = f.saved
    BY <1>2
  <2> QED
    BY <1>2, <1>3, <2>1, PartOf
<1>5. g \in AnyFrame /\ g.cells = SubSeq(f.cells, 1, f.saved) /\ g.pending = None
  <2>1. g = [cells |-> SubSeq(f.cells, 1, f.saved), kind |-> None, id |-> 0, saved |-> 0,
             listening |-> FALSE, pcalls |-> 0, pending |-> None]
    BY DEF Stack!Reset, Stack!Frame
  <2> QED
    BY <1>4, <2>1 DEF AnyFrame
<1>8. /\ frames' \in Seq(AnyFrame) /\ Len(frames') = n /\ frames'[n] = g
      /\ \A i \in 1..(n - 1) : frames'[i] = frames[i]
  BY <1>5, CutTo
<1> HIDE DEF f, g
<1>9. \A i \in 1..(n - 1) : InCall(frames[i]) /\ (frames[i].pending # None => frames[i].kind = "discard")
  BY <1>1 DEF CallsNest, OneAtATime
<1>10. \A i \in DOMAIN frames' : i = n \/ i \in 1..(n - 1)
  BY <1>1, <1>8
<1>11. \A i \in 1..(n - 1) : InCall(frames'[i])
  BY <1>8, <1>9
<1>12. \A i \in DOMAIN frames' : frames'[i].pending # None => frames'[i].kind = "discard"
  BY <1>5, <1>8, <1>9, <1>10
<1> QED
  BY <1>4, <1>5, <1>8, <1>11, <1>12 DEF f

\* The call at place n ends with "top" on the stack, whatever it is that Lua has
\* returned, or the error.
LEMMA FinishKeeps ==
    ASSUME StackInv, NEW n \in 1..Len(frames), InCall(frames[n]),
           NEW top \in Seq(Cells),
           frames[n].kind \in {"convert", "function"} => Len(top) >= 1,
           \A k \in 1..Len(top) :
                top[k].is = "nil" \/ (top[k].is \in {"result", "error"} /\ top[k].of = frames[n].id),
           Stack!Finish(SubSeq(frames, 1, n - 1), frames[n],
                        Stack!Removed(frames[n], frames[n].cells \o top)),
           UNCHANGED <<luaCalls, raisable>>
    PROVE  StackInv'
<1> DEFINE f == frames[n]
           read == Stack!Read(f, Stack!Removed(f, f.cells \o top))
<1>1. /\ frames' = Append(SubSeq(frames, 1, n - 1), Stack!Reset(f))
      /\ result' = [of |-> f.id, kind |-> f.kind, cells |-> read]
      /\ control' = IF f.pending = None THEN "cpp" ELSE "unwinds"
      /\ exception' = f.pending
  BY DEF Stack!Finish
<1>2. f \in AnyFrame /\ n \in Nat /\ 1 <= n
  BY DEF StackInv, StackTypes
<1>3. /\ frames' \in Seq(AnyFrame) /\ Len(frames') = n
      /\ \A i \in 1..(n - 1) : InCall(frames'[i])
      /\ \A i \in DOMAIN frames' : frames'[i].pending # None => frames'[i].kind = "discard"
      /\ Len(frames'[n].cells) = f.saved
  BY <1>1, CallEnds DEF StackInv
<1>4. StackTypes'
  BY <1>1, <1>2, <1>3 DEF StackInv, StackTypes, AnyFrame
<1>5. CallsNest'
  BY <1>1, <1>3 DEF CallsNest
<1>6. OneAtATime'
  BY <1>1, <1>3 DEF OneAtATime
<1>7. Stack!SinglesAreOwn'
  <2>1. CASE f.kind \in Stack!Tuples /\ f.saved # 0
    <3>1. Stack!Top' = frames'[n] /\ Stack!Top'.cells # <<>>
      BY <1>3, <2>1, EmptySeq DEF Stack!Top
    <3> QED
      BY <1>1, <2>1, <3>1 DEF Stack!SinglesAreOwn
  <2>2. CASE f.kind \notin Stack!Tuples \/ f.saved = 0
    <3>1. \A i \in DOMAIN read : read[i] = Stack!NoCell \/ \E k \in 1..Len(top) : read[i] = top[k]
      BY <1>2, <2>2, ReadIs
    <3> HIDE DEF read
    <3>2. result'.cells = read /\ result'.of = f.id
      BY <1>1
    <3>3. \A i \in DOMAIN read : read[i].is = "nil" \/ (read[i].is \in {"result", "error"} /\ read[i].of = f.id)
      BY <3>1 DEF Stack!NoCell
    <3>4. Stack!AllOwn'
      BY <3>2, <3>3 DEF Stack!IsOwn, Stack!AllOwn
    <3> QED
      BY <3>4 DEF Stack!SinglesAreOwn
  <2> QED
    BY <2>1, <2>2
<1> QED
  BY <1>4, <1>5, <1>6, <1>7 DEF StackInv

\* What the exception handler of the call of frame f hears when it fails with e.
ReportOf(f, e) ==
    IF ~f.listening THEN None
    ELSE [kind |-> f.kind, exception |-> IF f.kind = "load" THEN None ELSE e]

\* The call at place n fails with e, and the exception handler hears of e.
LEMMA FailKeeps ==
    ASSUME StackInv, NEW n \in 1..Len(frames), InCall(frames[n]),
           NEW e \in Exceptions \union {None},
           Stack!Fail(SubSeq(frames, 1, n - 1), frames[n], e)
    PROVE  StackInv' /\ reported' = ReportOf(frames[n], e)
<1> DEFINE f == frames[n]
           top == <<Stack!ErrorOf(f.id, e)>>
           cells == Stack!Removed(f, f.cells \o top)
<1>1. f \in AnyFrame /\ f.cells \in Seq(Cells) /\ f.id \in Nat /\ n \in Nat /\ 1 <= n
  <2>1. f \in AnyFrame /\ n \in Nat /\ 1 <= n
    BY DEF StackInv, StackTypes
  <2> QED
    BY <2>1 DEF AnyFrame
<1>2. Stack!ErrorOf(f.id, e) \in Cells /\ Stack!ErrorOf(f.id, e).stored = e
      /\ Stack!ErrorOf(f.id, e).is = "error" /\ Stack!ErrorOf(f.id, e).of = f.id
  BY <1>1 DEF Stack!ErrorOf, Cells
<1>3. top \in Seq(Cells) /\ Len(top) = 1 /\ top[1] = Stack!ErrorOf(f.id, e)
  BY <1>2
<1>4. Stack!AfterError(f, Stack!ErrorOf(f.id, e)) = cells
  <2>1. Append(f.cells, Stack!ErrorOf(f.id, e)) = f.cells \o top
    BY <1>1, <1>2, AppendIsConcat
  <2> QED
    BY <2>1 DEF Stack!AfterError, Stack!Handled
<1>5. cells[Len(cells)] = Stack!ErrorOf(f.id, e)
  <2>1. f \in AnyFrame /\ InCall(f) /\ top \in Seq(Cells) /\ Len(top) >= 1 /\ top[Len(top)] = Stack!ErrorOf(f.id, e)
    BY <1>1, <1>3
  <2> HIDE DEF f, top
  <2>2. cells[Len(cells)] = top[Len(top)]
    BY <2>1, RemovedIs
  <2> QED
    BY <2>1, <2>2
<1> HIDE DEF f, top, cells
<1>6. /\ reported' = Stack!Report(f, cells)
      /\ UNCHANGED <<luaCalls, raisable>>
      /\ \/ Stack!Finish(SubSeq(frames, 1, n - 1), f, cells)
         \/ Stack!HandlerThrows(SubSeq(frames, 1, n - 1), f)
  BY <1>4 DEF Stack!Fail, f
<1>7. reported' = ReportOf(frames[n], e)
  <2>1. reported' = ReportOf(f, e)
    BY <1>2, <1>5, <1>6 DEF Stack!Report, ReportOf
  <2> QED
    BY <2>1 DEF f
<1>8. CASE Stack!Finish(SubSeq(frames, 1, n - 1), f, cells)
  <2>1. \A k \in 1..Len(top) :
            top[k].is = "nil" \/ (top[k].is \in {"result", "error"} /\ top[k].of = f.id)
    BY <1>2, <1>3
  <2>2. StackInv'
    <3>1. Stack!Finish(SubSeq(frames, 1, n - 1), frames[n],
                       Stack!Removed(frames[n], frames[n].cells \o top))
      BY <1>8 DEF f, cells
    <3>2. \A k \in 1..Len(top) :
              top[k].is = "nil" \/ (top[k].is \in {"result", "error"} /\ top[k].of = frames[n].id)
      BY <2>1 DEF f
    <3>3. Len(top) >= 1 /\ UNCHANGED <<luaCalls, raisable>>
      BY <1>3, <1>6
    <3> QED
      BY <1>3, <3>1, <3>2, <3>3, FinishKeeps
  <2> QED
    BY <1>7, <2>2
<1>9. CASE Stack!HandlerThrows(SubSeq(frames, 1, n - 1), f)
  <2>1. f.pending = None
    <3>1. f.pending # None => f.kind = "discard"
      BY <1>1 DEF StackInv, StackTypes, OneAtATime, f
    <3> QED
      BY <1>9, <3>1 DEF Stack!HandlerThrows, Stack!Swallowed
  <2>2. [Stack!Reset(f) EXCEPT !.pending = f.pending] = Stack!Reset(f)
    <3> DEFINE g == Stack!Reset(f)
    <3>1. g \in [cells : {SubSeq(f.cells, 1, f.saved)}, kind : {None}, id : {0}, saved : {0},
                 listening : {FALSE}, pcalls : {0}, pending : {None}]
      BY DEF Stack!Reset, Stack!Frame
    <3> HIDE DEF g
    <3>2. [g EXCEPT !.pending = f.pending] = g
      BY <2>1, <3>1
    <3> QED
      BY <3>2 DEF g
  <2>3. /\ frames' = Append(SubSeq(frames, 1, n - 1), Stack!Reset(f))
        /\ result' = None /\ control' = "unwinds" /\ exception' \in Exceptions
    BY <1>9, <2>1, <2>2 DEF Stack!HandlerThrows
  <2>4. /\ frames' \in Seq(AnyFrame) /\ Len(frames') = n
        /\ \A i \in 1..(n - 1) : InCall(frames'[i])
        /\ \A i \in DOMAIN frames' : frames'[i].pending # None => frames'[i].kind = "discard"
    BY <2>3, CallEnds DEF StackInv, f
  <2>5. StackTypes' /\ CallsNest' /\ OneAtATime' /\ Stack!SinglesAreOwn'
    BY <1>1, <1>6, <2>3, <2>4
    DEF StackInv, StackTypes, CallsNest, OneAtATime, Stack!SinglesAreOwn
  <2> QED
    BY <1>7, <2>5 DEF StackInv
<1> QED
  BY <1>6, <1>8, <1>9

\* The frame at place n goes on with another number of pcalls, and Lua runs.
LEMMA PcallsKeep ==
    ASSUME StackInv, NEW n \in 1..Len(frames), InCall(frames[n]), NEW k \in Nat,
           frames' = Append(SubSeq(frames, 1, n - 1), [frames[n] EXCEPT !.pcalls = k]),
           control' = "lua", exception' = None, result' = None, luaCalls' = luaCalls,
           raisable' \in SUBSET (Exceptions \union {None}), None \in raisable'
    PROVE  StackInv'
<1> DEFINE f == frames[n]
           g == [f EXCEPT !.pcalls = k]
<1>1. frames \in Seq(AnyFrame) /\ n \in Nat /\ 1 <= n /\ n <= Len(frames)
  BY DEF StackInv, StackTypes
<1>2. f \in AnyFrame
  BY <1>1
<1>3. /\ g \in AnyFrame /\ g.cells = f.cells /\ g.kind = f.kind /\ g.saved = f.saved
      /\ g.pending = f.pending
  BY <1>2 DEF AnyFrame
<1>4. InCall(g)
  BY <1>3 DEF InCall
<1>5. /\ frames' \in Seq(AnyFrame) /\ Len(frames') = n /\ frames'[n] = g
      /\ \A i \in 1..(n - 1) : frames'[i] = frames[i]
  BY <1>3, CutTo DEF StackInv
<1>6. \A i \in DOMAIN frames : frames[i].pending # None => frames[i].kind = "discard"
  BY DEF StackInv, OneAtATime
<1>7. f.pending # None => f.kind = "discard"
  BY <1>1, <1>6
<1> HIDE DEF f, g
<1>8. \A i \in DOMAIN frames' : frames'[i].pending # None => frames'[i].kind = "discard"
  <2>1. \A i \in DOMAIN frames' : i = n \/ (i \in 1..(n - 1) /\ i \in DOMAIN frames)
    BY <1>1, <1>5
  <2> QED
    BY <1>3, <1>5, <1>6, <1>7, <2>1
<1>9. StackTypes'
  BY <1>1, <1>5 DEF StackInv, StackTypes
<1>10. CallsNest'
  <2>1. \A i \in 1..(n - 1) : InCall(frames[i])
    BY <1>1 DEF StackInv, CallsNest
  <2> QED
    BY <1>4, <1>5, <2>1 DEF CallsNest
<1>11. OneAtATime'
  BY <1>8 DEF OneAtATime
<1> QED
  BY <1>9, <1>10, <1>11 DEF StackInv, Stack!SinglesAreOwn

\* An error e in the scripts of the call at place n: they catch it, or the call fails.
LEMMA RaiseKeeps ==
    ASSUME StackInv, NEW n \in 1..Len(frames), InCall(frames[n]),
           NEW e \in Exceptions \union {None},
           Stack!Raise(SubSeq(frames, 1, n - 1), frames[n], e)
    PROVE  /\ StackInv'
           /\ \/ frames[n].pcalls > 0 /\ control' = "lua" /\ reported' = None /\ e \in raisable'
              \/ frames[n].pcalls = 0 /\ reported' = ReportOf(frames[n], e)
<1> DEFINE low == SubSeq(frames, 1, n - 1)
<1>1. CASE Stack!Caught(low, frames[n], e)
  <2> DEFINE k == frames[n].pcalls - 1
  <2>1. frames[n] \in AnyFrame /\ frames[n].pcalls > 0
    BY <1>1 DEF Stack!Caught, StackInv, StackTypes
  <2>2. k \in Nat
    BY <2>1 DEF AnyFrame
  <2>3. frames' = Append(low, [frames[n] EXCEPT !.pcalls = k])
    BY <1>1 DEF Stack!Caught
  <2>4. /\ control' = "lua" /\ exception' = None /\ raisable' = raisable \union {e}
        /\ result' = None /\ reported' = None /\ luaCalls' = luaCalls
    BY <1>1 DEF Stack!Caught
  <2>5. raisable' \in SUBSET (Exceptions \union {None}) /\ None \in raisable'
    BY <2>4 DEF StackInv, StackTypes
  <2> HIDE DEF k
  <2>6. StackInv'
    BY <2>2, <2>3, <2>4, <2>5, PcallsKeep
  <2> QED
    BY <2>1, <2>4, <2>6
<1>2. CASE frames[n].pcalls = 0 /\ Stack!Fail(low, frames[n], e)
  BY <1>2, FailKeeps
<1> QED
  BY <1>1, <1>2 DEF Stack!Raise

\* Scripts enter a pcall() or leave it.
LEMMA PcallKeeps ==
    ASSUME StackInv, Stack!PCall \/ Stack!PCallReturns
    PROVE  StackInv'
<1>1. /\ control = "lua" /\ control' = "lua" /\ result' = None
      /\ UNCHANGED <<luaCalls, exception, raisable>>
  BY DEF Stack!PCall, Stack!PCallReturns
<1>2. /\ frames \in Seq(AnyFrame) /\ Len(frames) \in 1..Len(frames) /\ InCall(frames[Len(frames)])
      /\ exception = None
  BY <1>1 DEF StackInv, StackTypes, CallsNest, OneAtATime
<1>3. frames[Len(frames)] \in AnyFrame /\ frames[Len(frames)].pcalls \in Nat
  <2>1. frames[Len(frames)] \in AnyFrame
    BY <1>2
  <2> QED
    BY <2>1 DEF AnyFrame
<1>4. PICK k \in Nat : frames' = Stack!WithTop([frames[Len(frames)] EXCEPT !.pcalls = k])
  <2>1. CASE Stack!PCall
    <3>1. frames[Len(frames)].pcalls + 1 \in Nat
      BY <1>3
    <3> QED
      BY <2>1, <3>1 DEF Stack!PCall, Stack!Top
  <2>2. CASE Stack!PCallReturns
    <3>1. frames[Len(frames)].pcalls - 1 \in Nat
      BY <1>3, <2>2 DEF Stack!PCallReturns, Stack!Top
    <3> QED
      BY <2>2, <3>1 DEF Stack!PCallReturns, Stack!Top
  <2> QED
    BY <2>1, <2>2
<1> DEFINE g == [frames[Len(frames)] EXCEPT !.pcalls = k]
<1>5. g \in AnyFrame
  BY <1>3 DEF AnyFrame
<1>6. frames' = Append(SubSeq(frames, 1, Len(frames) - 1), g)
  <2> HIDE DEF g
  <2> DEFINE cut == Append(SubSeq(frames, 1, Len(frames) - 1), g)
             n == Len(frames)
  <2>1. /\ frames' \in Seq(AnyFrame) /\ Len(frames') = n /\ frames'[n] = g
        /\ \A i \in 1..(n - 1) : frames'[i] = frames[i]
    <3>1. frames' = Stack!WithTop(g)
      BY <1>4 DEF g
    <3> QED
      BY <1>5, <3>1, TopReplaced DEF StackInv
  <2>2. /\ cut \in Seq(AnyFrame) /\ Len(cut) = n /\ cut[n] = g
        /\ \A i \in 1..(n - 1) : cut[i] = frames[i]
    <3>1. n - 1 \in Int /\ n - 1 <= Len(frames) /\ 1 <= n - 1 + 1 /\ n - 1 - 1 + 1 = n - 1
      BY <1>2
    <3>2. \A i \in 1..(n - 1) : 1 + i - 1 = i
      BY <1>2
    <3> DEFINE low == SubSeq(frames, 1, n - 1)
    <3>3. low \in Seq(AnyFrame) /\ Len(low) = n - 1 /\ \A i \in 1..(n - 1) : low[i] = frames[i]
      BY <1>2, <3>1, <3>2, PartOf
    <3> HIDE DEF low
    <3>4. cut = Append(low, g)
      BY DEF low
    <3> HIDE DEF cut
    <3> QED
      BY <1>2, <1>5, <3>3, <3>4
  <2> HIDE DEF cut
  <2>3. \A i \in 1..n : i = n \/ i \in 1..(n - 1)
    BY <1>2
  <2>4. \A i \in 1..n : frames'[i] = cut[i]
    BY <2>1, <2>2, <2>3
  <2>5. frames' = cut
    BY <2>1, <2>2, <2>4, SeqEqual
  <2> QED
    BY <2>5 DEF cut
<1>7. raisable' \in SUBSET (Exceptions \union {None}) /\ None \in raisable'
  BY <1>1 DEF StackInv, StackTypes
<1> QED
  BY <1>1, <1>2, <1>6, <1>7, PcallsKeep DEF g

\* C++ calls Lua: the function is in a call, with its message handler if it sets one.
LEMMA CallKeeps ==
    ASSUME StackInv, NEW kind \in Stack!Kinds, NEW listening \in BOOLEAN, Stack!Call(kind, listening)
    PROVE  StackInv'
<1> DEFINE top == Stack!Top
           cells == IF Stack!SetsHandler(kind) THEN Append(top.cells, Stack!Handler) ELSE top.cells
           f == [cells |-> cells, kind |-> kind, id |-> luaCalls + 1, saved |-> Len(top.cells),
                 listening |-> listening, pcalls |-> 0, pending |-> exception]
<1>1. /\ control = "cpp" \/ (control = "unwinds" /\ kind = "discard")
      /\ luaCalls' = luaCalls + 1 /\ frames' = Stack!WithTop(f)
      /\ control' = "lua" /\ exception' = None /\ result' = None /\ UNCHANGED raisable
  BY DEF Stack!Call
<1>2. top \in AnyFrame /\ top.cells \in Seq(Cells) /\ luaCalls \in Nat /\ exception \in Exceptions \union {None}
  <2>1. top \in AnyFrame /\ luaCalls \in Nat /\ exception \in Exceptions \union {None}
    BY DEF StackInv, StackTypes, Stack!Top
  <2> QED
    BY <2>1 DEF AnyFrame
<1>3. cells \in Seq(Cells) /\ Len(cells) = Len(top.cells) + (IF Stack!SetsHandler(kind) THEN 1 ELSE 0)
  <2>1. Stack!Handler \in Cells
    BY DEF Stack!Handler, Cells
  <2> HIDE DEF top
  <2>2. CASE Stack!SetsHandler(kind)
    BY <1>2, <2>1, <2>2
  <2>3. CASE ~Stack!SetsHandler(kind)
    BY <1>2, <2>3
  <2> QED
    BY <2>2, <2>3
<1> HIDE DEF cells
<1>4. f \in AnyFrame /\ InCall(f) /\ f.pending = exception /\ f.kind = kind
  BY <1>2, <1>3 DEF AnyFrame, InCall
<1>5. exception # None => kind = "discard"
  BY <1>1 DEF StackInv, OneAtATime
<1> HIDE DEF f
<1>6. /\ frames' \in Seq(AnyFrame) /\ Len(frames') = Len(frames)
      /\ frames'[Len(frames')] = f
      /\ \A i \in 1..(Len(frames) - 1) : frames'[i] = frames[i]
  BY <1>1, <1>4, TopReplaced DEF StackInv
<1>7. StackTypes'
  BY <1>1, <1>2, <1>6 DEF StackInv, StackTypes
<1>8. CallsNest'
  BY <1>1, <1>4, <1>6 DEF StackInv, CallsNest
<1>9. OneAtATime'
  <2>1. \A i \in DOMAIN frames' : i = Len(frames') \/ i \in 1..(Len(frames) - 1)
    BY <1>6 DEF StackInv, StackTypes
  <2> QED
    BY <1>1, <1>4, <1>5, <1>6, <2>1 DEF StackInv, StackTypes, OneAtATime
<1> QED
  BY <1>1, <1>7, <1>8, <1>9 DEF StackInv, Stack!SinglesAreOwn

\* Lua calls C++, which gets a stack of its own.
LEMMA CallBackKeeps ==
    ASSUME StackInv, NEW n \in 0..MaxArguments, Stack!CallBack(n)
    PROVE  StackInv'
<1> DEFINE arguments == [i \in 1..n |-> Stack!Argument(Len(frames) + 1)]
           f == Stack!Frame(arguments)
<1>1. /\ control = "lua" /\ frames' = Append(frames, f) /\ control' = "arguments"
      /\ result' = None /\ UNCHANGED <<luaCalls, exception, raisable>>
  BY DEF Stack!CallBack
<1>2. frames \in Seq(AnyFrame) /\ Len(frames) \in Nat /\ Len(frames) >= 1 /\ n \in Nat
  BY DEF StackInv, StackTypes
<1>3. arguments \in Seq(Cells)
  <2>1. Stack!Argument(Len(frames) + 1) \in Cells
    BY <1>2 DEF Stack!Argument, Cells
  <2> QED
    BY <1>2, <2>1
<1> HIDE DEF arguments
<1>4. f \in AnyFrame /\ f.pending = None
  BY <1>3 DEF Stack!Frame, AnyFrame
<1> HIDE DEF f
<1>5. /\ frames' \in Seq(AnyFrame) /\ Len(frames') = Len(frames) + 1
      /\ frames'[Len(frames) + 1] = f
      /\ \A i \in 1..Len(frames) : frames'[i] = frames[i]
  BY <1>1, <1>2, <1>4
<1>6. StackTypes'
  BY <1>1, <1>2, <1>5 DEF StackInv, StackTypes
<1>7. CallsNest'
  <2>1. \A i \in 1..Len(frames) : i = Len(frames) \/ i \in 1..(Len(frames) - 1)
    BY <1>2
  <2>2. \A i \in 1..Len(frames) : InCall(frames[i])
    BY <1>1, <2>1 DEF StackInv, CallsNest
  <2>3. \A i \in 1..(Len(frames') - 1) : InCall(frames'[i])
    BY <1>2, <1>5, <2>2
  <2> QED
    BY <1>1, <2>3 DEF CallsNest
<1>8. OneAtATime'
  <2>1. \A i \in DOMAIN frames' : i = Len(frames) + 1 \/ i \in DOMAIN frames
    BY <1>2, <1>5
  <2>2. \A i \in DOMAIN frames : frames'[i] = frames[i]
    BY <1>2, <1>5
  <2> QED
    BY <1>1, <1>4, <1>5, <2>1, <2>2 DEF StackInv, OneAtATime
<1> QED
  BY <1>1, <1>6, <1>7, <1>8 DEF StackInv, Stack!SinglesAreOwn

\* A C++ function that Lua has called returns.
LEMMA AnswerKeeps ==
    ASSUME StackInv, Stack!Answer
    PROVE  StackInv'
<1>1. /\ control = "cpp" /\ Len(frames) > 1 /\ frames' = Stack!Below /\ control' = "lua"
      /\ result' = None /\ UNCHANGED <<luaCalls, exception, raisable>>
  BY DEF Stack!Answer
<1>2. /\ frames' \in Seq(AnyFrame) /\ Len(frames') = Len(frames) - 1 /\ Len(frames) \in Nat
      /\ \A i \in 1..(Len(frames) - 1) : frames'[i] = frames[i]
  BY <1>1, BelowIs DEF StackInv, StackTypes
<1>3. StackTypes'
  BY <1>1, <1>2 DEF StackInv, StackTypes
<1>4. CallsNest'
  <2>1. \A i \in 1..(Len(frames) - 1) : InCall(frames'[i])
    BY <1>2 DEF StackInv, CallsNest
  <2>2. Len(frames') \in 1..(Len(frames) - 1)
    BY <1>1, <1>2
  <2>3. InCall(frames'[Len(frames')])
    BY <2>1, <2>2
  <2>4. \A i \in 1..(Len(frames') - 1) : InCall(frames'[i])
    BY <1>2, <2>1
  <2> QED
    BY <2>3, <2>4 DEF CallsNest
<1>5. OneAtATime'
  BY <1>1, <1>2 DEF StackInv, StackTypes, OneAtATime
<1> QED
  BY <1>1, <1>3, <1>4, <1>5 DEF StackInv, Stack!SinglesAreOwn

\* C++ takes its arguments, throws or catches: the frames stay as they are.
LEMMA CppKeeps ==
    ASSUME StackInv, UNCHANGED <<frames, luaCalls, raisable>>, result' = None,
           control' \in {"cpp", "unwinds"}, exception' \in Exceptions \union {None},
           control' = "cpp" => exception' = None
    PROVE  StackInv'
  BY DEF StackInv, StackTypes, CallsNest, OneAtATime, Stack!SinglesAreOwn

\* The Lua function that C++ has called returns.
LEMMA ReturnKeeps ==
    ASSUME StackInv, NEW n \in 0..2, Stack!Return(n)
    PROVE  StackInv'
<1> DEFINE m == Len(frames)
           f == frames[m]
           top == [i \in 1..Stack!Wanted(f.kind) |-> IF i <= n THEN Stack!ResultOf(f.id) ELSE Stack!NoCell]
<1>1. control = "lua" /\ m \in Nat /\ m >= 1 /\ f \in AnyFrame /\ InCall(f)
  BY DEF Stack!Return, StackInv, StackTypes, CallsNest
<1>2. f.id \in Nat /\ f.kind \in Stack!Kinds
  BY <1>1 DEF AnyFrame, InCall
<1>3. Stack!Wanted(f.kind) \in Nat /\ (f.kind \in {"convert", "function"} => Stack!Wanted(f.kind) = 1)
  BY DEF Stack!Wanted, Stack!Tuples, Stack!Scripts
<1>4. Stack!ResultOf(f.id) \in Cells /\ Stack!NoCell \in Cells
  BY <1>2 DEF Stack!ResultOf, Stack!NoCell, Cells
<1>5. top \in Seq(Cells) /\ Len(top) = Stack!Wanted(f.kind)
  BY <1>3, <1>4
<1>6. \A k \in 1..Len(top) :
            top[k].is = "nil" \/ (top[k].is \in {"result", "error"} /\ top[k].of = f.id)
  BY <1>5 DEF Stack!ResultOf, Stack!NoCell
<1>7. Stack!Finish(SubSeq(frames, 1, m - 1), f, Stack!Removed(f, f.cells \o top)) /\ UNCHANGED <<luaCalls, raisable>>
  BY DEF Stack!Return, Stack!Below, Stack!Top
<1> HIDE DEF top
<1>8. f.kind \in {"convert", "function"} => Len(top) >= 1
  BY <1>3, <1>5
<1>9. m \in 1..Len(frames)
  BY <1>1
<1> QED
  BY <1>1, <1>5, <1>6, <1>7, <1>8, <1>9, FinishKeeps

\* A C++ function that fails returns to the call of its caller: place n is that of the
\* caller.
LEMMA CallerIs ==
    ASSUME StackInv, Len(frames) >= 2
    PROVE  /\ Len(frames) - 1 \in 1..Len(frames)
           /\ InCall(frames[Len(frames) - 1])
           /\ Stack!Below[Len(Stack!Below)] = frames[Len(frames) - 1]
           /\ SubSeq(Stack!Below, 1, Len(Stack!Below) - 1) = SubSeq(frames, 1, Len(frames) - 1 - 1)
<1>1. frames \in Seq(AnyFrame) /\ Len(frames) \in Nat /\ Len(frames) >= 2
  BY DEF StackInv, StackTypes
<1>2. /\ Stack!Below \in Seq(AnyFrame) /\ Len(Stack!Below) = Len(frames) - 1
      /\ \A i \in 1..(Len(frames) - 1) : Stack!Below[i] = frames[i]
  BY BelowIs DEF StackInv
<1>3. SubSeq(Stack!Below, 1, Len(Stack!Below) - 1) = SubSeq(frames, 1, Len(frames) - 1 - 1)
  <2> DEFINE k == Len(frames) - 2
             low == SubSeq(Stack!Below, 1, k)
             same == SubSeq(frames, 1, k)
  <2>1. k \in Int /\ k <= Len(frames) /\ k <= Len(Stack!Below) /\ 1 <= k + 1 /\ k - 1 + 1 = k
    BY <1>1, <1>2
  <2>2. \A i \in 1..k : 1 + i - 1 = i /\ i \in 1..(Len(frames) - 1)
    BY <1>1
  <2>3. Len(Stack!Below) - 1 = k /\ Len(frames) - 1 - 1 = k
    BY <1>1, <1>2
  <2> HIDE DEF k
  <2>4. low \in Seq(AnyFrame) /\ Len(low) = k - 1 + 1 /\ \A i \in 1..(k - 1 + 1) : low[i] = Stack!Below[1 + i - 1]
    BY <1>2, <2>1, PartOf
  <2>5. same \in Seq(AnyFrame) /\ Len(same) = k - 1 + 1 /\ \A i \in 1..(k - 1 + 1) : same[i] = frames[1 + i - 1]
    BY <1>1, <2>1, PartOf
  <2> HIDE DEF low, same
  <2>6. Len(low) = Len(same) /\ \A i \in 1..Len(low) : low[i] = same[i]
    BY <1>2, <2>1, <2>2, <2>4, <2>5
  <2>7. low = same
    BY <2>4, <2>5, <2>6, SeqEqual
  <2> QED
    BY <2>3, <2>7 DEF low, same
<1>4. Len(frames) - 1 \in 1..(Len(frames) - 1)
  BY <1>1
<1> QED
  BY <1>1, <1>2, <1>3, <1>4 DEF StackInv, CallsNest

\* An error in scripts when no exception unwinds: the handler hears of what was raised.
LEMMA ErrorHeard ==
    ASSUME StackInv, control # "unwinds", NEW n \in 1..Len(frames), InCall(frames[n]),
           NEW e \in raisable,
           Stack!Raise(SubSeq(frames, 1, n - 1), frames[n], e)
    PROVE  StackInv' /\ Stack!HeardOf
<1>1. e \in Exceptions \union {None} /\ None \in raisable
  BY DEF StackInv, StackTypes
<1>2. StackInv' /\ (reported' = None \/ reported' = ReportOf(frames[n], e))
  BY <1>1, RaiseKeeps
<1>3. reported' # None => reported'.exception \in raisable
  BY <1>1, <1>2 DEF ReportOf
<1> QED
  BY <1>2, <1>3 DEF Stack!HeardOf, Stack!LeavesFunction

\* An exception of a C++ function: it gets to the scripts, or the handler hears of it.
LEMMA DispatchHeard ==
    ASSUME StackInv, Stack!Dispatch
    PROVE  StackInv' /\ Stack!HeardOf
<1> DEFINE n == Len(frames) - 1
           e == Stack!Stored(exception)
           f == frames[n]
<1>1. /\ Len(frames) >= 2 /\ control = "unwinds" /\ e \in Exceptions \union {None}
      /\ Stack!Raise(SubSeq(Stack!Below, 1, Len(Stack!Below) - 1), Stack!Below[Len(Stack!Below)], e)
      /\ None \in raisable
  BY DEF Stack!Dispatch, Stack!Stored, StackInv, StackTypes
<1>2. n \in 1..Len(frames) /\ InCall(f) /\ Stack!Raise(SubSeq(frames, 1, n - 1), f, e)
  BY <1>1, CallerIs
<1>3. e = IF "debug" \in libraries THEN exception ELSE None
  BY DEF Stack!Stored
<1>4. Stack!Caller = f
  BY DEF Stack!Caller
<1> HIDE DEF n, e
<1>5. /\ StackInv'
      /\ \/ f.pcalls > 0 /\ control' = "lua" /\ reported' = None /\ e \in raisable'
         \/ f.pcalls = 0 /\ reported' = ReportOf(f, e)
  BY <1>1, <1>2, RaiseKeeps
<1> HIDE DEF f
<1>6. f.pcalls > 0 => Stack!HeardByPcall
  BY <1>3, <1>5 DEF Stack!HeardByPcall
<1>7. f.pcalls = 0 /\ f.listening => Stack!HeardByHandler
  <2> SUFFICES ASSUME f.pcalls = 0, f.listening PROVE Stack!HeardByHandler
    OBVIOUS
  <2>1. reported' = ReportOf(f, e)
    BY <1>5
  <2> QED
    BY <1>3, <1>4, <2>1 DEF Stack!HeardByHandler, ReportOf
<1>8. reported' # None => reported'.exception \in raisable \union {exception}
  BY <1>1, <1>3, <1>5 DEF ReportOf
<1> QED
  BY <1>4, <1>5, <1>6, <1>7, <1>8 DEF Stack!HeardOf

\* A step in which no function fails: nothing is heard of.
LEMMA NothingHeard ==
    ASSUME reported' = None, control # "unwinds" \/ Len(frames') = Len(frames)
    PROVE  Stack!HeardOf
  BY DEF Stack!HeardOf, Stack!LeavesFunction

\* Every step of Lua and C++ keeps the invariant, and what is heard of is right.
LEMMA StackNext ==
    ASSUME StackInv, Stack!Next
    PROVE  StackInv' /\ (Stack!HeardOf \/ UNCHANGED Stack!vars)
<1>1. ASSUME NEW kind \in Stack!Kinds, NEW listening \in BOOLEAN, Stack!Call(kind, listening)
      PROVE  StackInv' /\ Stack!HeardOf
  <2>1. reported' = None /\ Len(frames') = Len(frames)
    BY <1>1 DEF Stack!Call, Stack!WithTop, StackInv, StackTypes
  <2> QED
    BY <1>1, <2>1, CallKeeps, NothingHeard
<1>2. ASSUME NEW n \in 0..MaxArguments, Stack!CallBack(n)
      PROVE  StackInv' /\ Stack!HeardOf
  BY <1>2, CallBackKeeps, NothingHeard DEF Stack!CallBack
<1>3. ASSUME Stack!TakeArguments
      PROVE  StackInv' /\ Stack!HeardOf
  <2>1. exception = None
    BY <1>3 DEF Stack!TakeArguments, StackInv, OneAtATime
  <2> QED
    BY <1>3, <2>1, CppKeeps, NothingHeard DEF Stack!TakeArguments
<1>4. ASSUME Stack!BadArgument
      PROVE  StackInv' /\ Stack!HeardOf
  <2>1. /\ Len(frames) >= 2 /\ control = "arguments" /\ None \in raisable
        /\ Stack!Raise(SubSeq(Stack!Below, 1, Len(Stack!Below) - 1), Stack!Below[Len(Stack!Below)], None)
    BY <1>4 DEF Stack!BadArgument, StackInv, StackTypes
  <2> QED
    BY <2>1, CallerIs, ErrorHeard
<1>5. ASSUME Stack!Answer
      PROVE  StackInv' /\ Stack!HeardOf
  BY <1>5, AnswerKeeps, NothingHeard DEF Stack!Answer
<1>6. ASSUME Stack!Catch
      PROVE  StackInv' /\ Stack!HeardOf
  BY <1>6, CppKeeps, NothingHeard DEF Stack!Catch
<1>7. ASSUME Stack!LuaError
      PROVE  StackInv' /\ Stack!HeardOf
  <2>1. PICK e \in raisable : Stack!Raise(Stack!Below, Stack!Top, e)
    BY <1>7 DEF Stack!LuaError
  <2>2. /\ Len(frames) \in 1..Len(frames) /\ InCall(frames[Len(frames)]) /\ control = "lua"
        /\ Stack!Raise(SubSeq(frames, 1, Len(frames) - 1), frames[Len(frames)], e)
    BY <1>7, <2>1 DEF Stack!LuaError, Stack!Below, Stack!Top, StackInv, StackTypes, CallsNest
  <2> QED
    BY <2>2, ErrorHeard
<1>8. ASSUME Stack!Dispatch
      PROVE  StackInv' /\ Stack!HeardOf
  BY <1>8, DispatchHeard
<1>9. ASSUME Stack!Over
      PROVE  StackInv' /\ UNCHANGED Stack!vars
  <2>1. UNCHANGED Stack!vars
    BY <1>9 DEF Stack!Over
  <2> QED
    BY <2>1 DEF Stack!vars, StackInv, StackTypes, CallsNest, OneAtATime, Stack!SinglesAreOwn,
                Stack!AllOwn, Stack!IsOwn, Stack!Top
<1>10. ASSUME NEW n \in 0..2, Stack!Return(n)
       PROVE  StackInv' /\ Stack!HeardOf
  BY <1>10, ReturnKeeps, NothingHeard DEF Stack!Return
<1>11. ASSUME NEW e \in Exceptions, Stack!Throw(e)
       PROVE  StackInv' /\ Stack!HeardOf
  BY <1>11, CppKeeps, NothingHeard DEF Stack!Throw
<1>12. ASSUME Stack!PCall \/ Stack!PCallReturns
       PROVE  StackInv' /\ Stack!HeardOf
  <2>1. reported' = None /\ control # "unwinds"
    BY <1>12 DEF Stack!PCall, Stack!PCallReturns
  <2> QED
    BY <1>12, <2>1, PcallKeeps, NothingHeard
<1> QED
  BY <1>1, <1>2, <1>3, <1>4, <1>5, <1>6, <1>7, <1>8, <1>9, <1>10, <1>11, <1>12 DEF Stack!Next

\* One C++ function runs at the start, outside of Lua.
LEMMA StackInit == Stack!Init => StackInv
<1> SUFFICES ASSUME Stack!Init PROVE StackInv
  OBVIOUS
<1> DEFINE f == Stack!Frame(<<>>)
<1>1. /\ frames = <<f>> /\ control = "cpp" /\ luaCalls = 0 /\ exception = None /\ result = None
      /\ raisable = {None}
  BY DEF Stack!Init
<1>2. f \in AnyFrame /\ f.pending = None
  BY DEF Stack!Frame, AnyFrame
<1> HIDE DEF f
<1>3. frames \in Seq(AnyFrame) /\ Len(frames) = 1 /\ frames[1] = f
  BY <1>1, <1>2
<1> QED
  BY <1>1, <1>2, <1>3 DEF StackInv, StackTypes, CallsNest, OneAtATime, Stack!SinglesAreOwn

\* Steps of other parts.
LEMMA StackStutters ==
    ASSUME StackInv, UNCHANGED stackVars
    PROVE  StackInv'
  BY DEF stackVars, StackInv, StackTypes, CallsNest, OneAtATime, Stack!SinglesAreOwn,
         Stack!AllOwn, Stack!IsOwn, Stack!Top

-----------------------------------------------------------------------------
(***************************************************************************)
(* LuaSelector.                                                            *)
(***************************************************************************)
\* A selector that is there.
AnySelector == [path : Seq(Keys), call : Nat, cut : BOOLEAN]

\* The call that a selector has yet to make.
CallOf(s) == IF selector[s] = None THEN Select!NoCall ELSE selector[s].call

\* The types; only a selector that was moved from has no path.
SelectorTypes ==
    /\ global \in [Select!Paths -> Select!Contents]
    /\ selector \in [Handles -> AnySelector \union {None}]
    /\ \A s \in Handles : selector[s] # None =>
            /\ Len(selector[s].path) <= MaxPath
            /\ selector[s].path # <<>> \/ selector[s] = Select!MovedFrom

\* A call that has come to be is in one selector, or has been made once, or is lost, and
\* no two selectors have one call.
CallsInv ==
    /\ calls \in 0..MaxActive /\ runs \in [1..MaxActive -> Nat]
    /\ \A s \in Handles : CallOf(s) \in 0..calls
    /\ \A s, t \in Handles : CallOf(s) # 0 /\ CallOf(s) = CallOf(t) => s = t
    /\ \A c \in 1..MaxActive :
        \/ c > calls /\ runs[c] = 0 /\ c \notin lost
        \/ c <= calls /\ runs[c] = 1 /\ c \notin lost /\ \A s \in Handles : CallOf(s) # c
        \/ c <= calls /\ runs[c] = 0 /\ c \in lost /\ \A s \in Handles : CallOf(s) # c
        \/ c <= calls /\ runs[c] = 0 /\ c \notin lost /\ \E s \in Handles : CallOf(s) = c

\* The tables on the path of a selector are there until one is cut away.
PathsThere ==
    \A s \in Handles : selector[s] # None /\ ~selector[s].cut => Select!Reachable(selector[s].path)

SelectorInv == SelectorTypes /\ CallsInv /\ PathsThere /\ Select!PanicsOnlyIfCut

-----------------------------------------------------------------------------
\* Paths and their prefixes.
LEMMA PathIs ==
    ASSUME NEW p \in Seq(Keys), Len(p) <= MaxPath, p # <<>>
    PROVE  p \in Select!Paths
<1>1. Len(p) \in 1..MaxPath /\ p \in [1..Len(p) -> Keys]
  BY SelectorAssumption, EmptySeq
<1> QED
  BY <1>1 DEF Select!Paths

\* A path is a sequence of keys, neither empty nor too long.
LEMMA PathIsSeq ==
    ASSUME NEW p \in Select!Paths
    PROVE  p \in Seq(Keys) /\ Len(p) \in 1..MaxPath
<1>1. PICK n \in 1..MaxPath : p \in [1..n -> Keys]
  BY DEF Select!Paths
<1> QED
  BY <1>1, SelectorAssumption

\* A proper prefix is shorter, and has the same keys.
LEMMA PrefixIs ==
    ASSUME NEW p \in Seq(Keys), NEW q \in Select!ProperPrefixes(p)
    PROVE  /\ q \in Seq(Keys) /\ Len(q) \in 1..(Len(p) - 1)
           /\ \A i \in 1..Len(q) : q[i] = p[i]
<1>1. PICK n \in 1..(Len(p) - 1) : q = SubSeq(p, 1, n)
  BY DEF Select!ProperPrefixes
<1>2. n \in Int /\ n <= Len(p) /\ 1 <= n + 1 /\ n - 1 + 1 = n
  OBVIOUS
<1>3. /\ q \in Seq(Keys) /\ Len(q) = n - 1 + 1
      /\ \A i \in 1..(n - 1 + 1) : q[i] = p[1 + i - 1]
  BY <1>1, <1>2, PartOf
<1>4. \A i \in 1..n : 1 + i - 1 = i
  BY <1>2
<1> QED
  BY <1>2, <1>3, <1>4

\* What is shorter and has the same keys is a proper prefix.
LEMMA MadePrefix ==
    ASSUME NEW p \in Seq(Keys), NEW q \in Seq(Keys), Len(q) \in 1..(Len(p) - 1),
           \A i \in 1..Len(q) : q[i] = p[i]
    PROVE  q \in Select!ProperPrefixes(p)
<1> DEFINE n == Len(q)
           low == SubSeq(p, 1, n)
<1>1. n \in Int /\ n <= Len(p) /\ 1 <= n + 1 /\ n - 1 + 1 = n /\ \A i \in 1..n : 1 + i - 1 = i
  OBVIOUS
<1>2. n \in 1..(Len(p) - 1)
  OBVIOUS
<1> HIDE DEF n
<1>3. low \in Seq(Keys) /\ Len(low) = n - 1 + 1 /\ \A i \in 1..(n - 1 + 1) : low[i] = p[1 + i - 1]
  BY <1>1, PartOf
<1> HIDE DEF low
<1>4. Len(low) = Len(q) /\ \A i \in 1..Len(low) : low[i] = q[i]
  BY <1>1, <1>3 DEF n
<1>5. low = q
  BY <1>3, <1>4, SeqEqual
<1> QED
  BY <1>2, <1>5 DEF Select!ProperPrefixes, low

\* Prefixes of prefixes are prefixes.
LEMMA PrefixOfPrefix ==
    ASSUME NEW r \in Seq(Keys), NEW q \in Select!ProperPrefixes(r), NEW p \in Select!ProperPrefixes(q)
    PROVE  p \in Select!ProperPrefixes(r)
<1>1. q \in Seq(Keys) /\ Len(q) \in 1..(Len(r) - 1) /\ \A i \in 1..Len(q) : q[i] = r[i]
  BY PrefixIs
<1>2. p \in Seq(Keys) /\ Len(p) \in 1..(Len(q) - 1) /\ \A i \in 1..Len(p) : p[i] = q[i]
  BY <1>1, PrefixIs
<1>3. Len(p) \in 1..(Len(r) - 1) /\ \A i \in 1..Len(p) : p[i] = r[i]
  BY <1>1, <1>2
<1> QED
  BY <1>2, <1>3, MadePrefix

\* The prefixes of a longer path are the path and its prefixes.
LEMMA PrefixOfLonger ==
    ASSUME NEW p \in Seq(Keys), NEW k \in Keys, NEW q \in Select!ProperPrefixes(Append(p, k))
    PROVE  q = p \/ q \in Select!ProperPrefixes(p)
<1> DEFINE r == Append(p, k)
<1>1. r \in Seq(Keys) /\ Len(r) = Len(p) + 1 /\ Len(p) \in Nat /\ \A i \in 1..Len(p) : r[i] = p[i]
  OBVIOUS
<1>2. q \in Seq(Keys) /\ Len(q) \in 1..(Len(r) - 1) /\ \A i \in 1..Len(q) : q[i] = r[i]
  BY <1>1, PrefixIs
<1> HIDE DEF r
<1>3. Len(q) \in 1..Len(p) /\ \A i \in 1..Len(q) : q[i] = p[i]
  BY <1>1, <1>2
<1>4. CASE Len(q) = Len(p)
  BY <1>2, <1>3, <1>4, SeqEqual
<1>5. CASE Len(q) # Len(p)
  <2>1. Len(q) \in 1..(Len(p) - 1)
    BY <1>1, <1>3, <1>5
  <2> QED
    BY <1>2, <1>3, <2>1, MadePrefix
<1> QED
  BY <1>4, <1>5

-----------------------------------------------------------------------------
(***************************************************************************)
(* What a step does to the calls that are yet to be made.                  *)
(***************************************************************************)
LEMMA CallType ==
    ASSUME SelectorTypes, NEW s \in Handles
    PROVE  CallOf(s) \in Nat
  BY DEF SelectorTypes, AnySelector, CallOf, Select!NoCall

\* Steps after which the same selectors have the same calls.
LEMMA SameCalls ==
    ASSUME CallsInv, UNCHANGED <<calls, runs, lost>>, \A s \in Handles : CallOf(s)' = CallOf(s)
    PROVE  CallsInv'
  BY DEF CallsInv

\* A selector comes to hold a new call, and what it held is lost.
LEMMA CallMade ==
    ASSUME CallsInv, NEW t \in Handles, calls < MaxActive, calls' = calls + 1, UNCHANGED runs,
           lost' = lost \union ({CallOf(t)} \ {0}),
           CallOf(t)' = calls + 1, \A s \in Handles \ {t} : CallOf(s)' = CallOf(s)
    PROVE  CallsInv'
<1>1. calls \in Nat /\ calls + 1 \in 1..MaxActive /\ calls' \in 0..MaxActive
  BY SelectorAssumption DEF CallsInv
<1>2. \A s \in Handles : CallOf(s) \in 0..calls
  BY DEF CallsInv
<1>3. \A s \in Handles : CallOf(s)' \in 0..calls'
  BY <1>1, <1>2
<1>4. \A s, u \in Handles : CallOf(s)' # 0 /\ CallOf(s)' = CallOf(u)' => s = u
  BY <1>1, <1>2 DEF CallsInv
<1>5. ASSUME NEW c \in 1..MaxActive
      PROVE  \/ c > calls' /\ runs'[c] = 0 /\ c \notin lost'
             \/ c <= calls' /\ runs'[c] = 1 /\ c \notin lost' /\ \A s \in Handles : CallOf(s)' # c
             \/ c <= calls' /\ runs'[c] = 0 /\ c \in lost' /\ \A s \in Handles : CallOf(s)' # c
             \/ c <= calls' /\ runs'[c] = 0 /\ c \notin lost' /\ \E s \in Handles : CallOf(s)' = c
  <2>1. \/ c > calls /\ runs[c] = 0 /\ c \notin lost
        \/ c <= calls /\ runs[c] = 1 /\ c \notin lost /\ \A s \in Handles : CallOf(s) # c
        \/ c <= calls /\ runs[c] = 0 /\ c \in lost /\ \A s \in Handles : CallOf(s) # c
        \/ c <= calls /\ runs[c] = 0 /\ c \notin lost /\ \E s \in Handles : CallOf(s) = c
    BY DEF CallsInv
  <2>2. CASE c = calls + 1
    <3>1. c > calls /\ c # CallOf(t)
      BY <1>1, <1>2, <2>2
    <3>2. c \notin lost /\ runs[c] = 0
      BY <1>1, <2>1, <3>1
    <3> QED
      BY <1>1, <2>2, <3>1, <3>2
  <2>3. CASE c > calls + 1
    <3>1. c > calls /\ c # CallOf(t) /\ c > calls'
      BY <1>1, <1>2, <2>3
    <3>2. c \notin lost /\ runs[c] = 0
      BY <1>1, <2>1, <3>1
    <3> QED
      BY <3>1, <3>2
  <2>4. CASE c <= calls
    <3>1. c <= calls' /\ c # calls + 1 /\ c # 0
      BY <1>1, <2>4
    <3>2. CASE CallOf(t) = c
      <4>1. runs[c] = 0
        BY <2>1, <2>4, <3>2, <1>1
      <4>2. \A s \in Handles : CallOf(s)' # c
        BY <3>1, <3>2 DEF CallsInv
      <4> QED
        BY <3>1, <3>2, <4>1, <4>2
    <3>3. CASE CallOf(t) # c
      <4>1. c \in lost' <=> c \in lost
        BY <3>3
      <4>2. \A s \in Handles : CallOf(s)' = c <=> CallOf(s) = c
        BY <3>1, <3>3
      <4> QED
        BY <1>1, <2>1, <2>4, <3>1, <4>1, <4>2
    <3> QED
      BY <3>2, <3>3
  <2> QED
    BY <1>1, <2>2, <2>3, <2>4
<1> QED
  BY <1>1, <1>3, <1>4, <1>5 DEF CallsInv

\* A selector without a call is assigned to another one, whose call is lost.
LEMMA CallLost ==
    ASSUME CallsInv, NEW t \in Handles, UNCHANGED <<calls, runs>>,
           lost' = lost \union ({CallOf(t)} \ {0}),
           CallOf(t)' = 0, \A s \in Handles \ {t} : CallOf(s)' = CallOf(s)
    PROVE  CallsInv'
<1>1. \A s \in Handles : CallOf(s) \in 0..calls
  BY DEF CallsInv
<1>2. calls \in Nat
  BY DEF CallsInv
<1>3. \A s \in Handles : CallOf(s)' \in 0..calls'
  BY <1>1, <1>2
<1>4. \A s, u \in Handles : CallOf(s)' # 0 /\ CallOf(s)' = CallOf(u)' => s = u
  BY DEF CallsInv
<1>5. ASSUME NEW c \in 1..MaxActive
      PROVE  \/ c > calls' /\ runs'[c] = 0 /\ c \notin lost'
             \/ c <= calls' /\ runs'[c] = 1 /\ c \notin lost' /\ \A s \in Handles : CallOf(s)' # c
             \/ c <= calls' /\ runs'[c] = 0 /\ c \in lost' /\ \A s \in Handles : CallOf(s)' # c
             \/ c <= calls' /\ runs'[c] = 0 /\ c \notin lost' /\ \E s \in Handles : CallOf(s)' = c
  <2>1. \/ c > calls /\ runs[c] = 0 /\ c \notin lost
        \/ c <= calls /\ runs[c] = 1 /\ c \notin lost /\ \A s \in Handles : CallOf(s) # c
        \/ c <= calls /\ runs[c] = 0 /\ c \in lost /\ \A s \in Handles : CallOf(s) # c
        \/ c <= calls /\ runs[c] = 0 /\ c \notin lost /\ \E s \in Handles : CallOf(s) = c
    BY DEF CallsInv
  <2>2. c # 0 /\ c \in Nat
    OBVIOUS
  <2>3. CASE CallOf(t) = c
    <3>1. runs[c] = 0 /\ c <= calls
      BY <1>1, <1>2, <2>1, <2>2, <2>3
    <3>2. \A s \in Handles : CallOf(s)' # c
      BY <2>2, <2>3 DEF CallsInv
    <3> QED
      BY <2>2, <2>3, <3>1, <3>2
  <2>4. CASE CallOf(t) # c
    <3>1. c \in lost' <=> c \in lost
      BY <2>4
    <3>2. \A s \in Handles : CallOf(s)' = c <=> CallOf(s) = c
      BY <2>2, <2>4
    <3> QED
      BY <2>1, <3>1, <3>2
  <2> QED
    BY <2>3, <2>4
<1> QED
  BY <1>3, <1>4, <1>5 DEF CallsInv

\* The call of one selector is moved to another one, whose call is lost.
LEMMA CallMoved ==
    ASSUME CallsInv, NEW s \in Handles, NEW t \in Handles, s # t, UNCHANGED <<calls, runs>>,
           lost' = lost \union ({CallOf(t)} \ {0}),
           CallOf(t)' = CallOf(s), CallOf(s)' = 0,
           \A u \in Handles \ {s, t} : CallOf(u)' = CallOf(u)
    PROVE  CallsInv'
<1>1. \A u \in Handles : CallOf(u) \in 0..calls
  BY DEF CallsInv
<1>2. calls \in Nat
  BY DEF CallsInv
<1>3. \A u \in Handles : CallOf(u)' \in 0..calls'
  BY <1>1, <1>2
<1>4. \A u, v \in Handles : CallOf(u)' # 0 /\ CallOf(u)' = CallOf(v)' => u = v
  <2> SUFFICES ASSUME NEW u \in Handles, NEW v \in Handles, CallOf(u)' # 0, CallOf(u)' = CallOf(v)'
               PROVE  u = v
    OBVIOUS
  <2>1. u # s /\ v # s
    OBVIOUS
  <2>2. \A x, y \in Handles : CallOf(x) # 0 /\ CallOf(x) = CallOf(y) => x = y
    BY DEF CallsInv
  <2>3. CASE u = t /\ v # t
    BY <2>1, <2>2, <2>3
  <2>4. CASE u # t /\ v = t
    BY <2>1, <2>2, <2>4
  <2>5. CASE u # t /\ v # t
    BY <2>1, <2>2, <2>5
  <2> QED
    BY <2>3, <2>4, <2>5
<1>5. ASSUME NEW c \in 1..MaxActive
      PROVE  \/ c > calls' /\ runs'[c] = 0 /\ c \notin lost'
             \/ c <= calls' /\ runs'[c] = 1 /\ c \notin lost' /\ \A u \in Handles : CallOf(u)' # c
             \/ c <= calls' /\ runs'[c] = 0 /\ c \in lost' /\ \A u \in Handles : CallOf(u)' # c
             \/ c <= calls' /\ runs'[c] = 0 /\ c \notin lost' /\ \E u \in Handles : CallOf(u)' = c
  <2>1. \/ c > calls /\ runs[c] = 0 /\ c \notin lost
        \/ c <= calls /\ runs[c] = 1 /\ c \notin lost /\ \A u \in Handles : CallOf(u) # c
        \/ c <= calls /\ runs[c] = 0 /\ c \in lost /\ \A u \in Handles : CallOf(u) # c
        \/ c <= calls /\ runs[c] = 0 /\ c \notin lost /\ \E u \in Handles : CallOf(u) = c
    BY DEF CallsInv
  <2>2. c # 0 /\ c \in Nat
    OBVIOUS
  <2>3. CASE CallOf(t) = c
    <3>1. runs[c] = 0 /\ c <= calls
      BY <1>1, <1>2, <2>1, <2>2, <2>3
    <3>2. CallOf(s) # c
      BY <2>2, <2>3 DEF CallsInv
    <3>3. \A u \in Handles : CallOf(u)' # c
      BY <2>2, <2>3, <3>2 DEF CallsInv
    <3> QED
      BY <2>2, <2>3, <3>1, <3>3
  <2>4. CASE CallOf(t) # c
    <3>1. c \in lost' <=> c \in lost
      BY <2>4
    <3>2. (\E u \in Handles : CallOf(u)' = c) <=> (\E u \in Handles : CallOf(u) = c)
      BY <2>2, <2>4
    <3> QED
      BY <2>1, <3>1, <3>2
  <2> QED
    BY <2>3, <2>4
<1> QED
  BY <1>3, <1>4, <1>5 DEF CallsInv

\* The call of a selector is made.
LEMMA CallRuns ==
    ASSUME CallsInv, NEW s \in Handles, CallOf(s) # 0, UNCHANGED <<calls, lost>>,
           runs' = [runs EXCEPT ![CallOf(s)] = @ + 1],
           CallOf(s)' = 0, \A u \in Handles \ {s} : CallOf(u)' = CallOf(u)
    PROVE  CallsInv'
<1> DEFINE m == CallOf(s)
<1>1. m \in 1..calls /\ calls \in Nat /\ calls <= MaxActive /\ m \in 1..MaxActive
  BY SelectorAssumption DEF CallsInv
<1>2. \A u \in Handles \ {s} : CallOf(u) # m
  BY DEF CallsInv
<1>3. \A u \in Handles : CallOf(u)' \in 0..calls'
  BY <1>1 DEF CallsInv
<1>4. \A u, v \in Handles : CallOf(u)' # 0 /\ CallOf(u)' = CallOf(v)' => u = v
  BY DEF CallsInv
<1>5. runs \in [1..MaxActive -> Nat] /\ runs' \in [1..MaxActive -> Nat]
      /\ runs'[m] = runs[m] + 1 /\ \A c \in 1..MaxActive \ {m} : runs'[c] = runs[c]
  BY <1>1 DEF CallsInv
<1>6. ASSUME NEW c \in 1..MaxActive
      PROVE  \/ c > calls' /\ runs'[c] = 0 /\ c \notin lost'
             \/ c <= calls' /\ runs'[c] = 1 /\ c \notin lost' /\ \A u \in Handles : CallOf(u)' # c
             \/ c <= calls' /\ runs'[c] = 0 /\ c \in lost' /\ \A u \in Handles : CallOf(u)' # c
             \/ c <= calls' /\ runs'[c] = 0 /\ c \notin lost' /\ \E u \in Handles : CallOf(u)' = c
  <2>1. \/ c > calls /\ runs[c] = 0 /\ c \notin lost
        \/ c <= calls /\ runs[c] = 1 /\ c \notin lost /\ \A u \in Handles : CallOf(u) # c
        \/ c <= calls /\ runs[c] = 0 /\ c \in lost /\ \A u \in Handles : CallOf(u) # c
        \/ c <= calls /\ runs[c] = 0 /\ c \notin lost /\ \E u \in Handles : CallOf(u) = c
    BY DEF CallsInv
  <2>2. CASE c = m
    <3>1. c <= calls /\ ~(c > calls) /\ CallOf(s) = c /\ c # 0
      BY <1>1, <2>2
    <3>2. runs[c] = 0 /\ c \notin lost
      BY <2>1, <3>1
    <3>3. \A u \in Handles : CallOf(u)' # c
      BY <1>2, <2>2, <3>1
    <3> QED
      BY <1>5, <2>2, <3>1, <3>2, <3>3
  <2>3. CASE c # m
    <3>1. \A u \in Handles : CallOf(u)' = c <=> CallOf(u) = c
      BY <2>3
    <3> QED
      BY <1>5, <2>1, <2>3, <3>1
  <2> QED
    BY <2>2, <2>3
<1> HIDE DEF m
<1> QED
  BY <1>3, <1>4, <1>5, <1>6 DEF CallsInv

-----------------------------------------------------------------------------
(***************************************************************************)
(* What a step does to the tables and to the paths of selectors.           *)
(***************************************************************************)
\* Selectors of which the paths are there, in tables "global".
Sound(sel) ==
    /\ sel \in [Handles -> AnySelector \union {None}]
    /\ \A s \in Handles : sel[s] # None =>
        /\ Len(sel[s].path) <= MaxPath
        /\ sel[s].path # <<>> \/ sel[s] = Select!MovedFrom
        /\ ~sel[s].cut => Select!Reachable(sel[s].path)

\* The path of a selector that can be used is one of those of the model.
LEMMA UsablePath ==
    ASSUME SelectorInv, NEW s \in Handles, Select!Usable(s)
    PROVE  selector[s] \in AnySelector /\ selector[s].path \in Select!Paths
<1>1. selector[s] \in AnySelector /\ selector[s].path # <<>> /\ Len(selector[s].path) <= MaxPath
  BY DEF SelectorInv, SelectorTypes, Select!Usable
<1>2. selector[s].path \in Seq(Keys)
  BY <1>1 DEF AnySelector
<1> QED
  BY <1>1, <1>2, PathIs

\* The selectors of the invariant are sound.
LEMMA SelectorIsSound ==
    ASSUME SelectorInv
    PROVE  Sound(selector)
  BY DEF SelectorInv, SelectorTypes, PathsThere, Sound

\* A selector that was moved from has no path and no call.
LEMMA MovedFromIs ==
    /\ Select!MovedFrom \in AnySelector /\ Select!MovedFrom # None
    /\ Select!MovedFrom.path = <<>> /\ Select!MovedFrom.call = 0 /\ ~Select!MovedFrom.cut
    /\ Select!Reachable(Select!MovedFrom.path)
<1>1. Select!MovedFrom \in AnySelector
      /\ Select!MovedFrom.path = <<>> /\ Select!MovedFrom.call = 0 /\ ~Select!MovedFrom.cut
  BY DEF Select!MovedFrom, Select!Selecting, Select!NoCall, AnySelector
<1>2. Select!ProperPrefixes(<<>>) = {}
  <2>1. <<>> \in Seq(Keys) /\ Len(<<>>) = 0
    OBVIOUS
  <2>2. \A q \in Select!ProperPrefixes(<<>>) : Len(q) \in 1..(0 - 1)
    BY <2>1, PrefixIs
  <2> QED
    BY <2>2
<1> QED
  BY <1>1, <1>2, SelectorAssumption DEF AnySelector, Select!Reachable

\* A selector is assigned to, and the tables stay: the others are as sound as before.
LEMMA OneReplaced ==
    ASSUME NEW sel, Sound(sel), NEW t \in Handles, NEW v \in AnySelector \union {None},
           v # None => /\ Len(v.path) <= MaxPath
                       /\ v.path # <<>> \/ v = Select!MovedFrom
                       /\ ~v.cut => Select!Reachable(v.path)
    PROVE  Sound([sel EXCEPT ![t] = v])
  BY DEF Sound

\* What the invariant says of a sound selector.
LEMMA SoundSelectors ==
    ASSUME SelectorTypes, Sound(selector), NEW s \in Handles, selector[s] # None
    PROVE  /\ selector[s] \in AnySelector
           /\ Len(selector[s].path) <= MaxPath
           /\ selector[s].path # <<>> \/ selector[s] = Select!MovedFrom
           /\ ~selector[s].cut => Select!Reachable(selector[s].path)
  BY DEF SelectorTypes, Sound

\* Steps that leave the tables.
LEMMA TablesStay ==
    ASSUME SelectorInv, UNCHANGED global, NEW sel, Sound(sel), selector' = sel
    PROVE  SelectorTypes' /\ PathsThere'
  BY DEF SelectorInv, SelectorTypes, PathsThere, Sound, Select!Reachable

\* A value is assigned at a path: the selectors that lose a table are marked.
LEMMA TablesChange ==
    ASSUME SelectorInv, NEW p \in Select!Paths, NEW v \in Select!Contents,
           NEW sel, Sound(sel),
           global' = Select!With(p, v), selector' = Select!CutAt(p, v, sel)
    PROVE  /\ SelectorTypes' /\ PathsThere'
           /\ \A s \in Handles : CallOf(s)' = IF sel[s] = None THEN 0 ELSE sel[s].call
<1>1. global' \in [Select!Paths -> Select!Contents]
  BY DEF Select!With, Select!Contents, SelectorInv, SelectorTypes
<1>2. ASSUME NEW s \in Handles
      PROVE  /\ selector'[s] \in AnySelector \union {None}
             /\ selector'[s] = None <=> sel[s] = None
             /\ sel[s] # None =>
                    /\ selector'[s].path = sel[s].path /\ selector'[s].call = sel[s].call
                    /\ selector'[s] = sel[s] \/ (selector'[s].cut /\ sel[s].path # <<>>)
                    /\ selector'[s].cut \/ ~\E q \in Select!ProperPrefixes(sel[s].path) :
                            global[q] = "table" /\ Select!With(p, v)[q] # "table"
                    /\ ~selector'[s].cut => ~sel[s].cut
  <2> DEFINE cuts == \E q \in Select!ProperPrefixes(sel[s].path) :
                            global[q] = "table" /\ Select!With(p, v)[q] # "table"
  <2>1. selector'[s] = IF sel[s] # None /\ cuts THEN [sel[s] EXCEPT !.cut = TRUE] ELSE sel[s]
    BY DEF Select!CutAt
  <2>2. sel[s] \in AnySelector \union {None}
    BY DEF Sound
  <2>3. cuts => sel[s].path # <<>>
    BY MovedFromIs DEF Select!ProperPrefixes
  <2> HIDE DEF cuts
  <2>4. CASE sel[s] = None
    BY <2>1, <2>4
  <2>5. CASE sel[s] # None /\ ~cuts
    BY <2>1, <2>2, <2>5 DEF cuts
  <2>6. CASE sel[s] # None /\ cuts
    <3>1. sel[s] \in AnySelector /\ selector'[s] = [sel[s] EXCEPT !.cut = TRUE]
      BY <2>1, <2>2, <2>6
    <3>2. /\ selector'[s] \in AnySelector /\ selector'[s].path = sel[s].path
          /\ selector'[s].call = sel[s].call /\ selector'[s].cut
      BY <3>1 DEF AnySelector
    <3> QED
      BY <2>3, <2>6, <3>2, SelectorAssumption DEF AnySelector
  <2> QED
    BY <2>4, <2>5, <2>6
<1>3. SelectorTypes'
  <2>1. selector' = [s \in Handles |-> selector'[s]]
    BY DEF Select!CutAt
  <2>2. selector' \in [Handles -> AnySelector \union {None}]
    BY <1>2, <2>1
  <2>3. \A s \in Handles : selector'[s] # None =>
            /\ Len(selector'[s].path) <= MaxPath
            /\ selector'[s].path # <<>> \/ selector'[s] = Select!MovedFrom
    BY <1>2 DEF Sound
  <2> QED
    BY <1>1, <2>2, <2>3 DEF SelectorTypes, Select!MovedFrom, Select!Selecting, Select!NoCall,
                            Select!Paths, Select!Contents
<1>4. PathsThere'
  <2> SUFFICES ASSUME NEW s \in Handles, selector'[s] # None, ~selector'[s].cut,
                      NEW q \in Select!ProperPrefixes(selector'[s].path)
               PROVE  global'[q] = "table"
    BY DEF PathsThere, Select!Reachable, Select!ProperPrefixes
  <2>1. /\ sel[s] # None /\ selector'[s].path = sel[s].path /\ ~sel[s].cut
        /\ global[q] = "table" => Select!With(p, v)[q] = "table"
    BY <1>2
  <2>2. global[q] = "table"
    BY <2>1 DEF Sound, Select!Reachable
  <2> QED
    BY <2>1, <2>2
<1>5. \A s \in Handles : CallOf(s)' = IF sel[s] = None THEN 0 ELSE sel[s].call
  BY <1>2 DEF CallOf, Select!NoCall
<1> QED
  BY <1>3, <1>4, <1>5

\* A table is made at the end of a path, and a selector has a longer path after that.
LEMMA TableIsMade ==
    ASSUME SelectorInv, NEW s \in Handles, NEW t \in Handles, NEW k \in Keys, NEW c \in Nat,
           Select!Usable(s), Len(selector[s].path) < MaxPath,
           Select!Reachable(selector[s].path),
           global' = Select!TableMade(selector[s].path),
           selector' = [selector EXCEPT ![t] = Select!Selecting(Append(selector[s].path, k), c, FALSE)]
    PROVE  SelectorTypes' /\ PathsThere'
<1> DEFINE p == selector[s].path
           new == Select!Selecting(Append(p, k), c, FALSE)
<1>1. p \in Select!Paths /\ p \in Seq(Keys) /\ Len(p) \in 1..MaxPath /\ Len(p) < MaxPath
  BY UsablePath, PathIsSeq
<1>2. new \in AnySelector /\ new.path = Append(p, k) /\ ~new.cut /\ Len(new.path) <= MaxPath /\ new.path # <<>>
  BY <1>1, SelectorAssumption DEF Select!Selecting, AnySelector
<1>3. selector \in [Handles -> AnySelector \union {None}]
  BY DEF SelectorInv, SelectorTypes
<1> HIDE DEF new
<1>4. /\ selector' \in [Handles -> AnySelector \union {None}]
      /\ selector'[t] = new
      /\ \A u \in Handles \ {t} : selector'[u] = selector[u]
  BY <1>2, <1>3 DEF new
<1>5. global' \in [Select!Paths -> Select!Contents] /\ global \in [Select!Paths -> Select!Contents]
  BY DEF Select!TableMade, Select!With, Select!Contents, SelectorInv, SelectorTypes
<1>6. SelectorTypes'
  <2>1. \A u \in Handles : selector'[u] # None =>
            /\ Len(selector'[u].path) <= MaxPath
            /\ selector'[u].path # <<>> \/ selector'[u] = Select!MovedFrom
    BY <1>2, <1>4 DEF SelectorInv, SelectorTypes
  <2> QED
    BY <1>4, <1>5, <2>1 DEF SelectorTypes, Select!MovedFrom, Select!Selecting, Select!NoCall,
                            Select!Paths, Select!Contents
<1>7. global'[p] = "table"
  <2>1. CASE global[p] = "table"
    BY <2>1 DEF Select!TableMade
  <2>2. CASE global[p] # "table"
    BY <1>1, <2>2 DEF Select!TableMade, Select!With
  <2> QED
    BY <2>1, <2>2
<1>8. ASSUME NEW r \in Seq(Keys), Len(r) <= MaxPath, Select!Reachable(r),
             NEW q \in Select!ProperPrefixes(r)
      PROVE  global'[q] = "table"
  <2>1. global[q] = "table"
    BY <1>8 DEF Select!Reachable
  <2>2. q \in Select!Paths
    <3>1. q \in Seq(Keys) /\ Len(q) \in 1..(Len(r) - 1)
      BY <1>8, PrefixIs
    <3>2. Len(q) <= MaxPath /\ q # <<>> /\ Len(r) \in Nat
      BY <1>8, <3>1, SelectorAssumption
    <3> QED
      BY <3>1, <3>2, PathIs
  <2>3. CASE global[p] = "table"
    BY <2>1, <2>3 DEF Select!TableMade
  <2>4. CASE global[p] # "table"
    <3>1. p \notin Select!ProperPrefixes(q)
      <4> SUFFICES ASSUME p \in Select!ProperPrefixes(q) PROVE FALSE
        OBVIOUS
      <4>1. p \in Select!ProperPrefixes(r)
        BY <1>8, PrefixOfPrefix
      <4> QED
        BY <1>8, <2>4, <4>1 DEF Select!Reachable
    <3>2. q # p
      BY <2>1, <2>4
    <3> QED
      BY <2>1, <2>2, <2>4, <3>1, <3>2 DEF Select!TableMade, Select!With
  <2> QED
    BY <2>3, <2>4
<1>9. PathsThere'
  <2> SUFFICES ASSUME NEW u \in Handles, selector'[u] # None, ~selector'[u].cut,
                      NEW q \in Select!ProperPrefixes(selector'[u].path)
               PROVE  global'[q] = "table"
    BY DEF PathsThere, Select!Reachable, Select!ProperPrefixes
  <2>1. CASE u = t
    <3>1. q = p \/ q \in Select!ProperPrefixes(p)
      BY <1>1, <1>2, <1>4, <2>1, PrefixOfLonger
    <3>2. q \in Select!ProperPrefixes(p) => global'[q] = "table"
      BY <1>1, <1>8, SelectorAssumption
    <3> QED
      BY <1>7, <3>1, <3>2
  <2>2. CASE u # t
    <3>1. selector[u] # None /\ ~selector[u].cut /\ q \in Select!ProperPrefixes(selector[u].path)
      BY <1>4, <2>2
    <3>2. selector[u].path \in Seq(Keys) /\ Len(selector[u].path) <= MaxPath /\ Select!Reachable(selector[u].path)
      BY <3>1 DEF SelectorInv, SelectorTypes, PathsThere, AnySelector
    <3> QED
      BY <1>8, <3>1, <3>2
  <2> QED
    BY <2>1, <2>2
<1> QED
  BY <1>6, <1>9

-----------------------------------------------------------------------------
(***************************************************************************)
(* The steps.                                                              *)
(***************************************************************************)
LEMMA NoPanic ==
    ASSUME SelectorInv, SelectorTypes', CallsInv', PathsThere', UNCHANGED panicked
    PROVE  SelectorInv'
  BY DEF SelectorInv, Select!PanicsOnlyIfCut

\* Lua raises an error outside of a protected call: the selector was cut.
LEMMA PanicKeeps ==
    ASSUME SelectorInv, NEW s \in Handles, selector[s] # None, Select!Panic(s)
    PROVE  SelectorInv'
<1>1. /\ ~Select!Reachable(selector[s].path) /\ panicked' = selector[s]
      /\ UNCHANGED <<global, selector, calls, runs, lost>>
  BY DEF Select!Panic
<1>2. panicked'.cut
  BY <1>1 DEF SelectorInv, SelectorTypes, AnySelector, PathsThere
<1>3. SelectorTypes' /\ PathsThere' /\ \A u \in Handles : CallOf(u)' = CallOf(u)
  BY <1>1, SelectorIsSound, TablesStay DEF CallOf
<1>4. CallsInv'
  BY <1>1, <1>3, SameCalls DEF SelectorInv
<1> QED
  BY <1>2, <1>3, <1>4 DEF SelectorInv, Select!PanicsOnlyIfCut

\* A script assigns to a path.
LEMMA ScriptKeeps ==
    ASSUME SelectorInv, NEW p \in Select!Paths, NEW v \in Select!Contents, Select!Script(p, v)
    PROVE  SelectorInv'
<1>1. /\ global' = Select!With(p, v) /\ selector' = Select!CutAt(p, v, selector)
      /\ UNCHANGED <<calls, runs, lost, panicked>>
  BY DEF Select!Script
<1>2. SelectorTypes' /\ PathsThere' /\ \A s \in Handles : CallOf(s)' = CallOf(s)
  BY <1>1, SelectorIsSound, TablesChange DEF CallOf, Select!NoCall
<1>3. CallsInv'
  BY <1>1, <1>2, SameCalls DEF SelectorInv
<1> QED
  BY <1>1, <1>2, <1>3, NoPanic

\* A value is assigned to a selector.
LEMMA StoreKeeps ==
    ASSUME SelectorInv, NEW s \in Handles, NEW v \in Select!Contents, Select!Store(s, v)
    PROVE  SelectorInv'
<1>1. CASE Select!Panic(s)
  BY <1>1, PanicKeeps DEF Select!Store, Select!Usable
<1>2. CASE ~Select!Panic(s)
  <2> DEFINE p == selector[s].path
  <2>1. /\ Select!Usable(s)
        /\ global' = Select!With(p, v) /\ selector' = Select!CutAt(p, v, selector)
        /\ UNCHANGED <<calls, runs, lost, panicked>>
    BY <1>2 DEF Select!Store
  <2>2. p \in Select!Paths
    BY <2>1, UsablePath
  <2>3. SelectorTypes' /\ PathsThere' /\ \A u \in Handles : CallOf(u)' = CallOf(u)
    BY <2>1, <2>2, SelectorIsSound, TablesChange DEF CallOf, Select!NoCall
  <2>4. CallsInv'
    BY <2>1, <2>3, SameCalls DEF SelectorInv
  <2> QED
    BY <2>1, <2>3, <2>4, NoPanic
<1> QED
  BY <1>1, <1>2

\* A selector is made for a global variable.
LEMMA MakeKeeps ==
    ASSUME SelectorInv, NEW s \in Handles, NEW k \in Keys, Select!Make(s, k)
    PROVE  SelectorInv'
<1> DEFINE new == Select!Selecting(<<k>>, Select!NoCall, FALSE)
<1>1. /\ selector[s] = None /\ selector' = [selector EXCEPT ![s] = new]
      /\ UNCHANGED <<global, calls, runs, lost, panicked>>
  BY DEF Select!Make
<1>2. new \in AnySelector /\ new.path = <<k>> /\ new.call = 0 /\ Len(new.path) <= MaxPath /\ new.path # <<>>
  BY SelectorAssumption DEF Select!Selecting, Select!NoCall, AnySelector
<1>3. Select!Reachable(new.path)
  <2>1. <<k>> \in Seq(Keys) /\ Len(<<k>>) = 1
    OBVIOUS
  <2>2. \A q \in Select!ProperPrefixes(<<k>>) : Len(q) \in 1..(1 - 1)
    BY <2>1, PrefixIs
  <2>3. Select!ProperPrefixes(<<k>>) = {}
    BY <2>2
  <2> QED
    BY <1>2, <2>3 DEF Select!Reachable
<1> HIDE DEF new
<1>4. Sound([selector EXCEPT ![s] = new])
  BY <1>2, <1>3, SelectorIsSound, OneReplaced
<1>5. SelectorTypes' /\ PathsThere'
  BY <1>1, <1>4, TablesStay
<1>6. \A u \in Handles : CallOf(u)' = CallOf(u)
  BY <1>1, <1>2, SelectorAssumption DEF CallOf, Select!NoCall, SelectorInv, SelectorTypes
<1>7. CallsInv'
  BY <1>1, <1>6, SameCalls DEF SelectorInv
<1> QED
  BY <1>1, <1>5, <1>7, NoPanic

\* operator[]: the tables on the way are made if need be.
LEMMA IndexKeeps ==
    ASSUME SelectorInv, NEW s \in Handles, NEW t \in Handles, NEW k \in Keys, Select!Index(s, t, k)
    PROVE  SelectorInv'
<1>1. Select!Usable(s) /\ Len(selector[s].path) < MaxPath /\ (t = s \/ selector[t] = None)
  BY DEF Select!Index
<1>2. CASE Select!Panic(s)
  BY <1>1, <1>2, PanicKeeps DEF Select!Usable
<1>3. CASE ~Select!Panic(s)
  <2> DEFINE c == IF t = s THEN selector[s].call ELSE Select!NoCall
             new == Select!Selecting(Append(selector[s].path, k), c, FALSE)
  <2>1. /\ Select!Reachable(selector[s].path)
        /\ global' = Select!TableMade(selector[s].path)
        /\ selector' = [selector EXCEPT ![t] = new]
        /\ UNCHANGED <<calls, runs, lost, panicked>>
    BY <1>3 DEF Select!Index
  <2>2. selector[s] # None /\ selector[s] \in AnySelector
    BY <1>1, UsablePath DEF Select!Usable
  <2>3. c \in Nat /\ c = CallOf(t)
    BY <1>1, <2>2 DEF AnySelector, CallOf, Select!NoCall
  <2>4. new.call = c /\ new \in AnySelector
    BY <2>2, <2>3 DEF Select!Selecting, AnySelector
  <2> HIDE DEF c
  <2>5. SelectorTypes' /\ PathsThere'
    BY <1>1, <2>1, <2>3, TableIsMade
  <2> HIDE DEF new
  <2>6. \A u \in Handles : CallOf(u)' = CallOf(u)
    BY <2>1, <2>3, <2>4, SelectorAssumption DEF CallOf, SelectorInv, SelectorTypes, AnySelector
  <2>7. CallsInv'
    BY <2>1, <2>6, SameCalls DEF SelectorInv
  <2> QED
    BY <2>1, <2>5, <2>7, NoPanic
<1> QED
  BY <1>2, <1>3

\* What a selector loses when it is assigned to.
LEMMA LostIs ==
    ASSUME NEW t \in Handles
    PROVE  (IF selector[t] = None THEN {} ELSE {selector[t].call} \ {Select!NoCall}) = {CallOf(t)} \ {0}
  BY DEF CallOf, Select!NoCall

\* A selector gets a copy of another one, with call c.
LEMMA CopySound ==
    ASSUME SelectorInv, NEW s \in Handles, NEW t \in Handles, NEW c \in Nat,
           Select!Usable(s), UNCHANGED global,
           selector' = [selector EXCEPT ![t] = [selector[s] EXCEPT !.call = c]]
    PROVE  /\ SelectorTypes' /\ PathsThere'
           /\ CallOf(t)' = c /\ \A u \in Handles \ {t} : CallOf(u)' = CallOf(u)
<1> DEFINE new == [selector[s] EXCEPT !.call = c]
<1>1. selector[s] # None /\ selector[s] \in AnySelector /\ selector[s].path # <<>>
  <2>1. selector[s].path \in Select!Paths
    BY UsablePath
  <2>2. selector[s].path # <<>>
    BY <2>1, PathIsSeq, EmptySeq
  <2> QED
    BY <2>2, UsablePath DEF Select!Usable
<1>2. new \in AnySelector /\ new.path = selector[s].path /\ new.call = c /\ new.cut = selector[s].cut
  BY <1>1 DEF AnySelector
<1> HIDE DEF new
<1>3. Len(new.path) <= MaxPath /\ new.path # <<>> /\ (~new.cut => Select!Reachable(new.path))
  BY <1>1, <1>2 DEF SelectorInv, SelectorTypes, PathsThere
<1>4. Sound([selector EXCEPT ![t] = new])
  BY <1>2, <1>3, SelectorIsSound, OneReplaced
<1>5. selector' = [selector EXCEPT ![t] = new]
  BY DEF new
<1>6. SelectorTypes' /\ PathsThere'
  BY <1>4, <1>5, TablesStay
<1>7. CallOf(t)' = c /\ \A u \in Handles \ {t} : CallOf(u)' = CallOf(u)
  BY <1>2, <1>5, SelectorAssumption DEF CallOf, SelectorInv, SelectorTypes, AnySelector
<1> QED
  BY <1>6, <1>7

\* operator(): the selector gets a call.
LEMMA CallLaterKeeps ==
    ASSUME SelectorInv, NEW s \in Handles, NEW t \in Handles, Select!CallLater(s, t)
    PROVE  SelectorInv'
<1>1. /\ Select!Usable(s) /\ calls < MaxActive /\ calls' = calls + 1
      /\ selector' = [selector EXCEPT ![t] = [selector[s] EXCEPT !.call = calls + 1]]
      /\ lost' = lost \union ({CallOf(t)} \ {0})
      /\ UNCHANGED <<global, runs, panicked>>
  BY LostIs DEF Select!CallLater, Select!Hold
<1>2. calls + 1 \in Nat
  BY DEF SelectorInv, CallsInv
<1>3. /\ SelectorTypes' /\ PathsThere'
      /\ CallOf(t)' = calls + 1 /\ \A u \in Handles \ {t} : CallOf(u)' = CallOf(u)
  BY <1>1, <1>2, CopySound
<1>4. CallsInv'
  BY <1>1, <1>3, CallMade DEF SelectorInv
<1> QED
  BY <1>1, <1>3, <1>4, NoPanic

\* A selector is copied: a call that it has is a new one in the copy.
LEMMA CopyKeeps ==
    ASSUME SelectorInv, NEW s \in Handles, NEW t \in Handles, Select!Copy(s, t)
    PROVE  SelectorInv'
<1>1. /\ Select!Usable(s) /\ t # s
      /\ lost' = lost \union ({CallOf(t)} \ {0})
      /\ UNCHANGED <<global, runs, panicked>>
  BY LostIs DEF Select!Copy, Select!Hold
<1>2. CASE selector[s].call = Select!NoCall
  <2>1. selector[s] \in AnySelector /\ selector[s].call = 0
    BY <1>1, <1>2, UsablePath DEF Select!NoCall
  <2>2. selector' = [selector EXCEPT ![t] = selector[s]] /\ UNCHANGED calls
    BY <1>2 DEF Select!Copy, Select!Hold
  <2>3. [selector[s] EXCEPT !.call = 0] = selector[s]
    BY <2>1 DEF AnySelector
  <2>4. selector' = [selector EXCEPT ![t] = [selector[s] EXCEPT !.call = 0]]
    BY <2>2, <2>3
  <2>5. /\ SelectorTypes' /\ PathsThere'
        /\ CallOf(t)' = 0 /\ \A u \in Handles \ {t} : CallOf(u)' = CallOf(u)
    BY <1>1, <2>4, CopySound
  <2>6. CallsInv'
    BY <1>1, <2>2, <2>5, CallLost DEF SelectorInv
  <2> QED
    BY <1>1, <2>5, <2>6, NoPanic
<1>3. CASE selector[s].call # Select!NoCall
  <2>1. /\ calls < MaxActive /\ calls' = calls + 1
        /\ selector' = [selector EXCEPT ![t] = [selector[s] EXCEPT !.call = calls + 1]]
    BY <1>3 DEF Select!Copy, Select!Hold
  <2>2. calls + 1 \in Nat
    BY DEF SelectorInv, CallsInv
  <2>3. /\ SelectorTypes' /\ PathsThere'
        /\ CallOf(t)' = calls + 1 /\ \A u \in Handles \ {t} : CallOf(u)' = CallOf(u)
    BY <1>1, <2>1, <2>2, CopySound
  <2>4. CallsInv'
    BY <1>1, <2>1, <2>3, CallMade DEF SelectorInv
  <2> QED
    BY <1>1, <2>3, <2>4, NoPanic
<1> QED
  BY <1>2, <1>3

\* A selector is moved, and its call with it.
LEMMA MoveKeeps ==
    ASSUME SelectorInv, NEW s \in Handles, NEW t \in Handles, Select!Move(s, t)
    PROVE  SelectorInv'
<1> DEFINE m == Select!MovedFrom
           copied == [selector EXCEPT ![t] = selector[s]]
<1>1. /\ Select!Usable(s) /\ t # s
      /\ selector' = [selector EXCEPT ![t] = selector[s], ![s] = m]
      /\ lost' = lost \union ({CallOf(t)} \ {0})
      /\ UNCHANGED <<global, calls, runs, panicked>>
  BY LostIs DEF Select!Move, Select!LeftBehind
<1>2. selector[s] \in AnySelector /\ selector[s] # None
  BY <1>1, UsablePath DEF Select!Usable
<1>3. m \in AnySelector /\ m # None /\ m.path = <<>> /\ m.call = 0 /\ ~m.cut /\ Select!Reachable(m.path)
  BY MovedFromIs
<1>4. Sound(copied)
  BY <1>2, SelectorIsSound, SoundSelectors, OneReplaced DEF SelectorInv
<1>5. Sound([copied EXCEPT ![s] = m])
  <2>1. Len(m.path) <= MaxPath
    BY <1>3, SelectorAssumption
  <2> HIDE DEF copied
  <2> QED
    BY <1>3, <1>4, <2>1, OneReplaced
<1>6. selector' = [copied EXCEPT ![s] = m]
  BY <1>1
<1> HIDE DEF copied
<1>7. SelectorTypes' /\ PathsThere'
  BY <1>1, <1>5, <1>6, TablesStay
<1> HIDE DEF m
<1>8. /\ CallOf(t)' = CallOf(s) /\ CallOf(s)' = 0
      /\ \A u \in Handles \ {s, t} : CallOf(u)' = CallOf(u)
  BY <1>1, <1>2, <1>3 DEF CallOf, SelectorInv, SelectorTypes
<1>9. CallsInv'
  BY <1>1, <1>8, CallMoved DEF SelectorInv
<1> QED
  BY <1>1, <1>7, <1>9, NoPanic

\* The call of a selector is made; the function may have changed a variable.
LEMMA RunKeeps ==
    ASSUME SelectorInv, NEW s \in Handles, selector[s] # None, selector[s].call # Select!NoCall,
           NEW after, after \in {None, Select!FlagCleared(s)}, Select!Run(s, after)
    PROVE  SelectorInv'
<1> DEFINE sel == [selector EXCEPT ![s] = after]
<1>1. runs' = [runs EXCEPT ![CallOf(s)] = @ + 1] /\ CallOf(s) # 0 /\ UNCHANGED <<calls, lost, panicked>>
  BY DEF Select!Run, CallOf, Select!NoCall
<1>2. selector[s] \in AnySelector
  BY DEF SelectorInv, SelectorTypes
<1>3. after = None \/ (after \in AnySelector /\ after # None /\ after.path = selector[s].path /\ after.call = 0
                         /\ after.cut = selector[s].cut)
  BY <1>2, SelectorAssumption DEF Select!FlagCleared, Select!NoCall, AnySelector
<1>4. after # None => after.path # <<>>
  <2>1. selector[s].path # <<>>
    BY MovedFromIs DEF SelectorInv, SelectorTypes, Select!NoCall
  <2> QED
    BY <1>3, <2>1
<1>5. Sound(sel)
  BY <1>3, <1>4, SelectorIsSound, SoundSelectors, OneReplaced DEF SelectorInv
<1>6. /\ \A u \in Handles \ {s} : sel[u] = selector[u]
      /\ sel[s] = after
  BY DEF SelectorInv, SelectorTypes
<1>7. \/ UNCHANGED global /\ selector' = sel
      \/ \E p \in Select!Paths, v \in Select!Contents :
            global' = Select!With(p, v) /\ selector' = Select!CutAt(p, v, sel)
  BY DEF Select!Run
<1> HIDE DEF sel
<1>8. SelectorTypes' /\ PathsThere' /\ \A u \in Handles : CallOf(u)' = IF sel[u] = None THEN 0 ELSE sel[u].call
  <2>1. CASE UNCHANGED global /\ selector' = sel
    BY <1>5, <2>1, TablesStay DEF CallOf, Select!NoCall
  <2>2. CASE \E p \in Select!Paths, v \in Select!Contents :
                 global' = Select!With(p, v) /\ selector' = Select!CutAt(p, v, sel)
    BY <1>5, <2>2, TablesChange
  <2> QED
    BY <1>7, <2>1, <2>2
<1>9. CallOf(s)' = 0 /\ \A u \in Handles \ {s} : CallOf(u)' = CallOf(u)
  BY <1>3, <1>6, <1>8 DEF CallOf, Select!NoCall
<1>10. CallsInv'
  BY <1>1, <1>9, CallRuns DEF SelectorInv
<1> QED
  BY <1>1, <1>8, <1>10, NoPanic

\* A selector is converted to a value.
LEMMA ConvertKeeps ==
    ASSUME SelectorInv, NEW s \in Handles, Select!Convert(s)
    PROVE  SelectorInv'
  BY PanicKeeps, RunKeeps DEF Select!Convert, Select!Usable

\* ~Selector(): a call that is still to be made is made.
LEMMA DestroyKeeps ==
    ASSUME SelectorInv, NEW s \in Handles, Select!Destroy(s)
    PROVE  SelectorInv'
<1>1. selector[s] # None
  BY DEF Select!Destroy
<1>2. CASE selector[s].call = Select!NoCall
  <2>1. selector' = [selector EXCEPT ![s] = None] /\ UNCHANGED <<global, calls, runs, lost, panicked>>
    BY <1>2 DEF Select!Destroy
  <2>2. Sound([selector EXCEPT ![s] = None])
    BY SelectorIsSound, OneReplaced
  <2>3. SelectorTypes' /\ PathsThere'
    BY <2>1, <2>2, TablesStay
  <2>4. \A u \in Handles : CallOf(u)' = CallOf(u)
    BY <1>2, <2>1 DEF CallOf, Select!NoCall, SelectorInv, SelectorTypes
  <2>5. CallsInv'
    BY <2>1, <2>4, SameCalls DEF SelectorInv
  <2> QED
    BY <2>1, <2>3, <2>5, NoPanic
<1>3. CASE selector[s].call # Select!NoCall
  BY <1>1, <1>3, PanicKeeps, RunKeeps DEF Select!Destroy
<1> QED
  BY <1>2, <1>3

\* Steps of other parts.
LEMMA SelectorStutters ==
    ASSUME SelectorInv, UNCHANGED selectorVars
    PROVE  SelectorInv'
<1>1. UNCHANGED <<global, selector, calls, runs, lost, panicked>>
  BY DEF selectorVars
<1>2. SelectorTypes' /\ PathsThere' /\ \A u \in Handles : CallOf(u)' = CallOf(u)
  BY <1>1, SelectorIsSound, TablesStay DEF CallOf
<1>3. CallsInv'
  BY <1>1, <1>2, SameCalls DEF SelectorInv
<1> QED
  BY <1>1, <1>2, <1>3, NoPanic

\* The steps together.
LEMMA SelectorNext ==
    ASSUME SelectorInv, Select!Next
    PROVE  SelectorInv'
<1>1. CASE Select!Over
  BY <1>1, SelectorStutters DEF Select!Over, Select!vars, selectorVars
<1>2. CASE \E p \in Select!Paths, v \in Select!Contents : Select!Script(p, v)
  BY <1>2, ScriptKeeps
<1>3. ASSUME NEW s \in Handles,
             \/ \E k \in Keys : Select!Make(s, k) \/ \E t \in Handles : Select!Index(s, t, k)
             \/ \E t \in Handles : Select!CallLater(s, t) \/ Select!Copy(s, t) \/ Select!Move(s, t)
             \/ Select!Convert(s) \/ Select!Exists(s) \/ Select!Destroy(s)
             \/ \E v \in Select!Contents : Select!Store(s, v)
      PROVE  SelectorInv'
  <2>1. Select!Exists(s) => SelectorInv'
    BY PanicKeeps DEF Select!Exists, Select!Usable
  <2> QED
    BY <1>3, <2>1, MakeKeeps, IndexKeeps, CallLaterKeeps, CopyKeeps, MoveKeeps, ConvertKeeps,
       DestroyKeeps, StoreKeeps
<1> QED
  BY <1>1, <1>2, <1>3 DEF Select!Next

\* There is no selector at the start.
LEMMA SelectorInit == Select!Init => SelectorInv
<1> SUFFICES ASSUME Select!Init PROVE SelectorInv
  OBVIOUS
<1>1. /\ global = [p \in Select!Paths |-> "nil"] /\ selector = [s \in Handles |-> None]
      /\ calls = 0 /\ runs = [c \in 1..MaxActive |-> 0] /\ lost = {} /\ panicked = None
  BY DEF Select!Init, Select!Calls
<1>2. SelectorTypes /\ PathsThere /\ Select!PanicsOnlyIfCut
  BY <1>1 DEF SelectorTypes, PathsThere, Select!PanicsOnlyIfCut, Select!Contents
<1>3. CallsInv
  BY <1>1, SelectorAssumption DEF CallsInv, CallOf, Select!NoCall
<1> QED
  BY <1>2, <1>3 DEF SelectorInv

\* A call that has been made once is in no selector and not lost; and so on.
LEMMA CallsRunOnce ==
    ASSUME CallsInv
    PROVE  Select!RunsOnce
<1>9. \A S : Select!Cardinality(S) = Cardinality(S)
  BY DEF Select!Cardinality, Cardinality
<1> SUFFICES ASSUME NEW c \in 1..calls
             PROVE  runs[c] + Select!HoldersOf(c) + Cardinality(lost \intersect {c}) = 1
  BY <1>9 DEF Select!RunsOnce
<1> DEFINE holders == {s \in Handles : selector[s] # None /\ selector[s].call = c}
<1>1. c # 0 /\ c <= calls /\ ~(c > calls) /\ c \in 1..MaxActive
  BY SelectorAssumption DEF CallsInv
<1>2. holders = {s \in Handles : CallOf(s) = c}
  BY <1>1 DEF CallOf, Select!NoCall
<1>3. /\ Cardinality({}) = 0
      /\ \A x : Cardinality({x}) = 1
  BY FS_EmptySet, FS_Singleton
<1>4. \A s \in holders : holders = {s}
  BY <1>1, <1>2 DEF CallsInv
<1>5. c \in lost => lost \intersect {c} = {c}
  OBVIOUS
<1>6. c \notin lost => lost \intersect {c} = {}
  OBVIOUS
<1>7. Select!HoldersOf(c) = Cardinality(holders)
  BY <1>9 DEF Select!HoldersOf
<1> HIDE DEF holders
<1>8. \/ runs[c] = 1 /\ c \notin lost /\ holders = {}
      \/ runs[c] = 0 /\ c \in lost /\ holders = {}
      \/ runs[c] = 0 /\ c \notin lost /\ \E s \in holders : TRUE
  BY <1>1, <1>2 DEF CallsInv
<1>10. CASE runs[c] = 1 /\ c \notin lost /\ holders = {}
  <2>1. Select!HoldersOf(c) = 0 /\ Cardinality(lost \intersect {c}) = 0
    BY <1>3, <1>6, <1>7, <1>10
  <2> QED
    BY <1>10, <2>1
<1>11. CASE runs[c] = 0 /\ c \in lost /\ holders = {}
  <2>1. Select!HoldersOf(c) = 0 /\ Cardinality(lost \intersect {c}) = 1
    BY <1>3, <1>5, <1>7, <1>11
  <2> QED
    BY <1>11, <2>1
<1>12. CASE runs[c] = 0 /\ c \notin lost /\ \E s \in holders : TRUE
  <2>1. PICK s \in holders : TRUE
    BY <1>12
  <2>2. Cardinality(holders) = 1
    BY <1>3, <1>4
  <2>3. Select!HoldersOf(c) = 1 /\ Cardinality(lost \intersect {c}) = 0
    BY <1>3, <1>6, <1>7, <1>12, <2>2
  <2> QED
    BY <1>12, <2>3
<1> QED
  BY <1>8, <1>10, <1>11, <1>12

-----------------------------------------------------------------------------
(***************************************************************************)
(* The theorems.  One part makes a step at a time, and the others keep     *)
(* their invariants.                                                       *)
(***************************************************************************)
\* The inductive invariants of all parts.
PartsInv == SinkInv /\ CollectorInv /\ LineInv /\ TypesInv /\ StackInv /\ SelectorInv

\* Every step of one part keeps the invariants of all.
LEMMA PartsStep == PartsInv /\ [PartsNext]_allVars => PartsInv'
<1> SUFFICES ASSUME PartsInv, [PartsNext]_allVars PROVE PartsInv'
  OBVIOUS
<1>1. SinkInv'
  <2>1. [Sink!Next]_(Sink!vars)
    BY DEF PartsNext, RecordStep, SinkStep, CollectorStep, LineStep, LuaStep, TypesStep, StackStep,
           SelectorStep, OtherThanLua, allVars, processVars, sinkVars, Sink!vars
  <2> QED
    BY <2>1, SinkNext DEF PartsInv
<1>2. CollectorInv'
  <2>1. [Collector!Next]_(Collector!vars)
    BY DEF PartsNext, RecordStep, SinkStep, CollectorStep, LineStep, LuaStep, TypesStep, StackStep,
           SelectorStep, OtherThanLua, allVars, processVars, collectorVars, Collector!vars
  <2> QED
    BY <2>1, CollectorNext DEF PartsInv
<1>3. LineInv'
  <2>1. [Line!Next]_(Line!vars)
    BY DEF PartsNext, RecordStep, SinkStep, CollectorStep, LineStep, LuaStep, TypesStep, StackStep,
           SelectorStep, OtherThanLua, allVars, processVars, lineVars, Line!vars
  <2> QED
    BY <2>1, LineNext DEF PartsInv
<1>4. TypesInv'
  <2>1. [Objects!Next]_(Objects!vars)
    BY DEF PartsNext, RecordStep, SinkStep, CollectorStep, LineStep, LuaStep, TypesStep, StackStep,
           SelectorStep, allVars, luaVars, typeVars, Objects!vars
  <2> QED
    BY <2>1, TypesNext DEF PartsInv
<1>5. StackInv'
  <2>1. Stack!Next \/ UNCHANGED stackVars
    BY DEF PartsNext, RecordStep, SinkStep, CollectorStep, LineStep, LuaStep, TypesStep, StackStep,
           SelectorStep, allVars, luaVars
  <2> QED
    BY <2>1, StackNext, StackStutters DEF PartsInv
<1>6. SelectorInv'
  <2>1. Select!Next \/ UNCHANGED selectorVars
    BY DEF PartsNext, RecordStep, SinkStep, CollectorStep, LineStep, LuaStep, TypesStep, StackStep,
           SelectorStep, allVars, luaVars
  <2> QED
    BY <2>1, SelectorNext, SelectorStutters DEF PartsInv
<1> QED
  BY <1>1, <1>2, <1>3, <1>4, <1>5, <1>6 DEF PartsInv

\* The invariants hold in every state of the run.
LEMMA PartsAlways == PartsSpec => []PartsInv
<1>1. PartsInit => PartsInv
  BY SinkStart, CollectorStart, LineStart, TypesStart, StackInit, SelectorInit DEF PartsInit,
     PartsInv
<1> QED
  BY <1>1, PartsStep, PTL DEF PartsSpec

\* The records in the files of FileSink, from the oldest file to the log, are in order,
\* none twice and none in two files, wherever a write or a rename fails or the process is
\* killed during a rotation; and while no rename has failed, none is missing after one
\* that is there, but for those that an error of a write damaged.
THEOREM SinkLogsReadBack == PartsSpec => []LogsReadBack
<1>1. SinkInv => LogsReadBack
  BY ReadBackSuffices DEF LogsReadBack
<1> QED
  BY <1>1, PartsAlways, PTL DEF PartsInv

\* The reply of collectProcesses() has what was asked for and could be read, of a process
\* that goes on all of it, and nothing that is older than the call.
THEOREM CollectorReplies == PartsSpec => []ReplyAsRead
<1>1. CollectorInv => ReplyAsRead
  BY RepliesAsRead DEF ReplyAsRead
<1> QED
  BY <1>1, PartsAlways, PTL DEF PartsInv

\* The name of a process is read from its stat line as it is, with spaces and parentheses
\* in it and of any length, and every field after it keeps its number.
THEOREM NamesAreOneField == PartsSpec => []NameIsOneField
<1>1. LineInv => NameIsOneField
  BY FieldsAreAll DEF NameIsOneField
<1> QED
  BY <1>1, PartsAlways, PTL DEF PartsInv

\* An object that a Reference or a Pointer of C++ points to is not collected by Lua.
THEOREM PinnedObjectsLive == PartsSpec => []PinnedAlive
<1>1. TypesInv => PinnedAlive
  BY HandlesPin DEF PinnedAlive
<1> QED
  BY <1>1, PartsAlways, PTL DEF PartsInv

\* C++ gets an object out of Lua as the type it has, with the exceptions that ReadAsPushed
\* names.
THEOREM ObjectsReadAsPushed == PartsSpec => []ReadAsPushed
<1>1. TypesInv => ReadAsPushed
  BY ReadRight DEF ReadAsPushed
<1> QED
  BY <1>1, PartsAlways, PTL DEF PartsInv

\* A single result that C++ reads after a call is one of that call, at any depth of calls
\* from Lua into C++ and back.
THEOREM SingleResultsAreOwn == PartsSpec => []SinglesAreOwn
<1>1. StackInv => SinglesAreOwn
  BY DEF StackInv, SinglesAreOwn
<1> QED
  BY <1>1, PartsAlways, PTL DEF PartsInv

\* An exception never leaves the destructor of a selector that runs because of another
\* one: the process does not end in std::terminate().
THEOREM OnlyOneUnwinds == PartsSpec => []OneExceptionUnwinds
<1>1. StackInv => OneExceptionUnwinds
  BY DEF StackInv, OneAtATime, OneExceptionUnwinds, Stack!OneExceptionUnwinds
<1> QED
  BY <1>1, PartsAlways, PTL DEF PartsInv

\* The exception that leaves a C++ function gets to the innermost pcall() of the scripts
\* that have called it or else, as itself, to the exception handler of the call they are in;
\* and no handler ever hears of another exception than that or one that scripts have caught.
THEOREM ExceptionsReported == PartsSpec => ExceptionReported
<1>1. PartsInv /\ [PartsNext]_allVars => [Stack!HeardOf]_(Stack!vars)
  <2> SUFFICES ASSUME PartsInv, [PartsNext]_allVars PROVE Stack!HeardOf \/ UNCHANGED Stack!vars
    OBVIOUS
  <2>1. Stack!Next \/ UNCHANGED stackVars
    BY DEF PartsNext, RecordStep, SinkStep, CollectorStep, LineStep, LuaStep, TypesStep, StackStep,
           SelectorStep, allVars, luaVars
  <2>2. UNCHANGED stackVars => UNCHANGED Stack!vars
    BY DEF stackVars, Stack!vars
  <2> QED
    BY <2>1, <2>2, StackNext DEF PartsInv
<1> QED
  BY <1>1, PartsAlways, PTL DEF PartsSpec, ExceptionReported, Stack!ExceptionReported

\* A call that a selector stands for waits in one selector or has been made once, however
\* selectors are copied, moved and destroyed, unless its selector was assigned to.
THEOREM SelectorsRunOnce == PartsSpec => []RunsOnce
<1>1. SelectorInv => RunsOnce
  BY CallsRunOnce DEF SelectorInv, RunsOnce
<1> QED
  BY <1>1, PartsAlways, PTL DEF PartsInv

\* The use of a selector ends the process only if a table on its path has been taken away.
THEOREM PanicsWhenCut == PartsSpec => []PanicsOnlyIfCut
<1>1. SelectorInv => PanicsOnlyIfCut
  BY DEF SelectorInv, PanicsOnlyIfCut
<1> QED
  BY <1>1, PartsAlways, PTL DEF PartsInv
==============================================================================
