--------------------------- MODULE FolderMoveProofs ---------------------------
(***************************************************************************)
(* Proofs about FolderMove, for any number of files, contents and sizes,   *)
(* and any number of runs, of failing calls and of crashes.  Other programs *)
(* write at any step but after the last measurement of the source, when    *)
(* nothing could tell (WritesShow); what they write while the folder is    *)
(* copied, the measurement must be able to tell: one write does, where     *)
(* contents differ in size (OneWriteShows).  RefusalHonest, which speaks of *)
(* runs no program wrote to, needs no such assumption.                     *)
(***************************************************************************)
EXTENDS FolderMove, FiniteSetTheorems, WellFoundedInduction, TLAPS

-----------------------------------------------------------------------------
(* What a measurement adds up.                                              *)

\* Every set of numbers has a least one.
LEMMA Least ==
  ASSUME NEW T, T \subseteq Nat, T # {}
  PROVE  \E n \in T : \A m \in T : n <= m
<1>1. PICK n \in T : \A m \in T : ~(<<m, n>> \in OpToRel(<, Nat))
  BY NatLessThanWellFounded, WFMin
<1>2. \A m \in T : ~(m < n)
  BY <1>1 DEF OpToRel
<1>3. QED
  BY <1>2

\* The sizes of the files of S, summed: what Bytes unfolds to.
Size(files, f) == SizeOf[files[f]]
Some(s) == CHOOSE f \in s : TRUE
IsTotal(total, files, domain) ==
  total = [s \in domain |->
             IF s = {} THEN 0 ELSE Size(files, Some(s)) + total[s \ {Some(s)}]]
TotalOf(files, S) == CHOOSE total : IsTotal(total, files, SUBSET S)

LEMMA BytesIs == ASSUME NEW files PROVE Bytes(files) = TotalOf(files, Present(files))[Present(files)]
BY DEF Bytes, MapThenSumSet, MapThenFoldSet, TotalOf, IsTotal, Some, Size

LEMMA SomeIn == ASSUME NEW s, s # {} PROVE Some(s) \in s
BY DEF Some

LEMMA TotalExists ==
  ASSUME NEW files, NEW S, IsFiniteSet(S)
  PROVE  IsTotal(TotalOf(files, S), files, SUBSET S)
<1> DEFINE upTo(n) == {s \in SUBSET S : Cardinality(s) <= n}
           Bad == {n \in Nat : ~\E total : IsTotal(total, files, upTo(n))}
<1>0. \A s \in SUBSET S : IsFiniteSet(s) /\ Cardinality(s) \in Nat
  BY FS_Subset, FS_CardinalityType
<1>1. Bad = {}
  <2> SUFFICES ASSUME Bad # {} PROVE FALSE
    OBVIOUS
  <2>1. PICK n \in Bad : \A m \in Bad : n <= m
    <3>1. Bad \subseteq Nat
      OBVIOUS
    <3> HIDE DEF Bad
    <3>2. QED
      BY <3>1, Least
  <2>2. n \in Nat
    OBVIOUS
  <2>3. n # 0
    <3>1. upTo(0) = {{}}
      BY <1>0, FS_EmptySet
    <3> DEFINE h == [s \in upTo(0) |-> 0]
    <3>2. IsTotal(h, files, upTo(0))
      <4>1. \A s \in upTo(0) : 0 = IF s = {} THEN 0 ELSE Size(files, Some(s)) + h[s \ {Some(s)}]
        BY <3>1
      <4>2. h = [s \in upTo(0) |-> 0]
        OBVIOUS
      <4> HIDE DEF h, upTo
      <4>3. QED
        BY <4>1, <4>2 DEF IsTotal
    <3> HIDE DEF h, upTo
    <3>3. QED
      BY <3>2
  <2>4. PICK g : IsTotal(g, files, upTo(n - 1))
    <3>1. n - 1 \in Nat /\ n - 1 \notin Bad
      <4> HIDE DEF Bad
      <4> QED
        BY <2>1, <2>2, <2>3
    <3> HIDE DEF upTo
    <3>2. QED
      BY <3>1
  <2> DEFINE part(s) == IF s = {} THEN 0 ELSE Size(files, Some(s)) + g[s \ {Some(s)}]
             h == [s \in upTo(n) |-> part(s)]
  <2>5. \A s \in upTo(n - 1) : s \in upTo(n) /\ g[s] = part(s)
    <3>1. \A s \in upTo(n - 1) : s \in upTo(n)
      BY <1>0, <2>2
    <3>2. g = [s \in upTo(n - 1) |-> part(s)]
      BY <2>4, Zenon DEF IsTotal
    <3> HIDE DEF upTo, part
    <3>3. QED
      BY <3>1, <3>2
  <2>6. \A s \in upTo(n) : s # {} => s \ {Some(s)} \in upTo(n - 1)
    <3> SUFFICES ASSUME NEW s \in upTo(n), s # {} PROVE s \ {Some(s)} \in upTo(n - 1)
      OBVIOUS
    <3>1. Cardinality(s \ {Some(s)}) = Cardinality(s) - 1
      BY <1>0, SomeIn, FS_RemoveElement
    <3>2. QED
      BY <1>0, <2>2, <3>1
  <2>7. \A s \in upTo(n) : s # {} => h[s \ {Some(s)}] = g[s \ {Some(s)}]
    <3> HIDE DEF upTo, part
    <3>1. QED
      BY <2>5, <2>6
  <2>8. IsTotal(h, files, upTo(n))
    <3>1. h = [s \in upTo(n) |->
                IF s = {} THEN 0 ELSE Size(files, Some(s)) + h[s \ {Some(s)}]]
      <4>1. \A s \in upTo(n) :
              part(s) = IF s = {} THEN 0 ELSE Size(files, Some(s)) + h[s \ {Some(s)}]
        BY <2>7
      <4> HIDE DEF part, upTo
      <4>2. h = [s \in upTo(n) |-> part(s)]
        OBVIOUS
      <4> HIDE DEF h
      <4>3. QED
        BY <4>1, <4>2
    <3> HIDE DEF h, upTo
    <3>2. QED
      BY <3>1 DEF IsTotal
  <2>9. n \notin Bad
    <3> HIDE DEF h, upTo
    <3>1. QED
      BY <2>8
  <2>10. QED
    BY <2>9
<1>2. \E total : IsTotal(total, files, upTo(Cardinality(S)))
  BY <1>0, <1>1
<1>3. upTo(Cardinality(S)) = SUBSET S
  BY FS_Subset
<1> HIDE DEF upTo
<1>4. \E total : IsTotal(total, files, SUBSET S)
  BY <1>2, <1>3
<1>5. QED
  BY <1>4 DEF TotalOf

LEMMA TotalStep ==
  ASSUME NEW files, NEW S, IsFiniteSet(S), NEW s \in SUBSET S
  PROVE  TotalOf(files, S)[s] =
           IF s = {} THEN 0 ELSE Size(files, Some(s)) + TotalOf(files, S)[s \ {Some(s)}]
<1> DEFINE total == TotalOf(files, S)
<1>1. IsTotal(total, files, SUBSET S)
  BY TotalExists
<1> HIDE DEF total
<1>2. total[s] = IF s = {} THEN 0 ELSE Size(files, Some(s)) + total[s \ {Some(s)}]
  BY <1>1 DEF IsTotal
<1>3. QED
  BY <1>2 DEF total

\* Of any sets of files there is one that holds no smaller one of them.
LEMMA SmallestSet ==
  ASSUME NEW S, IsFiniteSet(S), NEW Sets, Sets \subseteq SUBSET S, Sets # {}
  PROVE  \E s \in Sets : \A u \in SUBSET s : u # s => u \notin Sets
<1> DEFINE Cards == {Cardinality(s) : s \in Sets}
<1>1. \A s \in SUBSET S : IsFiniteSet(s) /\ Cardinality(s) \in Nat
  BY FS_Subset, FS_CardinalityType
<1>2. Cards \subseteq Nat /\ Cards # {}
  BY <1>1
<1>3. PICK n \in Cards : \A m \in Cards : n <= m
  BY <1>2, Least
<1>4. PICK s \in Sets : n = Cardinality(s)
  OBVIOUS
<1>5. ASSUME NEW u \in SUBSET s, u # s PROVE u \notin Sets
  <2>1. IsFiniteSet(s) /\ Cardinality(u) \in Nat /\ Cardinality(s) \in Nat
    BY <1>1
  <2>2. Cardinality(u) <= Cardinality(s) /\ Cardinality(u) # Cardinality(s)
    BY <1>5, <2>1, FS_Subset
  <2>3. u \in Sets => Cardinality(s) <= Cardinality(u)
    BY <1>3, <1>4
  <2>4. QED
    BY <2>1, <2>2, <2>3
<1>6. QED
  BY <1>5

\* The total of a part, taken file by file in whatever order.
LEMMA TotalNat ==
  ASSUME NEW files, NEW S, IsFiniteSet(S), \A f \in S : Size(files, f) \in Nat
  PROVE  /\ \A s \in SUBSET S : TotalOf(files, S)[s] \in Nat
         /\ \A s \in SUBSET S : \A f \in s :
              TotalOf(files, S)[s] = Size(files, f) + TotalOf(files, S)[s \ {f}]
<1> DEFINE total == TotalOf(files, S)
           Right(s) == /\ total[s] \in Nat
                       /\ \A f \in s : total[s] = Size(files, f) + total[s \ {f}]
           Bad == {s \in SUBSET S : ~Right(s)}
<1>0. \A s \in SUBSET S :
        total[s] = IF s = {} THEN 0 ELSE Size(files, Some(s)) + total[s \ {Some(s)}]
  BY TotalStep
<1> HIDE DEF total
<1>1. Bad = {}
  <2> SUFFICES ASSUME Bad # {} PROVE FALSE
    OBVIOUS
  <2>1. PICK s \in Bad : \A u \in SUBSET s : u # s => u \notin Bad
    <3>1. Bad \subseteq SUBSET S
      OBVIOUS
    <3> HIDE DEF Bad
    <3>2. QED
      BY <3>1, SmallestSet
  <2>2. s \in SUBSET S /\ ~Right(s)
    OBVIOUS
  <2>3. \A u \in SUBSET s : u # s => Right(u)
    BY <2>1, <2>2
  <2>4. s # {}
    <3>1. CASE s = {}
      <4>1. total[s] = 0
        BY <1>0, <2>2, <3>1
      <4>2. QED
        BY <2>2, <3>1, <4>1
    <3>2. QED
      BY <3>1
  <2> DEFINE y == Some(s)
  <2>5. y \in s /\ Size(files, y) \in Nat
    BY <2>2, <2>4, SomeIn
  <2>6. total[s] = Size(files, y) + total[s \ {y}]
    BY <1>0, <2>2, <2>4
  <2> HIDE DEF y
  <2>7. Right(s \ {y})
    BY <2>3, <2>5
  <2>8. total[s] \in Nat
    BY <2>5, <2>6, <2>7
  <2>9. ASSUME NEW f \in s PROVE total[s] = Size(files, f) + total[s \ {f}]
    <3>1. CASE f = y
      BY <2>6, <3>1
    <3>2. CASE f # y
      <4>1. (s \ {y}) \ {f} = (s \ {f}) \ {y} /\ f \in s \ {y} /\ y \in s \ {f}
        BY <2>5, <3>2
      <4>2. Right(s \ {f}) /\ Right((s \ {f}) \ {y})
        BY <2>3, <4>1
      <4>3. total[s \ {y}] = Size(files, f) + total[(s \ {f}) \ {y}]
        BY <2>7, <4>1
      <4>4. total[s \ {f}] = Size(files, y) + total[(s \ {f}) \ {y}]
        BY <4>1, <4>2
      <4>5. Size(files, f) \in Nat /\ total[(s \ {f}) \ {y}] \in Nat
        BY <2>2, <4>2
      <4>6. QED
        BY <2>5, <2>6, <4>3, <4>4, <4>5
    <3>3. QED
      BY <3>1, <3>2
  <2>10. QED
    BY <2>2, <2>8, <2>9
<1>2. QED
  BY <1>1 DEF total

\* It is the total of the files' own sizes: nothing else of the folder counts.
LEMMA TotalAgrees ==
  ASSUME NEW files, NEW others2, NEW S, NEW S2, IsFiniteSet(S), IsFiniteSet(S2),
         S2 \subseteq S, \A f \in S2 : Size(files, f) = Size(others2, f)
  PROVE  \A s \in SUBSET S2 : TotalOf(files, S)[s] = TotalOf(others2, S2)[s]
<1> DEFINE total == TotalOf(files, S)
           total2 == TotalOf(others2, S2)
           Bad == {s \in SUBSET S2 : total[s] # total2[s]}
<1>0. \A s \in SUBSET S2 :
        /\ total[s] = IF s = {} THEN 0 ELSE Size(files, Some(s)) + total[s \ {Some(s)}]
        /\ total2[s] = IF s = {} THEN 0 ELSE Size(others2, Some(s)) + total2[s \ {Some(s)}]
  BY TotalStep
<1> HIDE DEF total, total2
<1>1. Bad = {}
  <2> SUFFICES ASSUME Bad # {} PROVE FALSE
    OBVIOUS
  <2>1. PICK s \in Bad : \A u \in SUBSET s : u # s => u \notin Bad
    <3>1. Bad \subseteq SUBSET S2
      OBVIOUS
    <3> HIDE DEF Bad
    <3>2. QED
      BY <3>1, SmallestSet
  <2>2. s \in SUBSET S2 /\ total[s] # total2[s]
    OBVIOUS
  <2>3. s # {}
    BY <1>0, <2>2
  <2>4. Some(s) \in s
    BY <2>3, SomeIn
  <2>5. total[s \ {Some(s)}] = total2[s \ {Some(s)}]
    BY <2>1, <2>2, <2>4
  <2>6. Size(files, Some(s)) = Size(others2, Some(s))
    BY <2>2, <2>4
  <2>7. QED
    BY <1>0, <2>2, <2>3, <2>5, <2>6
<1>2. QED
  BY <1>1 DEF total, total2

\* One file more: its size more.
LEMMA BytesAdd ==
  ASSUME IsFiniteSet(Files), Absent \notin Data, SizeOf \in [Data -> Nat],
         NEW files \in Content, NEW f \in Files, files[f] = Absent, NEW d \in Data
  PROVE  LET more == [files EXCEPT ![f] = d] IN
         /\ Bytes(files) \in Nat /\ Bytes(more) = Bytes(files) + SizeOf[d]
         /\ Cardinality(Present(files)) \in Nat
         /\ Cardinality(Present(more)) = Cardinality(Present(files)) + 1
<1> DEFINE more == [files EXCEPT ![f] = d]
           P == Present(files)
           Q == Present(more)
<1>1. /\ more \in Content /\ more[f] = d /\ \A g \in Files \ {f} : more[g] = files[g]
  BY DEF Content
<1> HIDE DEF more
<1>2. Q = P \cup {f} /\ f \notin P /\ Q \ {f} = P /\ P \subseteq Q /\ f \in Q
  BY <1>1 DEF Present
<1>3. IsFiniteSet(P) /\ IsFiniteSet(Q)
  <2>1. P \subseteq Files /\ Q \subseteq Files
    BY DEF Present
  <2>2. QED
    BY <2>1, FS_Subset
<1>4. \A g \in Q : Size(more, g) \in Nat
  BY <1>1 DEF Present, Size, Content
<1>5. \A g \in P : Size(more, g) = Size(files, g) /\ Size(files, g) \in Nat
  BY <1>1, <1>2, <1>4 DEF Size, Present
<1>6. Size(more, f) = SizeOf[d]
  BY <1>1 DEF Size
<1> HIDE DEF P, Q
<1>7. TotalOf(more, Q)[Q] = SizeOf[d] + TotalOf(more, Q)[P]
  BY <1>2, <1>3, <1>4, <1>6, TotalNat
<1>8. TotalOf(more, Q)[P] = TotalOf(files, P)[P]
  BY <1>2, <1>3, <1>5, TotalAgrees
<1>9. TotalOf(files, P)[P] \in Nat
  BY <1>3, <1>5, TotalNat
<1>10. Bytes(files) = TotalOf(files, P)[P] /\ Bytes(more) = TotalOf(more, Q)[Q]
  BY BytesIs DEF P, Q
<1>11. SizeOf[d] \in Nat
  OBVIOUS
<1>12. Cardinality(P) \in Nat /\ Cardinality(Q) = Cardinality(P) + 1
  BY <1>2, <1>3, FS_AddElement, FS_CardinalityType
<1>13. QED
  BY <1>7, <1>8, <1>9, <1>10, <1>11, <1>12 DEF P, Q, more

LEMMA BytesOfNothing == IsFiniteSet(Files) => Bytes(Nothing) = 0 /\ Cardinality(Present(Nothing)) = 0
<1>1. Present(Nothing) = {}
  BY DEF Present, Nothing
<1>2. Bytes(Nothing) = TotalOf(Nothing, {})[{}]
  BY <1>1, BytesIs
<1>3. TotalOf(Nothing, {})[{}] = 0
  BY TotalStep, FS_EmptySet
<1>4. QED
  BY <1>1, <1>2, <1>3, FS_EmptySet

-----------------------------------------------------------------------------
(* What other programs write.                                               *)

\* One write of a file to a content of another size is told, and so are one that
\* appears and one that is removed.
THEOREM OneWriteShows ==
  ASSUME FolderAssumption, MaxWrites <= 1, \A c, d \in Data : SizeOf[c] = SizeOf[d] => c = d
  PROVE  MeasureTells
<1> SUFFICES ASSUME NEW a \in Content, NEW b \in Content,
                    Cardinality(Differ(a, b)) <= MaxWrites, MeasuredAlike(a, b), a # b
             PROVE  FALSE
  BY DEF MeasureTells
<1>0. Cardinality(Present(a)) = Cardinality(Present(b)) /\ Bytes(a) = Bytes(b)
  BY DEF MeasuredAlike
<1>1. PICK f \in Files : a[f] # b[f]
  BY DEF Content
<1>2. Differ(a, b) = {f}
  <2>1. IsFiniteSet(Differ(a, b)) /\ f \in Differ(a, b)
    <3>1. Differ(a, b) \subseteq Files
      BY DEF Differ
    <3>2. QED
      BY <1>1, <3>1, FS_Subset DEF FolderAssumption, Differ
  <2>2. Cardinality(Differ(a, b)) \in Nat /\ Cardinality(Differ(a, b)) <= 1
    BY <2>1, FS_CardinalityType DEF FolderAssumption
  <2>3. Cardinality(Differ(a, b)) = 1
    BY <2>1, <2>2, FS_EmptySet
  <2>4. PICK x : Differ(a, b) = {x}
    BY <2>1, <2>3, FS_Singleton
  <2>5. QED
    BY <2>1, <2>4
<1> DEFINE c == [a EXCEPT ![f] = Absent]
<1>3. /\ c \in Content /\ c[f] = Absent
      /\ a = [c EXCEPT ![f] = a[f]] /\ b = [c EXCEPT ![f] = b[f]]
  <2>1. \A g \in Files \ {f} : a[g] = b[g]
    BY <1>2 DEF Differ
  <2>2. QED
    BY <2>1 DEF Content
<1> HIDE DEF c
<1>4. ASSUME NEW d \in Data
      PROVE  /\ Bytes([c EXCEPT ![f] = d]) = Bytes(c) + SizeOf[d] /\ Bytes(c) \in Nat
             /\ Cardinality(Present([c EXCEPT ![f] = d])) = Cardinality(Present(c)) + 1
             /\ Cardinality(Present(c)) \in Nat
  BY <1>3, BytesAdd DEF FolderAssumption
<1>5. a[f] \in Data \cup {Absent} /\ b[f] \in Data \cup {Absent}
  BY DEF Content
<1>6. ASSUME NEW u \in {a, b}, u[f] = Absent PROVE u = c
  BY <1>3, <1>6 DEF Content
<1>7. CASE a[f] \in Data /\ b[f] \in Data
  <2>1. SizeOf[a[f]] = SizeOf[b[f]]
    <3>1. SizeOf[a[f]] \in Nat /\ SizeOf[b[f]] \in Nat
      BY <1>7 DEF FolderAssumption
    <3>2. Bytes(a) = Bytes(c) + SizeOf[a[f]] /\ Bytes(b) = Bytes(c) + SizeOf[b[f]]
          /\ Bytes(c) \in Nat
      BY <1>3, <1>4, <1>7
    <3>3. Bytes(c) + SizeOf[a[f]] = Bytes(c) + SizeOf[b[f]]
      BY <1>0, <3>2
    <3>4. ASSUME NEW n \in Nat, NEW p \in Nat, NEW q \in Nat, n + p = n + q PROVE p = q
      BY <3>4
    <3>5. QED
      BY <3>1, <3>2, <3>3, <3>4
  <2>2. QED
    BY <1>1, <1>7, <2>1
<1>8. CASE a[f] = Absent /\ b[f] \in Data
  <2>1. a = c
    BY <1>6, <1>8
  <2>2. /\ Cardinality(Present(b)) = Cardinality(Present(a)) + 1
        /\ Cardinality(Present(a)) \in Nat
    BY <1>3, <1>4, <1>8, <2>1
  <2>3. QED
    BY <1>0, <2>2
<1>9. CASE b[f] = Absent /\ a[f] \in Data
  <2>1. b = c
    BY <1>6, <1>9
  <2>2. /\ Cardinality(Present(a)) = Cardinality(Present(b)) + 1
        /\ Cardinality(Present(b)) \in Nat
    BY <1>3, <1>4, <1>9, <2>1
  <2>3. QED
    BY <1>0, <2>2
<1>10. QED
  BY <1>1, <1>5, <1>7, <1>8, <1>9

-----------------------------------------------------------------------------
(* The inductive invariant.                                                 *)

\* A junction is only ever at the old path, what is no folder is empty, and what
\* another program has open is in the folder.
DiskOK ==
  /\ at \in [Paths -> Node] /\ truth \in Content /\ pc \in Steps
  /\ \A p \in Paths \ {"source"} : at[p].kind # "link"
  /\ \A p \in Paths : at[p].kind # "dir" => at[p].files = Nothing
  /\ held \in {"none", "source"}

\* What was last stored is at one of these paths, or was left by an earlier run.
Kept(places, f) ==
  truth[f] # Absent =>
    \/ \E p \in places : at[p].files[f] = truth[f]
    \/ \E stray \in strays : stray.files[f] = truth[f]

WithoutCopy == Paths \ {"dest"}
WithoutAside == Paths \ {"aside"}

CopyDispensable ==
  \/ pc \in {"probe", "probeback", "copy", "copying", "verify", "verifycopy", "swap",
             "mklink", "reparse", "unlink", "putback", "discard"}
  \/ pc = "sweep" /\ victim = "dest"

AsideDispensable ==
  \/ pc \in {"mklink", "reparse", "deleteaside"}
  \/ pc = "sweep" /\ victim = "aside"

\* Nothing is lost, and before a folder is deleted the files are all elsewhere.
SafeInv ==
  \A f \in Files :
    /\ Kept(Paths, f)
    /\ CopyDispensable => Kept(WithoutCopy, f)
    /\ AsideDispensable => Kept(WithoutAside, f)

\* Every file still in the original is in the copy, or what was stored in its place is.
Reached ==
  \A f \in Files : at["aside"].files[f] # Absent =>
    at["dest"].files[f] \in {at["aside"].files[f], truth[f]}

\* The copy so far: what was listed and is not copied yet is not in it, it is as large
\* as was counted, and it differs from the original in no more files than were written.
Missed == {f \in Files \ left : at["dest"].files[f] # at["source"].files[f]}
Copying ==
  /\ at["dest"].kind = "dir" /\ left \subseteq Files
  /\ \A f \in left : at["dest"].files[f] = Absent
  /\ SameMeasure(at["dest"].files)
  /\ Cardinality(Missed) <= writes
  /\ {"copying", "verify"} \subseteq QuietSteps => Missed = {}

\* What the steps of a move have so far brought about.
StageInv ==
  /\ pc \in {"planned", "probe", "probeback", "copy", "copying", "verify", "verifycopy", "swap"} =>
       at["aside"] = None
  /\ pc \in {"planned", "probe"} => at["probe"] = None
  /\ CopyDispensable => at["source"].kind # "link"
  /\ pc \in {"copying", "verify"} => Copying
  /\ pc = "verify" => left = {}
  /\ pc \in {"verifycopy", "swap"} =>
       at["dest"].kind = "dir" /\ at["dest"].files = at["source"].files
  /\ pc \in {"mklink", "reparse"} =>
       at["dest"].kind = "dir" /\ at["dest"].files = at["aside"].files
  /\ pc = "deleteaside" => at["source"] = Link /\ Reached
  /\ pc = "sweep" =>
       /\ victim \in {"source", "aside", "dest"}
       /\ at[victim].kind = "dir" \/ (victim = "source" /\ at["source"] = None)
  /\ pc = "sweep" /\ victim = "source" => action = "DELETE"
  /\ pc = "sweep" /\ victim = "aside" => at["source"] = Link /\ Reached

ReportInv ==
  /\ pc # "idle" => result # "done"
  /\ DoneMeansMoved

FolderInv == DiskOK /\ SafeInv /\ StageInv /\ ReportInv

LEMMA InvSuffices ==
  FolderInv => NothingLost /\ CopyIsExact /\ DoneMeansMoved /\ DeletedLast
<1> SUFFICES ASSUME FolderInv
             PROVE  NothingLost /\ CopyIsExact /\ DoneMeansMoved /\ DeletedLast
  OBVIOUS
<1>1. NothingLost
  BY DEF FolderInv, SafeInv, Kept, NothingLost
<1>2. CopyIsExact
  BY DEF FolderInv, StageInv, CopyIsExact
<1>3. DeletedLast
  BY DEF FolderInv, StageInv, Reached, DeletedLast
<1>4. QED
  BY <1>1, <1>2, <1>3 DEF FolderInv, ReportInv

-----------------------------------------------------------------------------
(* What the steps put at a path.                                            *)

\* No more is written than the bound allows.
WritesOK == writes \in 0..MaxWrites

LEMMA WritesStep == ASSUME FolderAssumption, WritesOK, [Next]_vars PROVE WritesOK'
<1>1. writes' = writes \/ (writes < MaxWrites /\ writes' = writes + 1)
  <2>1. CASE OtherWrites \/ OtherRemoves
    BY <2>1 DEF OtherWrites, OtherRemoves
  <2>2. CASE Cancel \/ Recheck \/ SweepFile \/ SweepRoot \/ (\E act \in {"MOVE", "DELETE"} : Plan(act))
    BY <2>2 DEF Plan, Cancel, Recheck, SweepFile, SweepRoot, counts
  <2>3. CASE Probe \/ ProbeBack \/ StartCopy \/ CopyFile \/ CopyDone
    BY <2>3 DEF Probe, ProbeBack, StartCopy, CopyFile, CopyDone
  <2>4. CASE VerifySource \/ VerifyCopy \/ Swap \/ MakeLinkDir \/ Reparse \/ Unlink \/ PutBack
    BY <2>4 DEF VerifySource, VerifyCopy, Measure, Swap, MakeLinkDir, Reparse, Unlink, PutBack
  <2>5. CASE DeleteAside \/ Discard \/ Crash \/ OtherHolds \/ OtherCloses \/ OtherCreates
    BY <2>5 DEF DeleteAside, Discard, Crash, OtherHolds, OtherCloses, OtherCreates, counts
  <2>6. CASE UNCHANGED vars
    BY <2>6 DEF vars
  <2>7. QED
    BY <2>1, <2>2, <2>3, <2>4, <2>5, <2>6 DEF Next
<1>2. QED
  BY <1>1 DEF WritesOK, FolderAssumption

LEMMA Nodes ==
  /\ Nothing \in Content /\ None \in Node /\ Link \in Node
  /\ \A files \in Content : Dir(files) \in Node
  /\ None.kind = "none" /\ None.files = Nothing
  /\ Link.kind = "link" /\ Link.files = Nothing
  /\ \A files \in Content : Dir(files).kind = "dir" /\ Dir(files).files = files
  /\ \A f \in Files : Nothing[f] = Absent
BY DEF Nothing, Content, None, Link, Dir, Node

LEMMA NodeFields ==
  ASSUME DiskOK, NEW p \in Paths
  PROVE  /\ at[p] \in Node /\ at[p].kind \in {"none", "dir", "link"}
         /\ at[p].files \in Content
         /\ at[p].kind = "none" => at[p] = None
         /\ at[p].kind = "link" => at[p] = Link
         /\ at[p].kind = "dir" => at[p] = Dir(at[p].files)
<1>1. at[p] \in Node
  BY DEF DiskOK
<1>2. QED
  BY <1>1 DEF DiskOK, Node, None, Link, Dir

\* One node is replaced.
LEMMA Replaced ==
  ASSUME DiskOK, NEW p \in Paths, NEW node \in Node, at' = [at EXCEPT ![p] = node],
         node.kind = "link" => p = "source", node.kind # "dir" => node.files = Nothing,
         truth' \in Content, held' \in {"none", "source"}, pc' \in Steps
  PROVE  /\ DiskOK'
         /\ at'[p] = node
         /\ \A q \in Paths \ {p} : at'[q] = at[q]
BY DEF DiskOK

\* A folder is renamed.
LEMMA Renamed ==
  ASSUME DiskOK, NEW p \in Paths, NEW q \in Paths, p # q, Move(p, q),
         at[p].kind # "link", truth' = truth, pc' \in Steps, held # p
  PROVE  /\ DiskOK'
         /\ at'[q] = at[p] /\ at'[p] = None
         /\ \A r \in Paths \ {p, q} : at'[r] = at[r]
<1>1. /\ at' = [at EXCEPT ![q] = at[p], ![p] = None] /\ at \in [Paths -> Node]
      /\ held' = held
  BY DEF Move, DiskOK
<1>2. /\ at' \in [Paths -> Node]
      /\ at'[q] = at[p] /\ at'[p] = None
      /\ \A r \in Paths \ {p, q} : at'[r] = at[r]
  BY <1>1, Nodes
<1>3. QED
  BY <1>1, <1>2, Nodes DEF DiskOK

LEMMA InvInit == Init => FolderInv
<1> SUFFICES ASSUME Init PROVE FolderInv
  OBVIOUS
<1>1. PICK files \in Content :
        truth = files /\ at = [p \in Paths |-> IF p = "source" THEN Dir(files) ELSE None]
  BY DEF Init
<1>2. pc = "idle" /\ held = "none" /\ result = "none"
  BY DEF Init
<1>3. DiskOK
  BY <1>1, <1>2, Nodes DEF DiskOK, Paths, Steps
<1>4. SafeInv
  BY <1>1, <1>2, Nodes DEF SafeInv, Kept, CopyDispensable, AsideDispensable, Paths
<1>5. StageInv /\ ReportInv
  BY <1>2 DEF StageInv, CopyDispensable, ReportInv, DoneMeansMoved
<1>6. QED
  BY <1>3, <1>4, <1>5 DEF FolderInv

-----------------------------------------------------------------------------
(* Steps that leave the disk as it is.                                      *)

\* A refusal, a crash, a plan that is cancelled; or the start of a discard.
LEMMA Stopped ==
  ASSUME FolderInv, UNCHANGED <<at, strays, truth>>, held' \in {"none", "source"},
         pc' = "idle" \/ (pc' = "discard" /\ CopyDispensable), result' # "done"
  PROVE  FolderInv'
<1>1. DiskOK'
  BY DEF FolderInv, DiskOK, Steps
<1>2. SafeInv'
  BY DEF FolderInv, SafeInv, Kept, CopyDispensable, AsideDispensable
<1>3. StageInv' /\ ReportInv'
  BY DEF FolderInv, StageInv, CopyDispensable, ReportInv, DoneMeansMoved
<1>4. QED
  BY <1>1, <1>2, <1>3 DEF FolderInv

\* Nothing is copied, and what is copied stays as it is on both sides.
LEMMA CopyingStays ==
  ASSUME Copying, at'["dest"] = at["dest"], at'["source"].files = at["source"].files,
         UNCHANGED <<left, copied>>, WritesOK, writes' \in {writes, writes + 1},
         IsFiniteSet(Files)
  PROVE  Copying'
<1>1. Missed' = Missed /\ IsFiniteSet(Missed)
  <2>1. Missed \subseteq Files
    BY DEF Missed
  <2>2. QED
    BY <2>1, FS_Subset DEF Missed
<1>2. Cardinality(Missed) \in Nat /\ writes \in Nat
  BY <1>1, FS_CardinalityType DEF WritesOK
<1>3. Cardinality(Missed') <= writes'
  BY <1>1, <1>2 DEF Copying
<1>4. SameMeasure(at["dest"].files)'
  BY DEF Copying, SameMeasure
<1>5. QED
  BY <1>1, <1>3, <1>4 DEF Copying

\* The next step of the run.
LEMMA Goes ==
  ASSUME FolderInv, UNCHANGED <<at, strays, truth, held>>, pc' \in Steps \ {"idle"},
         CopyDispensable' => CopyDispensable \/ (\A f \in Files : Kept(WithoutCopy, f)),
         AsideDispensable' => AsideDispensable, StageInv', result' # "done"
  PROVE  FolderInv'
<1>1. DiskOK'
  BY DEF FolderInv, DiskOK
<1>2. SafeInv'
  <2>1. \A f \in Files, places \in {Paths, WithoutCopy, WithoutAside} : Kept(places, f)' <=> Kept(places, f)
    BY DEF Kept, WithoutCopy, WithoutAside
  <2>2. QED
    BY <2>1 DEF FolderInv, SafeInv
<1>3. ReportInv'
  BY DEF ReportInv, DoneMeansMoved
<1>4. QED
  BY <1>1, <1>2, <1>3 DEF FolderInv

LEMMA CrashKeeps == ASSUME FolderInv, Crash PROVE FolderInv'
BY Stopped DEF Crash, disk, others, FolderInv, DiskOK

LEMMA CancelKeeps == ASSUME FolderInv, Cancel PROVE FolderInv'
BY Stopped DEF Cancel, disk, others, told, FolderInv, DiskOK, ReportInv

\* An empty destination holds no file's last copy.
LEMMA NoCopyYet ==
  ASSUME FolderInv, at["dest"].kind = "none", NEW f \in Files
  PROVE  Kept(WithoutCopy, f)
<1>1. at["dest"].files[f] = Absent
  BY NodeFields, Nodes DEF FolderInv, Paths
<1>2. QED
  BY <1>1 DEF FolderInv, SafeInv, Kept, WithoutCopy

LEMMA RecheckKeeps == ASSUME FolderInv, Recheck PROVE FolderInv'
<1>1. /\ pc = "planned" /\ UNCHANGED <<at, strays, truth, held>> /\ held \in {"none", "source"}
      /\ result # "done"
  BY DEF Recheck, disk, others, FolderInv, DiskOK, ReportInv
<1>2. CASE Refuse({})
  BY <1>1, <1>2, Stopped DEF Refuse
<1>3. CASE /\ pc' = "probe" /\ PlainDir("source") /\ at["dest"].kind = "none"
           /\ UNCHANGED <<job, told>>
  <2>1. StageInv'
    BY <1>1, <1>3 DEF FolderInv, StageInv, PlainDir, job
  <2>2. QED
    BY <1>1, <1>3, <2>1, NoCopyYet, Goes
       DEF told, CopyDispensable, AsideDispensable, Steps
<1>4. CASE /\ action = "DELETE" /\ PlainDir("source") /\ OpenForDelete("source")
           /\ UNCHANGED <<action, copied, told>>
  <2>1. pc' = "sweep" /\ victim' = "source" /\ action' = "DELETE" /\ at'["source"].kind = "dir"
    BY <1>1, <1>4 DEF OpenForDelete, PlainDir
  <2>2. StageInv'
    BY <2>1 DEF StageInv
  <2>3. QED
    BY <1>1, <1>4, <2>1, <2>2, Goes DEF told, CopyDispensable, AsideDispensable, Steps
<1>5. QED
  BY <1>1, <1>2, <1>3, <1>4 DEF Recheck

LEMMA CopyDoneKeeps ==
  ASSUME FolderAssumption, WritesOK, FolderInv, CopyDone PROVE FolderInv'
<1>1. /\ pc = "copying" /\ left = {} /\ UNCHANGED <<at, strays, truth, held, left, copied, writes>>
      /\ held \in {"none", "source"} /\ result # "done" /\ Copying
  BY DEF CopyDone, disk, others, job, FolderInv, DiskOK, ReportInv, StageInv
<1>2. CASE DiscardAndRefuse
  BY <1>1, <1>2, Stopped DEF DiscardAndRefuse, CopyDispensable
<1>3. CASE pc' = "verify" /\ UNCHANGED told
  <2>1. Copying'
    BY <1>1, CopyingStays DEF FolderAssumption
  <2>2. StageInv'
    BY <1>1, <1>3, <2>1 DEF FolderInv, StageInv, CopyDispensable
  <2>3. QED
    BY <1>1, <1>3, <2>2, Goes DEF told, CopyDispensable, AsideDispensable, Steps
<1>4. QED
  BY <1>2, <1>3 DEF CopyDone

\* Measuring changes nothing; a source that measures what was copied is the copy.
LEMMA MeasuredIsCopied ==
  ASSUME FolderAssumption, WritesShow, WritesOK, DiskOK, Copying, left = {},
         SameMeasure(at["source"].files)
  PROVE  at["dest"].files = at["source"].files
<1>1. at["dest"].files \in Content /\ at["source"].files \in Content
  BY NodeFields DEF Paths
<1>2. Missed = Differ(at["dest"].files, at["source"].files)
  BY DEF Missed, Differ
<1>3. CASE {"copying", "verify"} \subseteq QuietSteps
  BY <1>1, <1>2, <1>3 DEF Copying, Differ, Content
<1>4. CASE MeasureTells
  <2>1. MeasuredAlike(at["dest"].files, at["source"].files)
    BY DEF Copying, SameMeasure, MeasuredAlike
  <2>2. Cardinality(Missed) <= MaxWrites
    <3>1. Missed \subseteq Files
      BY DEF Missed
    <3>2. Cardinality(Missed) \in Nat
      BY <3>1, FS_Subset, FS_CardinalityType DEF FolderAssumption
    <3>3. QED
      BY <3>2 DEF Copying, WritesOK, FolderAssumption
  <2>3. QED
    BY <1>1, <1>2, <1>4, <2>1, <2>2 DEF MeasureTells
<1>5. QED
  BY <1>3, <1>4 DEF WritesShow

LEMMA MeasureKeeps ==
  ASSUME FolderAssumption, WritesShow, WritesOK, FolderInv, VerifySource \/ VerifyCopy
  PROVE  FolderInv'
<1>1. /\ pc \in {"verify", "verifycopy"} /\ UNCHANGED <<at, strays, truth, held>>
      /\ held \in {"none", "source"} /\ result # "done"
  BY DEF VerifySource, VerifyCopy, Measure, disk, others, FolderInv, DiskOK, ReportInv
<1>2. CASE DiscardAndRefuse
  BY <1>1, <1>2, Stopped DEF DiscardAndRefuse, CopyDispensable
<1>3. CASE /\ pc' \in {"verifycopy", "swap"} /\ UNCHANGED told
           /\ at["dest"].kind = "dir" /\ at["dest"].files = at["source"].files
  <2>1. StageInv'
    BY <1>1, <1>3 DEF FolderInv, StageInv, CopyDispensable
  <2>2. QED
    BY <1>1, <1>3, <2>1, Goes DEF told, CopyDispensable, AsideDispensable, Steps
<1>4. CASE pc = "verify" /\ SameMeasure(at["source"].files)
  <2>1. at["dest"].kind = "dir" /\ at["dest"].files = at["source"].files
    BY <1>4, MeasuredIsCopied DEF FolderInv, StageInv, Copying
  <2>2. QED
    BY <1>2, <1>3, <1>4, <2>1 DEF VerifySource, VerifyCopy, Measure
<1>5. CASE pc = "verifycopy"
  <2>1. at["dest"].kind = "dir" /\ at["dest"].files = at["source"].files
    BY <1>5 DEF FolderInv, StageInv
  <2>2. QED
    BY <1>2, <1>3, <1>5, <2>1 DEF VerifySource, VerifyCopy, Measure
<1>6. QED
  BY <1>1, <1>2, <1>4, <1>5 DEF VerifySource, VerifyCopy, Measure

\* The deletion of the original, or of the copy, begins.
LEMMA DeleteAsideKeeps == ASSUME FolderInv, DeleteAside PROVE FolderInv'
<1>1. /\ pc = "deleteaside" /\ UNCHANGED <<at, strays, truth, held>>
      /\ held \in {"none", "source"} /\ result # "done"
  BY DEF DeleteAside, disk, others, FolderInv, DiskOK, ReportInv
<1>2. CASE pc' = "idle" /\ result' = "partial"
  BY <1>1, <1>2, Stopped
<1>3. CASE PlainDir("aside") /\ OpenForDelete("aside") /\ UNCHANGED told
  <2>1. /\ pc' = "sweep" /\ victim' = "aside" /\ at'["aside"].kind = "dir"
        /\ at'["source"] = Link /\ Reached'
    BY <1>1, <1>3 DEF OpenForDelete, PlainDir, FolderInv, StageInv, Reached
  <2>2. StageInv'
    BY <2>1 DEF StageInv, CopyDispensable
  <2>3. QED
    BY <1>1, <1>3, <2>1, <2>2, Goes DEF told, CopyDispensable, AsideDispensable, Steps
<1>4. QED
  BY <1>2, <1>3 DEF DeleteAside

LEMMA DiscardKeeps == ASSUME FolderInv, Discard PROVE FolderInv'
<1>1. /\ pc = "discard" /\ UNCHANGED <<at, strays, truth, held, told>>
      /\ held \in {"none", "source"} /\ result # "done" /\ result' = result
  BY DEF Discard, disk, others, told, FolderInv, DiskOK, ReportInv
<1>2. CASE pc' = "idle"
  BY <1>1, <1>2, Stopped
<1>3. CASE PlainDir("dest") /\ OpenForDelete("dest")
  <2>1. pc' = "sweep" /\ victim' = "dest" /\ at'["dest"].kind = "dir"
    BY <1>1, <1>3 DEF OpenForDelete, PlainDir
  <2>2. StageInv'
    BY <1>1, <2>1 DEF FolderInv, StageInv, CopyDispensable
  <2>3. QED
    BY <1>1, <2>1, <2>2, Goes DEF CopyDispensable, AsideDispensable, Steps
<1>4. QED
  BY <1>2, <1>3 DEF Discard

\* Programs open and close files between runs.
LEMMA HoldKeeps ==
  ASSUME FolderAssumption, WritesOK, FolderInv, OtherHolds \/ OtherCloses PROVE FolderInv'
<1>1. /\ UNCHANGED <<at, strays, truth, pc, left, victim, action, result, copied, writes>>
      /\ held' \in {"none", "source"}
  BY DEF OtherHolds, OtherCloses, disk, job, told, counts
<1>2. DiskOK'
  BY <1>1 DEF FolderInv, DiskOK
<1>3. SafeInv'
  BY <1>1 DEF FolderInv, SafeInv, Kept, CopyDispensable, AsideDispensable
<1>4. Copying => Copying'
  BY <1>1, CopyingStays DEF FolderAssumption
<1>5. StageInv' /\ ReportInv'
  BY <1>1, <1>4 DEF FolderInv, StageInv, CopyDispensable, Reached, ReportInv, DoneMeansMoved
<1>6. QED
  BY <1>2, <1>3, <1>5 DEF FolderInv

-----------------------------------------------------------------------------
(* Steps that change the disk.                                              *)

\* Files that are kept stay kept when every place's files are as they were, or moved to
\* another place.
LEMMA KeptMoves ==
  ASSUME NEW places, NEW places2, NEW f, truth' = truth, strays \subseteq strays',
         \A p \in places : \/ \E q \in places2 : at'[q].files = at[p].files
                           \/ at[p].files[f] = Absent
                           \/ \E stray \in strays' : stray.files = at[p].files,
         Kept(places, f)
  PROVE  Kept(places2, f)'
BY DEF Kept

\* What an earlier run left under a temporary name is put out of the way.
LEMMA PlanKeeps == ASSUME FolderInv, NEW act, Plan(act) PROVE FolderInv'
<1>1. /\ pc' = "planned" /\ result' = "none" /\ UNCHANGED <<truth, held>>
      /\ at' = [at EXCEPT !["probe"] = None, !["aside"] = None]
      /\ strays' = strays \cup {at[p] : p \in {q \in {"probe", "aside"} : at[q] # None}}
  BY DEF Plan, others
<1>2. /\ at' \in [Paths -> Node] /\ at'["probe"] = None /\ at'["aside"] = None
      /\ \A p \in {"source", "dest"} : at'[p] = at[p]
  BY <1>1, Nodes DEF FolderInv, DiskOK, Paths
<1>3. DiskOK'
  BY <1>1, <1>2, Nodes DEF FolderInv, DiskOK, Steps, Paths
<1>4. SafeInv'
  <2> SUFFICES ASSUME NEW f \in Files PROVE Kept(Paths, f)'
    BY <1>1 DEF SafeInv, CopyDispensable, AsideDispensable
  <2>1. \A p \in {"probe", "aside"} : at[p] \in strays' \/ at[p].files[f] = Absent
    BY <1>1, Nodes
  <2>2. \A p \in Paths : \/ \E q \in Paths : at'[q].files = at[p].files
                         \/ at[p].files[f] = Absent
                         \/ \E stray \in strays' : stray.files = at[p].files
    BY <1>2, <2>1 DEF Paths
  <2>3. QED
    BY <1>1, <2>2, KeptMoves DEF FolderInv, SafeInv
<1>5. StageInv' /\ ReportInv'
  BY <1>1, <1>2 DEF StageInv, CopyDispensable, ReportInv, DoneMeansMoved
<1>6. QED
  BY <1>3, <1>4, <1>5 DEF FolderInv


LEMMA ProbeKeeps == ASSUME FolderInv, Probe PROVE FolderInv'
<1>1. /\ pc = "probe" /\ UNCHANGED <<strays, truth>> /\ held \in {"none", "source"}
      /\ result # "done" /\ at["probe"] = None /\ at["aside"] = None
      /\ at["source"].kind # "link"
  BY DEF Probe, settled, FolderInv, DiskOK, ReportInv, StageInv, CopyDispensable
<1>2. CASE Refuse({}) /\ Unmoved
  BY <1>1, <1>2, Stopped DEF Refuse, Unmoved
<1>3. CASE Renamable /\ Move("source", "probe") /\ pc' = "probeback" /\ UNCHANGED told
  <2>1. /\ DiskOK'
        /\ at'["probe"] = at["source"] /\ at'["source"] = None
        /\ \A p \in Paths \ {"source", "probe"} : at'[p] = at[p]
    BY <1>1, <1>3, Renamed DEF FolderInv, Renamable, Paths, Steps
  <2>2. SafeInv'
    <3> SUFFICES ASSUME NEW f \in Files PROVE Kept(WithoutCopy, f)'
      BY <1>3 DEF SafeInv, Kept, WithoutCopy, CopyDispensable, AsideDispensable
    <3>1. \A p \in WithoutCopy : \/ \E q \in WithoutCopy : at'[q].files = at[p].files
                                 \/ at[p].files[f] = Absent
      BY <1>1, <2>1, Nodes DEF WithoutCopy, Paths
    <3>2. QED
      BY <1>1, <3>1, KeptMoves DEF FolderInv, SafeInv, CopyDispensable
  <2>3. StageInv' /\ ReportInv'
    BY <1>1, <1>3, <2>1, Nodes DEF StageInv, ReportInv, DoneMeansMoved, told, Paths
  <2>4. QED
    BY <2>1, <2>2, <2>3 DEF FolderInv
<1>4. QED
  BY <1>2, <1>3 DEF Probe

LEMMA ProbeBackKeeps == ASSUME FolderInv, ProbeBack PROVE FolderInv'
<1>1. /\ pc = "probeback" /\ UNCHANGED <<strays, truth>> /\ held \in {"none", "source"}
      /\ result # "done" /\ at["aside"] = None /\ at["probe"].kind # "link"
  BY DEF ProbeBack, settled, FolderInv, DiskOK, ReportInv, StageInv, Paths
<1>2. CASE Refuse(ProbeLeftIn) /\ Unmoved
  BY <1>1, <1>2, Stopped DEF Refuse, Unmoved
<1>3. CASE at["source"] = None /\ Move("probe", "source") /\ pc' = "copy" /\ UNCHANGED told
  <2>1. /\ DiskOK'
        /\ at'["source"] = at["probe"] /\ at'["probe"] = None
        /\ \A p \in Paths \ {"source", "probe"} : at'[p] = at[p]
    BY <1>1, <1>3, Renamed DEF FolderInv, Paths, Steps
  <2>2. SafeInv'
    <3> SUFFICES ASSUME NEW f \in Files PROVE Kept(WithoutCopy, f)'
      BY <1>3 DEF SafeInv, Kept, WithoutCopy, CopyDispensable, AsideDispensable
    <3>1. \A p \in WithoutCopy : \/ \E q \in WithoutCopy : at'[q].files = at[p].files
                                 \/ at[p].files[f] = Absent
      BY <1>1, <1>3, <2>1, Nodes DEF WithoutCopy, Paths
    <3>2. QED
      BY <1>1, <3>1, KeptMoves DEF FolderInv, SafeInv, CopyDispensable
  <2>3. StageInv' /\ ReportInv'
    BY <1>1, <1>3, <2>1 DEF StageInv, ReportInv, DoneMeansMoved, told, Paths
  <2>4. QED
    BY <2>1, <2>2, <2>3 DEF FolderInv
<1>4. QED
  BY <1>2, <1>3 DEF ProbeBack

\* The empty destination appears.
LEMMA StartCopyKeeps ==
  ASSUME FolderAssumption, WritesOK, FolderInv, StartCopy PROVE FolderInv'
<1>1. /\ pc = "copy" /\ UNCHANGED <<strays, truth, held>> /\ held \in {"none", "source"}
      /\ result # "done" /\ at["aside"] = None /\ at["source"].kind # "link"
  BY DEF StartCopy, others, FolderInv, DiskOK, ReportInv, StageInv, CopyDispensable
<1>2. CASE DiscardAndRefuse /\ UNCHANGED at
  BY <1>1, <1>2, Stopped DEF DiscardAndRefuse, CopyDispensable
<1>3. CASE /\ PlainDir("source") /\ at["dest"] = None
           /\ at' = [at EXCEPT !["dest"] = Dir(Nothing)]
           /\ left' = Present(at["source"].files) /\ pc' = "copying" /\ UNCHANGED told
           /\ copied' = [files |-> 0, bytes |-> 0] /\ writes' = writes
  <2>1. /\ DiskOK'
        /\ at'["dest"] = Dir(Nothing)
        /\ \A p \in Paths \ {"dest"} : at'[p] = at[p]
    BY <1>1, <1>3, Nodes, Replaced DEF FolderInv, DiskOK, Paths, Steps
  <2>2. SafeInv'
    <3> SUFFICES ASSUME NEW f \in Files PROVE Kept(WithoutCopy, f)'
      BY <1>3 DEF SafeInv, Kept, WithoutCopy, CopyDispensable, AsideDispensable
    <3>1. \A p \in WithoutCopy : at'[p].files = at[p].files
      BY <2>1 DEF WithoutCopy
    <3>2. QED
      BY <1>1, <3>1, KeptMoves DEF FolderInv, SafeInv, CopyDispensable
  <2>3. Copying'
    <3>1. /\ at'["dest"].kind = "dir" /\ at'["dest"].files = Nothing
          /\ at'["source"] = at["source"]
      BY <2>1, Nodes DEF Paths
    <3>2. left' \subseteq Files /\ Missed' = {}
      BY <1>3, <3>1, Nodes DEF Present, Missed
    <3>3. SameMeasure(at["dest"].files)'
      BY <1>3, <3>1, BytesOfNothing DEF SameMeasure, FolderAssumption
    <3>4. Cardinality(Missed') <= writes'
      BY <1>3, <3>2, FS_EmptySet DEF WritesOK, FolderAssumption
    <3>5. QED
      BY <3>1, <3>2, <3>3, <3>4, Nodes DEF Copying
  <2>4. StageInv' /\ ReportInv'
    BY <1>1, <1>3, <2>1, <2>3, Nodes DEF StageInv, ReportInv, DoneMeansMoved, told, Paths
  <2>5. QED
    BY <2>1, <2>2, <2>4 DEF FolderInv
<1>4. QED
  BY <1>2, <1>3 DEF StartCopy

\* One file more is in the copy.
LEMMA CopyFileKeeps ==
  ASSUME FolderAssumption, WritesOK, FolderInv, CopyFile PROVE FolderInv'
<1>1. /\ pc = "copying" /\ UNCHANGED <<strays, truth, held>> /\ held \in {"none", "source"}
      /\ result # "done" /\ at["aside"] = None /\ at["source"].kind # "link"
      /\ Copying
  BY DEF CopyFile, others, FolderInv, DiskOK, ReportInv, StageInv, CopyDispensable
<1>2. CASE DiscardAndRefuse /\ UNCHANGED at
  BY <1>1, <1>2, Stopped DEF DiscardAndRefuse, CopyDispensable
<1>3. ASSUME NEW f \in left,
             at' = [at EXCEPT !["dest"].files[f] = at["source"].files[f]],
             left' = left \ {f}, UNCHANGED <<pc, told, writes>>,
             at["source"].files[f] # Absent,
             copied' = [files |-> copied.files + 1,
                        bytes |-> copied.bytes + SizeOf[at["source"].files[f]]]
      PROVE  FolderInv'
  <2> DEFINE d == at["dest"]
             files == [d.files EXCEPT ![f] = at["source"].files[f]]
  <2>1. f \in Files /\ d \in Node /\ d = Dir(d.files) /\ d.files \in Content
    BY <1>1, <1>3, NodeFields DEF FolderInv, Copying, Paths
  <2>2. at["source"].files \in Content
    BY NodeFields DEF FolderInv, Paths
  <2>3. files \in Content
    BY <2>1, <2>2 DEF Content
  <2>4. at' = [at EXCEPT !["dest"] = Dir(files)]
    <3>1. at' = [at EXCEPT !["dest"] = [d EXCEPT !.files = files]]
      BY <1>3
    <3>2. [d EXCEPT !.files = files] = Dir(files)
      <4> HIDE DEF files
      <4> QED
        BY <2>1 DEF Dir, Node
    <3>3. QED
      BY <3>1, <3>2
  <2>5. /\ DiskOK'
        /\ at'["dest"] = Dir(files)
        /\ \A p \in Paths \ {"dest"} : at'[p] = at[p]
    BY <1>1, <1>3, <2>3, <2>4, Nodes, Replaced DEF FolderInv, DiskOK, Paths, Steps
  <2>6. SafeInv'
    <3> SUFFICES ASSUME NEW g \in Files PROVE Kept(WithoutCopy, g)'
      BY <1>1, <1>3 DEF SafeInv, Kept, WithoutCopy, CopyDispensable, AsideDispensable
    <3>1. \A p \in WithoutCopy : at'[p].files = at[p].files
      BY <2>5 DEF WithoutCopy
    <3>2. QED
      BY <1>1, <3>1, KeptMoves DEF FolderInv, SafeInv, CopyDispensable
  <2>7. /\ at'["dest"].kind = "dir" /\ at'["source"] = at["source"] /\ at'["aside"] = at["aside"]
        /\ at'["dest"].files = files
    BY <2>3, <2>5, Nodes DEF Paths
  <2>8. Copying'
    <3>1. /\ files[f] = at["source"].files[f] /\ \A g \in Files \ {f} : files[g] = d.files[g]
          /\ d.files[f] = Absent /\ at["source"].files[f] \in Data
      BY <1>1, <1>3, <2>1, <2>2 DEF Content, Copying
    <3>2. SameMeasure(at["dest"].files)'
      <4>1. /\ Bytes(files) = Bytes(d.files) + SizeOf[at["source"].files[f]]
            /\ Cardinality(Present(files)) = Cardinality(Present(d.files)) + 1
        BY <2>1, <3>1, BytesAdd DEF FolderAssumption
      <4>2. copied = [files |-> Cardinality(Present(d.files)), bytes |-> Bytes(d.files)]
        BY <1>1 DEF Copying, SameMeasure
      <4> HIDE DEF d, files
      <4>3. copied' = [files |-> Cardinality(Present(files)), bytes |-> Bytes(files)]
        BY <1>3, <4>1, <4>2
      <4>4. QED
        BY <2>7, <4>3 DEF SameMeasure
    <3> HIDE DEF files
    <3>3. Missed' = Missed
      BY <1>3, <2>7, <3>1 DEF Missed
    <3>4. QED
      BY <1>1, <1>3, <2>7, <3>1, <3>2, <3>3 DEF Copying
  <2>9. StageInv' /\ ReportInv'
    BY <1>1, <1>3, <2>7, <2>8 DEF StageInv, ReportInv, DoneMeansMoved, told
  <2>10. QED
    BY <2>5, <2>6, <2>9 DEF FolderInv
<1>4. QED
  BY <1>2, <1>3 DEF CopyFile

\* The original goes aside: from here on the copy holds whatever it holds.
LEMMA SwapKeeps == ASSUME FolderInv, Swap PROVE FolderInv'
<1>1. /\ pc = "swap" /\ UNCHANGED <<strays, truth>> /\ held \in {"none", "source"}
      /\ result # "done" /\ at["aside"] = None /\ at["source"].kind # "link"
      /\ at["dest"].kind = "dir" /\ at["dest"].files = at["source"].files
  BY DEF Swap, settled, FolderInv, DiskOK, ReportInv, StageInv, CopyDispensable
<1>2. CASE DiscardAndRefuse /\ Unmoved
  BY <1>1, <1>2, Stopped DEF DiscardAndRefuse, Unmoved, CopyDispensable
<1>3. CASE Renamable /\ Move("source", "aside") /\ pc' = AfterSwap /\ UNCHANGED told
  <2>1. /\ DiskOK'
        /\ at'["aside"] = at["source"] /\ at'["source"] = None
        /\ \A p \in Paths \ {"source", "aside"} : at'[p] = at[p]
    BY <1>1, <1>3, Renamed DEF FolderInv, Renamable, AfterSwap, Paths, Steps
  <2>2. SafeInv'
    <3> SUFFICES ASSUME NEW f \in Files PROVE Kept(WithoutCopy, f)' /\ Kept(WithoutAside, f)'
      BY DEF SafeInv, Kept, WithoutCopy
    <3>1. \A p \in WithoutCopy : \/ \E q \in WithoutCopy : at'[q].files = at[p].files
                                 \/ at[p].files[f] = Absent
      BY <1>1, <2>1, Nodes DEF WithoutCopy, Paths
    <3>2. \A p \in WithoutCopy : \/ \E q \in WithoutAside : at'[q].files = at[p].files
                                 \/ at[p].files[f] = Absent
      BY <1>1, <2>1, Nodes DEF WithoutCopy, WithoutAside, Paths
    <3>3. Kept(WithoutCopy, f)
      BY <1>1 DEF FolderInv, SafeInv, CopyDispensable
    <3>4. QED
      BY <1>1, <3>1, <3>2, <3>3, KeptMoves
  <2>3. StageInv' /\ ReportInv'
    BY <1>1, <1>3, <2>1, Nodes DEF StageInv, ReportInv, DoneMeansMoved, AfterSwap, told, Paths
  <2>4. QED
    BY <2>1, <2>2, <2>3 DEF FolderInv
<1>4. QED
  BY <1>2, <1>3 DEF Swap

\* The link's folder appears at the old path, then becomes the junction.
LEMMA MakeLinkDirKeeps == ASSUME FolderInv, MakeLinkDir PROVE FolderInv'
<1>1. /\ pc = "mklink" /\ UNCHANGED <<strays, truth, held, told>> /\ result' = result
      /\ held \in {"none", "source"} /\ result # "done"
      /\ at["dest"].kind = "dir" /\ at["dest"].files = at["aside"].files
  BY DEF MakeLinkDir, others, told, FolderInv, DiskOK, ReportInv, StageInv
<1>2. CASE pc' = "putback" /\ UNCHANGED at
  <2>1. StageInv'
    BY <1>1, <1>2 DEF FolderInv, StageInv, CopyDispensable
  <2>2. QED
    BY <1>1, <1>2, <2>1, Goes DEF CopyDispensable, AsideDispensable, Steps
<1>3. CASE /\ at["source"] = None /\ pc' = "reparse"
           /\ at' = [at EXCEPT !["source"] = Dir(Nothing)]
  <2>1. /\ DiskOK'
        /\ at'["source"] = Dir(Nothing)
        /\ \A p \in Paths \ {"source"} : at'[p] = at[p]
    BY <1>1, <1>3, Nodes, Replaced DEF FolderInv, DiskOK, Paths, Steps
  <2>2. \A p \in Paths : at'[p].files = at[p].files
    BY <1>3, <2>1, Nodes DEF Paths
  <2>3. SafeInv'
    <3> SUFFICES ASSUME NEW f \in Files, NEW places \in {Paths, WithoutCopy, WithoutAside}
                 PROVE  Kept(places, f)'
      BY DEF SafeInv, Kept, WithoutCopy, WithoutAside
    <3>1. Kept(places, f)
      BY <1>1 DEF FolderInv, SafeInv, CopyDispensable, AsideDispensable
    <3>2. \A p \in places : at'[p].files = at[p].files
      BY <2>2 DEF WithoutCopy, WithoutAside
    <3>3. QED
      BY <1>1, <3>1, <3>2, KeptMoves
  <2>4. StageInv' /\ ReportInv'
    BY <1>1, <1>3, <2>1, Nodes DEF StageInv, ReportInv, DoneMeansMoved, Paths
  <2>5. QED
    BY <2>1, <2>3, <2>4 DEF FolderInv
<1>4. QED
  BY <1>2, <1>3 DEF MakeLinkDir

LEMMA ReparseKeeps == ASSUME FolderInv, Reparse PROVE FolderInv'
<1>1. /\ pc = "reparse" /\ UNCHANGED <<strays, truth, held, told>> /\ result' = result
      /\ held \in {"none", "source"} /\ result # "done"
      /\ at["dest"].kind = "dir" /\ at["dest"].files = at["aside"].files
  BY DEF Reparse, others, told, FolderInv, DiskOK, ReportInv, StageInv
<1>2. CASE pc' = "unlink" /\ UNCHANGED at
  <2>1. StageInv'
    BY <1>1, <1>2 DEF FolderInv, StageInv, CopyDispensable
  <2>2. QED
    BY <1>1, <1>2, <2>1, Goes DEF CopyDispensable, AsideDispensable, Steps
<1>3. CASE /\ at["source"] = Dir(Nothing) /\ pc' = "deleteaside"
           /\ at' = [at EXCEPT !["source"] = Link]
  <2>1. /\ DiskOK'
        /\ at'["source"] = Link
        /\ \A p \in Paths \ {"source"} : at'[p] = at[p]
    BY <1>1, <1>3, Nodes, Replaced DEF FolderInv, DiskOK, Paths, Steps
  <2>2. \A p \in Paths : at'[p].files = at[p].files
    BY <1>3, <2>1, Nodes DEF Paths
  <2>3. SafeInv'
    <3> SUFFICES ASSUME NEW f \in Files PROVE Kept(WithoutAside, f)'
      BY <1>3 DEF SafeInv, Kept, WithoutAside, CopyDispensable
    <3>1. Kept(WithoutAside, f)
      BY <1>1 DEF FolderInv, SafeInv, AsideDispensable
    <3>2. QED
      BY <1>1, <2>2, <3>1, KeptMoves DEF WithoutAside
  <2>4. StageInv' /\ ReportInv'
    BY <1>1, <1>3, <2>1 DEF StageInv, CopyDispensable, Reached, ReportInv, DoneMeansMoved, Paths
  <2>5. QED
    BY <2>1, <2>3, <2>4 DEF FolderInv
<1>4. QED
  BY <1>2, <1>3 DEF Reparse

\* The junction failed: its folder goes, the original comes back.
LEMMA UnlinkKeeps == ASSUME FolderInv, Unlink PROVE FolderInv'
<1>1. /\ pc = "unlink" /\ pc' = "putback" /\ UNCHANGED <<strays, truth, held, told>>
      /\ result' = result /\ held \in {"none", "source"} /\ result # "done"
  BY DEF Unlink, others, told, FolderInv, DiskOK, ReportInv
<1>2. CASE UNCHANGED at
  <2>1. StageInv'
    BY <1>1, <1>2 DEF FolderInv, StageInv, CopyDispensable
  <2>2. QED
    BY <1>1, <1>2, <2>1, Goes DEF CopyDispensable, AsideDispensable, Steps
<1>3. CASE at["source"] = Dir(Nothing) /\ at' = [at EXCEPT !["source"] = None]
  <2>1. /\ DiskOK'
        /\ at'["source"] = None
        /\ \A p \in Paths \ {"source"} : at'[p] = at[p]
    BY <1>1, <1>3, Nodes, Replaced DEF FolderInv, DiskOK, Paths, Steps
  <2>2. \A p \in Paths : at'[p].files = at[p].files
    BY <1>3, <2>1, Nodes DEF Paths
  <2>3. SafeInv'
    <3> SUFFICES ASSUME NEW f \in Files PROVE Kept(WithoutCopy, f)'
      BY <1>1 DEF SafeInv, Kept, WithoutCopy, AsideDispensable
    <3>1. Kept(WithoutCopy, f)
      BY <1>1 DEF FolderInv, SafeInv, CopyDispensable
    <3>2. QED
      BY <1>1, <2>2, <3>1, KeptMoves DEF WithoutCopy
  <2>4. StageInv' /\ ReportInv'
    BY <1>1, <2>1, Nodes DEF StageInv, ReportInv, DoneMeansMoved
  <2>5. QED
    BY <2>1, <2>3, <2>4 DEF FolderInv
<1>4. QED
  BY <1>2, <1>3 DEF Unlink

LEMMA PutBackKeeps == ASSUME FolderInv, PutBack PROVE FolderInv'
<1>1. /\ pc = "putback" /\ UNCHANGED <<strays, truth>> /\ held \in {"none", "source"}
      /\ at["aside"].kind # "link"
  BY DEF PutBack, settled, FolderInv, DiskOK, Paths
<1>2. CASE pc' = AfterLostOriginal /\ result' = "refused" /\ Unmoved
  BY <1>1, <1>2, Stopped DEF AfterLostOriginal, Unmoved
<1>3. CASE at["source"] = None /\ Move("aside", "source") /\ DiscardAndRefuse
  <2>1. /\ DiskOK'
        /\ at'["source"] = at["aside"] /\ at'["aside"] = None
        /\ \A p \in Paths \ {"source", "aside"} : at'[p] = at[p]
    BY <1>1, <1>3, Renamed DEF FolderInv, DiscardAndRefuse, Paths, Steps
  <2>2. SafeInv'
    <3> SUFFICES ASSUME NEW f \in Files PROVE Kept(WithoutCopy, f)'
      BY <1>3 DEF SafeInv, Kept, WithoutCopy, AsideDispensable, DiscardAndRefuse
    <3>1. \A p \in WithoutCopy : \/ \E q \in WithoutCopy : at'[q].files = at[p].files
                                 \/ at[p].files[f] = Absent
      BY <1>3, <2>1, Nodes DEF WithoutCopy, Paths
    <3>2. QED
      BY <1>1, <3>1, KeptMoves DEF FolderInv, SafeInv, CopyDispensable
  <2>3. StageInv' /\ ReportInv'
    BY <1>1, <1>3, <2>1 DEF StageInv, ReportInv, DoneMeansMoved, DiscardAndRefuse
  <2>4. QED
    BY <2>1, <2>2, <2>3 DEF FolderInv
<1>4. QED
  BY <1>2, <1>3 DEF PutBack

-----------------------------------------------------------------------------
(* Deletions.                                                               *)

\* A folder with one entry fewer.
LEMMA SweepFileKeeps == ASSUME FolderInv, SweepFile PROVE FolderInv'
<1>1. /\ pc = "sweep" /\ UNCHANGED <<strays, held, pc, victim, action, told>>
      /\ result' = result /\ result # "done" /\ held \in {"none", "source"}
      /\ victim \in {"source", "aside", "dest"} /\ victim \in Paths
      /\ at[victim].kind = "dir" \/ (victim = "source" /\ at["source"] = None)
  BY DEF SweepFile, told, FolderInv, DiskOK, ReportInv, StageInv, Paths
<1>2. PICK f \in left :
        \/ /\ at' = [at EXCEPT ![victim].files[f] = Absent]
           /\ truth' = IF victim = "source" THEN [truth EXCEPT ![f] = Absent] ELSE truth
        \/ UNCHANGED <<at, truth>>
  BY DEF SweepFile
<1>3. CASE UNCHANGED <<at, truth>>
  <2>1. StageInv'
    BY <1>1, <1>3 DEF FolderInv, StageInv, CopyDispensable, Reached
  <2>2. QED
    BY <1>1, <1>3, <2>1, Goes DEF CopyDispensable, AsideDispensable, Steps
<1>4. CASE /\ at[victim].kind = "dir"
           /\ at' = [at EXCEPT ![victim].files[f] = Absent]
           /\ truth' = IF victim = "source" THEN [truth EXCEPT ![f] = Absent] ELSE truth
  <2> DEFINE d == at[victim]
             files == [d.files EXCEPT ![f] = Absent]
  <2>1. d \in Node /\ d = Dir(d.files) /\ d.files \in Content
    BY <1>1, <1>4, NodeFields DEF FolderInv
  <2>2. files \in Content /\ \A g \in Files : files[g] \in {Absent, d.files[g]}
                           /\ (g # f => files[g] = d.files[g])
    BY <2>1 DEF Content
  <2>3. at' = [at EXCEPT ![victim] = Dir(files)]
    <3>1. at' = [at EXCEPT ![victim] = [d EXCEPT !.files = files]]
      BY <1>4
    <3>2. [d EXCEPT !.files = files] = Dir(files)
      <4> HIDE DEF files
      <4> QED
        BY <2>1 DEF Dir, Node
    <3>3. QED
      BY <3>1, <3>2
  <2>4. truth' \in Content
    BY <1>4 DEF FolderInv, DiskOK, Content
  <2> HIDE DEF files, d
  <2>5. /\ DiskOK'
        /\ at'[victim] = Dir(files)
        /\ \A p \in Paths \ {victim} : at'[p] = at[p]
    BY <1>1, <2>2, <2>3, <2>4, Nodes, Replaced DEF FolderInv, DiskOK, Steps
  <2>6. at'[victim].kind = "dir" /\ at'[victim].files = files
    BY <2>2, <2>5, Nodes
  <2>7. SafeInv'
    <3>1. CASE victim = "source"
      <4> SUFFICES ASSUME NEW g \in Files PROVE Kept(Paths, g)'
        BY <1>1, <3>1 DEF SafeInv, CopyDispensable, AsideDispensable
      <4>1. CASE g = f
        BY <1>4, <3>1, <4>1 DEF FolderInv, DiskOK, Content, Kept
      <4>2. CASE g # f
        <5>1. truth'[g] = truth[g]
          BY <1>4, <3>1, <4>2 DEF FolderInv, DiskOK, Content
        <5>2. \A p \in Paths : at'[p].files[g] = at[p].files[g]
          BY <2>2, <2>5, <2>6, <4>2 DEF d
        <5>3. QED
          BY <1>1, <5>1, <5>2 DEF FolderInv, SafeInv, Kept
      <4>3. QED
        BY <4>1, <4>2
    <3>2. CASE victim = "dest"
      <4> SUFFICES ASSUME NEW g \in Files PROVE Kept(WithoutCopy, g)'
        BY <1>1, <3>2 DEF SafeInv, Kept, WithoutCopy, AsideDispensable
      <4>1. Kept(WithoutCopy, g) /\ truth' = truth
        BY <1>1, <1>4, <3>2 DEF FolderInv, SafeInv, CopyDispensable
      <4>2. \A p \in WithoutCopy : at'[p].files = at[p].files
        BY <2>5, <3>2 DEF WithoutCopy
      <4>3. QED
        BY <1>1, <4>1, <4>2, KeptMoves
    <3>3. CASE victim = "aside"
      <4> SUFFICES ASSUME NEW g \in Files PROVE Kept(WithoutAside, g)'
        BY <1>1, <3>3 DEF SafeInv, Kept, WithoutAside, CopyDispensable
      <4>1. Kept(WithoutAside, g) /\ truth' = truth
        BY <1>1, <1>4, <3>3 DEF FolderInv, SafeInv, AsideDispensable
      <4>2. \A p \in WithoutAside : at'[p].files = at[p].files
        BY <2>5, <3>3 DEF WithoutAside
      <4>3. QED
        BY <1>1, <4>1, <4>2, KeptMoves
    <3>4. QED
      BY <1>1, <3>1, <3>2, <3>3
  <2>8. victim = "aside" => at'["source"] = Link /\ Reached'
    BY <1>1, <1>4, <2>2, <2>5, <2>6 DEF FolderInv, StageInv, Reached, Paths, d
  <2>9. StageInv' /\ ReportInv'
    <3>1. CopyDispensable' => CopyDispensable /\ at'["source"] = at["source"]
      BY <1>1, <2>5 DEF CopyDispensable, Paths
    <3>2. StageInv'
      BY <1>1, <2>6, <2>8, <3>1 DEF FolderInv, StageInv
    <3>3. ReportInv'
      BY <1>1 DEF ReportInv, DoneMeansMoved
    <3>4. QED
      BY <3>2, <3>3
  <2>10. QED
    BY <2>5, <2>7, <2>9 DEF FolderInv
\* Another program removed the folder meanwhile: the entry is gone already.
<1>5. CASE /\ victim = "source" /\ at["source"] = None
           /\ at' = [at EXCEPT !["source"].files[f] = Absent]
           /\ truth' = [truth EXCEPT ![f] = Absent]
  <2>1. at' = at
    <3>1. [None EXCEPT !.files[f] = Absent] = None
      BY DEF None, Nothing
    <3>2. QED
      BY <1>5, <3>1 DEF FolderInv, DiskOK, Paths
  <2>2. /\ truth' \in Content
        /\ \A g \in Files : truth'[g] = Absent \/ truth'[g] = truth[g]
    BY <1>5 DEF FolderInv, DiskOK, Content
  <2>3. DiskOK'
    BY <1>1, <2>1, <2>2 DEF FolderInv, DiskOK
  <2>4. SafeInv'
    <3> SUFFICES ASSUME NEW g \in Files PROVE Kept(Paths, g)'
      BY <1>1, <1>5 DEF SafeInv, CopyDispensable, AsideDispensable
    <3>1. Kept(Paths, g)
      BY DEF FolderInv, SafeInv
    <3>2. QED
      BY <1>1, <2>1, <2>2, <3>1 DEF Kept
  <2>5. StageInv' /\ ReportInv'
    BY <1>1, <1>5, <2>1 DEF FolderInv, StageInv, CopyDispensable, ReportInv, DoneMeansMoved
  <2>6. QED
    BY <2>3, <2>4, <2>5 DEF FolderInv
<1>6. QED
  BY <1>1, <1>2, <1>3, <1>4, <1>5

\* The emptied folder itself.
LEMMA SweepRootKeeps == ASSUME FolderInv, SweepRoot PROVE FolderInv'
<1>1. /\ pc = "sweep" /\ pc' = "idle" /\ UNCHANGED <<strays, truth, action, victim>>
      /\ result # "done" /\ held \in {"none", "source"} /\ held' \in {"none", "source"}
      /\ victim \in {"source", "aside", "dest"} /\ victim \in Paths
  BY DEF SweepRoot, FolderInv, DiskOK, ReportInv, StageInv, Paths
<1>2. \/ UNCHANGED at
      \/ at[victim].files = Nothing /\ at' = [at EXCEPT ![victim] = None]
  BY DEF SweepRoot
<1>3. /\ DiskOK'
      /\ \A p \in Paths : at'[p].files = at[p].files
      /\ \A p \in Paths \ {victim} : at'[p] = at[p]
  <2>1. CASE UNCHANGED at
    BY <1>1, <2>1 DEF FolderInv, DiskOK, Steps
  <2>2. CASE at[victim].files = Nothing /\ at' = [at EXCEPT ![victim] = None]
    <3>1. /\ DiskOK'
          /\ at'[victim] = None
          /\ \A p \in Paths \ {victim} : at'[p] = at[p]
      BY <1>1, <2>2, Nodes, Replaced DEF FolderInv, DiskOK, Steps
    <3>2. QED
      BY <2>2, <3>1, Nodes
  <2>3. QED
    BY <1>2, <2>1, <2>2
<1>4. SafeInv'
  <2> SUFFICES ASSUME NEW f \in Files PROVE Kept(Paths, f)'
    BY <1>1 DEF SafeInv, CopyDispensable, AsideDispensable
  <2>1. QED
    BY <1>1, <1>3, KeptMoves DEF FolderInv, SafeInv
<1>5. DoneMeansMoved'
  <2>1. CASE victim = "dest"
    BY <1>1, <2>1 DEF SweepRoot, told, DoneMeansMoved
  <2>2. CASE victim = "source"
    BY <1>1, <2>2 DEF FolderInv, StageInv, DoneMeansMoved
  <2>3. CASE victim = "aside"
    <3>1. at'["source"].kind = "link"
      BY <1>1, <1>3, <2>3, Nodes DEF FolderInv, StageInv, Paths
    <3>2. named' = {p \in {victim} : at'[p] # None}
          /\ result' = IF failed \/ named' # {} THEN "partial" ELSE "done"
      BY <2>3 DEF SweepRoot
    <3>3. result' = "done" => at'["aside"] = None
      BY <2>3, <3>2
    <3>4. QED
      BY <3>1, <3>3 DEF DoneMeansMoved
  <2>4. QED
    BY <1>1, <2>1, <2>2, <2>3
<1>6. StageInv' /\ ReportInv'
  BY <1>1, <1>5 DEF StageInv, CopyDispensable, ReportInv
<1>7. QED
  BY <1>3, <1>4, <1>6 DEF FolderInv

-----------------------------------------------------------------------------
(* Everything else on the machine.                                          *)

LEMMA OtherWritesKeeps ==
  ASSUME FolderAssumption, WritesShow, WritesOK, FolderInv, OtherWrites PROVE FolderInv'
<1> DEFINE p == IF held = "none" THEN "source" ELSE held
           q == IF at[p] = Link THEN "dest" ELSE p
<1>1. /\ pc \notin {"verifycopy", "swap"} /\ p = "source" /\ writes' = writes + 1
      /\ UNCHANGED <<strays, held, pc, victim, action, result, left, copied>>
      /\ held \in {"none", "source"} /\ pc \notin QuietSteps
  BY DEF OtherWrites, WritesShow, FolderInv, DiskOK, told, job
<1>2. PICK f \in Files, x \in Data \cup {Absent} :
        /\ at' = [at EXCEPT ![q] = Dir([@.files EXCEPT ![f] = x])]
        /\ truth' = [truth EXCEPT ![f] = x]
  BY DEF OtherWrites
<1> DEFINE files == [at[q].files EXCEPT ![f] = x]
<1>3. /\ q \in {"source", "dest"} /\ q \in Paths
      /\ at["source"] = Link => q = "dest"
      /\ at["source"].kind # "link" => q = "source"
  BY <1>1, Nodes DEF Paths
<1> HIDE DEF p, q
<1>4. at[q].files \in Content
  BY <1>3, NodeFields DEF FolderInv
<1>5. /\ files \in Content /\ files[f] = x
      /\ \A g \in Files \ {f} : files[g] = at[q].files[g]
  BY <1>4 DEF Content
<1>6. /\ truth' \in Content /\ truth'[f] = x
      /\ \A g \in Files \ {f} : truth'[g] = truth[g]
  BY <1>2 DEF FolderInv, DiskOK, Content
<1>7. at' = [at EXCEPT ![q] = Dir(files)]
  BY <1>2, <1>3 DEF FolderInv, DiskOK
<1> HIDE DEF files
<1>8. /\ DiskOK'
      /\ at'[q] = Dir(files)
      /\ \A r \in Paths \ {q} : at'[r] = at[r]
  BY <1>1, <1>3, <1>5, <1>6, <1>7, Nodes, Replaced DEF FolderInv, DiskOK, Steps
<1>9. at'[q].files = files /\ at'[q].kind = "dir"
  BY <1>5, <1>8, Nodes
\* What was written is kept where it was written, the rest where it was.
<1>10. ASSUME NEW places, places \subseteq Paths, q \in places,
              NEW g \in Files, Kept(places, g)
       PROVE  Kept(places, g)'
  <2>1. CASE g = f
    BY <1>5, <1>6, <1>9, <1>10, <2>1 DEF Kept
  <2>2. CASE g # f
    <3>1. \A r \in places : at'[r].files[g] = at[r].files[g]
      BY <1>5, <1>8, <1>9, <1>10, <2>2
    <3>2. QED
      BY <1>1, <1>6, <1>10, <2>2, <3>1 DEF Kept
  <2>3. QED
    BY <2>1, <2>2
<1>11. SafeInv'
  <2> SUFFICES ASSUME NEW g \in Files
               PROVE  /\ Kept(Paths, g)'
                      /\ CopyDispensable => Kept(WithoutCopy, g)'
                      /\ AsideDispensable => Kept(WithoutAside, g)'
    BY <1>1 DEF SafeInv, CopyDispensable, AsideDispensable
  <2>1. /\ Kept(Paths, g)
        /\ CopyDispensable => Kept(WithoutCopy, g) /\ q = "source"
        /\ AsideDispensable => Kept(WithoutAside, g)
    BY <1>3 DEF FolderInv, SafeInv, StageInv
  <2>2. Kept(Paths, g)'
    BY <1>3, <1>10, <2>1
  <2>3. CopyDispensable => Kept(WithoutCopy, g)'
    BY <1>10, <2>1 DEF WithoutCopy, Paths
  <2>4. AsideDispensable => Kept(WithoutAside, g)'
    BY <1>3, <1>10, <2>1 DEF WithoutAside, Paths
  <2>5. QED
    BY <2>2, <2>3, <2>4
<1>12. q = "dest" /\ Reached => Reached'
  <2> SUFFICES ASSUME q = "dest", Reached, NEW g \in Files, at'["aside"].files[g] # Absent
               PROVE  at'["dest"].files[g] \in {at'["aside"].files[g], truth'[g]}
    BY DEF Reached
  <2>1. at'["aside"] = at["aside"]
    BY <1>8 DEF Paths
  <2>2. at["dest"].files[g] \in {at["aside"].files[g], truth[g]}
    BY <2>1 DEF Reached
  <2>3. CASE g = f
    BY <1>5, <1>6, <1>9, <2>3
  <2>4. CASE g # f
    BY <1>5, <1>6, <1>9, <2>1, <2>2, <2>4
  <2>5. QED
    BY <2>3, <2>4
<1>13. StageInv'
  <2>1. /\ \A r \in {"aside", "probe"} : at'[r] = at[r]
        /\ at["source"] = Link => at'["source"] = Link
        /\ q = "source" => at'["dest"] = at["dest"] /\ at'["source"].kind = "dir"
    BY <1>3, <1>8, <1>9, Nodes DEF Paths
  <2>2. CopyDispensable => q = "source" /\ at'["source"].kind = "dir"
    BY <1>3, <2>1 DEF FolderInv, StageInv
  <2>3. CopyDispensable' <=> CopyDispensable
    BY <1>1 DEF CopyDispensable
  <2>4. pc \in {"mklink", "reparse"} => CopyDispensable
    BY DEF CopyDispensable
  <2>5. pc = "sweep" =>
          /\ victim \in {"source", "aside", "dest"}
          /\ at'[victim].kind = "dir" \/ (victim = "source" /\ at'["source"] = None)
    <3>1. CASE pc = "sweep" /\ victim = q
      BY <1>3, <1>9, <3>1
    <3>2. CASE pc = "sweep" /\ victim # q
      BY <1>8, <3>2 DEF FolderInv, StageInv, Paths
    <3>3. QED
      BY <3>1, <3>2
  <2>6. at["source"] = Link /\ Reached => at'["source"] = Link /\ Reached'
    BY <1>3, <1>12, <2>1
  \* What was copied before it was written is one file more that the copy lacks.
  <2>7. pc \in {"copying", "verify"} => Copying'
    <3> SUFFICES ASSUME pc \in {"copying", "verify"} PROVE Copying'
      OBVIOUS
    <3>1. Copying /\ q = "source" /\ at'["dest"] = at["dest"]
      BY <2>1, <2>2 DEF FolderInv, StageInv, CopyDispensable
    <3>2. Missed' \subseteq Missed \cup {f} /\ Missed \subseteq Files
      BY <1>1, <1>5, <1>9, <3>1 DEF Missed
    <3>3. IsFiniteSet(Missed) /\ IsFiniteSet(Missed \cup {f})
      BY <3>2, FS_Subset, FS_AddElement DEF FolderAssumption
    <3>4. Cardinality(Missed \cup {f}) <= Cardinality(Missed) + 1
      BY <3>3, FS_AddElement, FS_CardinalityType
    <3>5. Cardinality(Missed') <= Cardinality(Missed \cup {f})
      BY <3>2, <3>3, FS_Subset
    <3>6. /\ Cardinality(Missed) \in Nat /\ Cardinality(Missed \cup {f}) \in Nat
          /\ Cardinality(Missed') \in Nat
      BY <3>2, <3>3, FS_Subset, FS_CardinalityType
    <3>7. Cardinality(Missed') <= writes'
      BY <1>1, <3>1, <3>4, <3>5, <3>6 DEF Copying, WritesOK, FolderAssumption
    <3>8. SameMeasure(at["dest"].files)'
      BY <1>1, <3>1 DEF Copying, SameMeasure
    <3>9. QED
      BY <1>1, <3>1, <3>7, <3>8 DEF Copying
  <2>8. QED
    BY <1>1, <2>1, <2>2, <2>3, <2>4, <2>5, <2>6, <2>7 DEF FolderInv, StageInv
<1>14. ReportInv'
  <2>1. at["source"].kind = "link" => at'["source"] = at["source"]
    BY <1>3, <1>8, NodeFields DEF FolderInv, Paths
  <2>2. at'["aside"] = at["aside"]
    BY <1>3, <1>8 DEF Paths
  <2>3. QED
    BY <1>1, <2>1, <2>2 DEF FolderInv, ReportInv, DoneMeansMoved
<1>15. QED
  BY <1>8, <1>11, <1>13, <1>14 DEF FolderInv

LEMMA OtherRemovesKeeps ==
  ASSUME FolderAssumption, WritesOK, FolderInv, OtherRemoves PROVE FolderInv'
<1>1. /\ UNCHANGED <<strays, held, truth, pc, victim, action, result, left, copied>>
      /\ writes' = writes + 1
      /\ held \in {"none", "source"}
      /\ at["source"] = Dir(Nothing) /\ at' = [at EXCEPT !["source"] = None]
  BY DEF OtherRemoves, FolderInv, DiskOK, told, job, others
<1>2. /\ DiskOK'
      /\ at'["source"] = None
      /\ \A p \in Paths \ {"source"} : at'[p] = at[p]
  BY <1>1, Nodes, Replaced DEF FolderInv, DiskOK, Steps, Paths
<1>3. \A p \in Paths : at'[p].files = at[p].files
  BY <1>1, <1>2, Nodes
<1>4. SafeInv'
  <2>1. ASSUME NEW f \in Files, NEW places \in {Paths, WithoutCopy, WithoutAside},
               Kept(places, f)
        PROVE  Kept(places, f)'
    BY <1>1, <1>3, <2>1, KeptMoves DEF WithoutCopy, WithoutAside
  <2>2. /\ CopyDispensable' <=> CopyDispensable
        /\ AsideDispensable' <=> AsideDispensable
    BY <1>1 DEF CopyDispensable, AsideDispensable
  <2>3. QED
    BY <2>1, <2>2 DEF FolderInv, SafeInv
<1>5. StageInv'
  <2>1. at["source"].kind = "dir" /\ at'["source"].kind = "none" /\ at["source"] # Link
    BY <1>1, <1>2, Nodes
  <2>2. Copying => Copying'
    BY <1>1, <1>2, <1>3, CopyingStays DEF FolderAssumption, Paths
  <2>3. QED
    BY <1>1, <1>2, <1>3, <2>1, <2>2 DEF FolderInv, StageInv, Paths
<1>6. ReportInv'
  BY <1>1, <1>2, Nodes DEF FolderInv, ReportInv, DoneMeansMoved, Paths
<1>7. QED
  BY <1>2, <1>4, <1>5, <1>6 DEF FolderInv

\* Where another program's folder appears there was none, so no file is covered by it.
LEMMA OtherCreatesKeeps == ASSUME FolderInv, OtherCreates PROVE FolderInv'
<1>1. /\ pc \notin {"idle", "deleteaside", "sweep"} /\ at["dest"] = None
      /\ UNCHANGED <<strays, held, truth, pc, job, told>> /\ left' = left
      /\ result' = result /\ held \in {"none", "source"} /\ result # "done"
      /\ at["dest"].kind # "dir"
  BY Nodes DEF OtherCreates, told, job, FolderInv, DiskOK, ReportInv
<1>2. PICK files \in Content : at' = [at EXCEPT !["dest"] = Dir(files)]
  BY DEF OtherCreates
<1>3. /\ DiskOK'
      /\ \A p \in Paths \ {"dest"} : at'[p] = at[p]
  BY <1>1, <1>2, Nodes, Replaced DEF FolderInv, DiskOK, Steps, Paths
<1>4. pc \notin {"copying", "verify", "verifycopy", "swap", "mklink", "reparse"}
  BY <1>1 DEF FolderInv, StageInv, Copying
<1>5. SafeInv'
  <2> SUFFICES ASSUME NEW f \in Files PROVE Kept(WithoutCopy, f)'
    BY <1>1, <1>4 DEF SafeInv, Kept, WithoutCopy, AsideDispensable
  <2>1. Kept(WithoutCopy, f)
    BY <1>1, Nodes, NoCopyYet
  <2>2. \A p \in WithoutCopy : at'[p].files = at[p].files
    BY <1>3 DEF WithoutCopy
  <2>3. QED
    BY <1>1, <2>1, <2>2, KeptMoves
<1>6. StageInv' /\ ReportInv'
  BY <1>1, <1>3, <1>4 DEF FolderInv, StageInv, CopyDispensable, Reached, ReportInv, DoneMeansMoved, Paths
<1>7. QED
  BY <1>3, <1>5, <1>6 DEF FolderInv

-----------------------------------------------------------------------------
(* The theorems.                                                            *)

LEMMA FolderStep ==
  ASSUME FolderAssumption, WritesShow, WritesOK, FolderInv, Next PROVE FolderInv'
<1>1. CASE \E act \in {"MOVE", "DELETE"} : Plan(act)
  BY <1>1, PlanKeeps
<1>2. CASE Cancel \/ Recheck \/ CopyDone \/ VerifySource \/ VerifyCopy \/ DeleteAside \/ Discard \/ Crash
  BY <1>2, CancelKeeps, RecheckKeeps, CopyDoneKeeps, MeasureKeeps, DeleteAsideKeeps,
     DiscardKeeps, CrashKeeps
<1>3. CASE Probe \/ ProbeBack \/ StartCopy \/ CopyFile \/ Swap
  BY <1>3, ProbeKeeps, ProbeBackKeeps, StartCopyKeeps, CopyFileKeeps, SwapKeeps
<1>4. CASE MakeLinkDir \/ Reparse \/ Unlink \/ PutBack \/ SweepFile \/ SweepRoot
  BY <1>4, MakeLinkDirKeeps, ReparseKeeps, UnlinkKeeps, PutBackKeeps, SweepFileKeeps,
     SweepRootKeeps
<1>5. CASE OtherWrites \/ OtherRemoves \/ OtherHolds \/ OtherCloses \/ OtherCreates
  BY <1>5, OtherWritesKeeps, OtherRemovesKeeps, HoldKeeps, OtherCreatesKeeps
<1>6. QED
  BY <1>1, <1>2, <1>3, <1>4, <1>5 DEF Next

LEMMA FolderStutter ==
  ASSUME FolderAssumption, WritesOK, FolderInv, UNCHANGED vars PROVE FolderInv'
<1>1. Copying => Copying'
  BY CopyingStays DEF vars, FolderAssumption
<1>2. QED
  BY <1>1 DEF vars, FolderInv, DiskOK, SafeInv, Kept, CopyDispensable, AsideDispensable,
              StageInv, Reached, ReportInv, DoneMeansMoved

LEMMA FolderInvariant ==
  ASSUME FolderAssumption, WritesShow PROVE Spec => [](FolderInv /\ WritesOK)
<1>1. Init => FolderInv /\ WritesOK
  BY InvInit DEF Init, WritesOK, FolderAssumption
<1>2. FolderInv /\ WritesOK /\ [Next]_vars => (FolderInv /\ WritesOK)'
  BY FolderStep, FolderStutter, WritesStep
<1>3. QED
  BY <1>1, <1>2, PTL DEF Spec

\* Whatever call fails and wherever the power goes, in any number of runs: what
\* was last stored under the folder's path is on disk, unless a confirmed DELETE
\* removed it (folder_ops._move, _discard, tree_delete.delete_tree).
THEOREM NothingEverLost == ASSUME FolderAssumption, WritesShow PROVE Spec => []NothingLost
BY FolderInvariant, InvSuffices, PTL

\* The source is renamed aside only when the copy is the folder, file by file,
\* though _verify_copy compares no more than counts and bytes.
THEOREM CopyAlwaysExact == ASSUME FolderAssumption, WritesShow PROVE Spec => []CopyIsExact
BY FolderInvariant, InvSuffices, PTL

\* A move reported as done leaves the junction in place and nothing aside.
THEOREM DoneAlwaysMoved == ASSUME FolderAssumption, WritesShow PROVE Spec => []DoneMeansMoved
BY FolderInvariant, InvSuffices, PTL

\* The original is deleted only behind a junction to a copy of every file that
\* is still to be deleted.
THEOREM OriginalDeletedLast == ASSUME FolderAssumption, WritesShow PROVE Spec => []DeletedLast
BY FolderInvariant, InvSuffices, PTL

-----------------------------------------------------------------------------
(* Types.                                                                   *)

\* The variables the invariant above says nothing of.
FlagsOK == theirs \in BOOLEAN /\ failed \in BOOLEAN
CountsOK ==
  /\ copied \in [files : Nat, bytes : Nat]
  /\ runs \in Nat /\ writes \in Nat /\ faults \in Nat /\ crashes \in Nat
BooksOK ==
  /\ strays \subseteq Node /\ \A stray \in strays : stray.kind = "dir"
  /\ action \in {"MOVE", "DELETE"} /\ left \subseteq Files /\ victim \in Paths
  /\ result \in {"none", "refused", "partial", "done"} /\ named \subseteq Paths

LEMMA TypesInit == Init => FlagsOK /\ CountsOK /\ BooksOK
<1>1. Init => FlagsOK
  BY Zenon DEF Init, FlagsOK
<1>2. Init => CountsOK
  BY DEF Init, CountsOK
<1>3. Init => BooksOK
  BY DEF Init, BooksOK, Paths
<1>4. QED
  BY <1>1, <1>2, <1>3

LEMMA FlagsStep == ASSUME FlagsOK, [Next]_vars PROVE FlagsOK'
<1>1. CASE SweepFile \/ SweepRoot
  <2>1. theirs' \in BOOLEAN
    BY <1>1 DEF SweepFile, SweepRoot, FlagsOK
  <2>2. failed' \in BOOLEAN
    BY <1>1, Zenon DEF SweepFile, SweepRoot, FlagsOK
  <2>3. QED
    BY <2>1, <2>2 DEF FlagsOK
<1>2. CASE Cancel \/ Recheck \/ (\E act \in {"MOVE", "DELETE"} : Plan(act))
  BY <1>2, Zenon DEF Plan, Cancel, Recheck, OpenForDelete, others, job, FlagsOK
<1>3. CASE Probe \/ ProbeBack \/ StartCopy \/ CopyFile \/ CopyDone
  BY <1>3, Zenon DEF Probe, ProbeBack, StartCopy, CopyFile, CopyDone, settled, others, job, FlagsOK
<1>4. CASE VerifySource \/ VerifyCopy
  BY <1>4, Zenon DEF VerifySource, VerifyCopy, Measure, others, job, FlagsOK
<1>5. CASE Swap \/ MakeLinkDir \/ Reparse \/ Unlink \/ PutBack
  BY <1>5, Zenon DEF Swap, MakeLinkDir, Reparse, Unlink, PutBack, others, settled, job, FlagsOK
<1>6. CASE DeleteAside \/ Discard
  BY <1>6, Zenon DEF DeleteAside, Discard, OpenForDelete, others, FlagsOK
<1>7. CASE Crash \/ OtherWrites \/ OtherRemoves \/ OtherHolds \/ OtherCloses \/ OtherCreates
  BY <1>7, Zenon DEF Crash, OtherWrites, OtherRemoves, OtherHolds, OtherCloses, OtherCreates,
                     others, job, FlagsOK
<1>8. CASE UNCHANGED vars
  BY <1>8, Zenon DEF vars, FlagsOK
<1>9. QED
  BY <1>1, <1>2, <1>3, <1>4, <1>5, <1>6, <1>7, <1>8 DEF Next

LEMMA CountsStep ==
  ASSUME FolderAssumption, FolderInv, CountsOK, [Next]_vars PROVE CountsOK'
<1>1. CASE \E act \in {"MOVE", "DELETE"} : Plan(act)
  BY <1>1 DEF Plan, CountsOK
<1>2. CASE Cancel \/ Recheck \/ SweepFile \/ SweepRoot
  BY <1>2 DEF Cancel, Recheck, SweepFile, SweepRoot, Fault, NoFault, job, counts, CountsOK
<1>3. CASE Probe \/ ProbeBack
  BY <1>3 DEF Probe, ProbeBack, Fault, NoFault, job, CountsOK
<1>4. CASE StartCopy
  BY <1>4 DEF StartCopy, Fault, NoFault, CountsOK
<1>5. CASE CopyFile
  <2>1. ASSUME NEW f \in left, at["source"].files[f] # Absent
        PROVE  SizeOf[at["source"].files[f]] \in Nat
    BY <1>5, <2>1, NodeFields
       DEF CopyFile, FolderInv, StageInv, Copying, FolderAssumption, Content, Paths
  <2>2. /\ runs' = runs /\ writes' = writes /\ crashes' = crashes
        /\ faults' = faults \/ faults' = faults + 1
    BY <1>5 DEF CopyFile, Fault, NoFault
  <2>3. \/ copied' = copied
        \/ \E f \in left : /\ at["source"].files[f] # Absent
                           /\ copied' = [files |-> copied.files + 1,
                                bytes |-> copied.bytes + SizeOf[at["source"].files[f]]]
    BY <1>5 DEF CopyFile
  <2>4. QED
    BY <2>1, <2>2, <2>3 DEF CountsOK
<1>6. CASE CopyDone \/ VerifySource \/ VerifyCopy
  BY <1>6 DEF CopyDone, VerifySource, VerifyCopy, Measure, Fault, NoFault, job, CountsOK
<1>7. CASE Swap \/ MakeLinkDir \/ Reparse \/ Unlink \/ PutBack
  BY <1>7 DEF Swap, MakeLinkDir, Reparse, Unlink, PutBack, Fault, NoFault, job, CountsOK
<1>8. CASE DeleteAside \/ Discard
  BY <1>8 DEF DeleteAside, Discard, Fault, NoFault, CountsOK
<1>9. CASE Crash \/ OtherWrites \/ OtherRemoves
  BY <1>9 DEF Crash, OtherWrites, OtherRemoves, job, CountsOK
<1>10. CASE OtherHolds \/ OtherCloses \/ OtherCreates
  BY <1>10 DEF OtherHolds, OtherCloses, OtherCreates, job, counts, CountsOK
<1>11. CASE UNCHANGED vars
  BY <1>11 DEF vars, CountsOK
<1>12. QED
  BY <1>1, <1>2, <1>3, <1>4, <1>5, <1>6, <1>7, <1>8, <1>9, <1>10, <1>11 DEF Next

\* What Plan puts out of the way is a folder.
LEMMA StraysAreDirs ==
  ASSUME DiskOK, NEW p \in {"probe", "aside"}, at[p] # None
  PROVE  at[p] \in Node /\ at[p].kind = "dir"
BY NodeFields DEF DiskOK, Paths

LEMMA BooksStep == ASSUME FolderInv, BooksOK, [Next]_vars PROVE BooksOK'
<1>1. ASSUME NEW act \in {"MOVE", "DELETE"}, Plan(act)
      PROVE  BooksOK'
  <2>1. \A stray \in strays' : stray \in Node /\ stray.kind = "dir"
    BY <1>1, StraysAreDirs DEF Plan, FolderInv, BooksOK
  <2>2. QED
    BY <1>1, <2>1 DEF Plan, BooksOK
<1>2. CASE Cancel \/ Recheck
  BY <1>2 DEF Cancel, Recheck, Refuse, OpenForDelete, Present, disk, job, told, BooksOK, Paths
<1>3. CASE SweepFile \/ SweepRoot
  BY <1>3 DEF SweepFile, SweepRoot, told, BooksOK
<1>4. CASE Probe \/ ProbeBack
  BY <1>4 DEF Probe, ProbeBack, Refuse, ProbeLeftIn, job, told, BooksOK, Paths
<1>5. CASE StartCopy \/ CopyFile
  BY <1>5 DEF StartCopy, CopyFile, Present, DiscardAndRefuse, told, BooksOK
<1>6. CASE CopyDone \/ VerifySource \/ VerifyCopy
  BY <1>6 DEF CopyDone, VerifySource, VerifyCopy, Measure, DiscardAndRefuse, disk, job, told,
              BooksOK
<1>7. CASE Swap \/ MakeLinkDir \/ Reparse \/ Unlink \/ PutBack
  BY <1>7 DEF Swap, MakeLinkDir, Reparse, Unlink, PutBack, DiscardAndRefuse, job, told,
              BooksOK, Paths
<1>8. CASE DeleteAside \/ Discard
  BY <1>8 DEF DeleteAside, Discard, OpenForDelete, Present, disk, told, BooksOK, Paths
<1>9. CASE Crash \/ OtherWrites \/ OtherRemoves
  BY <1>9 DEF Crash, OtherWrites, OtherRemoves, disk, job, told, BooksOK
<1>10. CASE OtherHolds \/ OtherCloses \/ OtherCreates
  BY <1>10 DEF OtherHolds, OtherCloses, OtherCreates, disk, job, told, BooksOK
<1>11. CASE UNCHANGED vars
  BY <1>11 DEF vars, BooksOK
<1>12. QED
  BY <1>1, <1>2, <1>3, <1>4, <1>5, <1>6, <1>7, <1>8, <1>9, <1>10, <1>11 DEF Next

\* Every variable keeps to its kind, a junction is only ever at the old path, and
\* delete_tree never works on one.
THEOREM FolderTypeCorrect ==
  ASSUME FolderAssumption, WritesShow PROVE Spec => []TypeOK
<1>1. FlagsOK /\ CountsOK /\ BooksOK /\ FolderInv /\ [Next]_vars
        => (FlagsOK /\ CountsOK /\ BooksOK)'
  BY FlagsStep, CountsStep, BooksStep
<1>2. FolderInv /\ FlagsOK /\ CountsOK /\ BooksOK => TypeOK
  <2> SUFFICES ASSUME FolderInv, FlagsOK, CountsOK, BooksOK PROVE TypeOK
    OBVIOUS
  <2>1. theirs \in BOOLEAN /\ failed \in BOOLEAN
    BY Zenon DEF FlagsOK
  <2>2. QED
    BY <2>1, Nodes DEF FolderInv, DiskOK, StageInv, CountsOK, BooksOK, TypeOK, Paths
<1>3. QED
  BY TypesInit, FolderInvariant, <1>1, <1>2, PTL DEF Spec
-----------------------------------------------------------------------------
(* What a refusal says, as long as no other program writes: then also the    *)
(* steps the proof above wants quiet may be crossed by programs that open    *)
(* and close files or create the destination.                                *)

Whole(p) == at[p] = Dir(truth)

\* An empty folder where the junction was going to be, and the files aside.
HalfMade ==
  /\ at["source"] = Dir(Nothing) /\ at["dest"].kind = "dir"
  /\ strays # {} \/ at["aside"] # None

\* Where the whole folder is, at each step.
Whereabouts ==
  /\ pc = "idle" => Whole("source") \/ at["source"] \in {None, Link} \/ HalfMade
  /\ pc = "planned" => Whole("source") \/ (HalfMade /\ strays # {} /\ action = "DELETE")
  /\ pc \in {"probe", "copy", "copying", "verify", "verifycopy", "swap", "discard"} =>
       Whole("source")
  /\ pc = "probeback" => at["source"] = None /\ Whole("probe")
  /\ pc = "copying" =>
       /\ at["dest"].kind = "dir" /\ left \subseteq Present(truth)
       /\ \A f \in Files : at["dest"].files[f] = IF f \in left THEN Absent ELSE truth[f]
  /\ pc \in {"verify", "verifycopy", "swap", "mklink", "reparse", "unlink", "putback"} =>
       Whole("dest")
  /\ pc \in {"mklink", "reparse", "unlink", "putback"} =>
       Whole("aside") /\ at["source"] \in {None, Dir(Nothing)}
  /\ pc \in {"reparse", "unlink"} => at["source"] = Dir(Nothing)
  /\ pc = "deleteaside" => at["source"] = Link
  /\ pc = "sweep" =>
       /\ left \subseteq Present(at[victim].files)
       /\ \/ victim = "source" /\ (Whole("source") \/ (HalfMade /\ strays # {}))
          \/ victim = "dest" /\ Whole("source")
          \/ victim = "aside" /\ at["source"] = Link

\* A message that is under way names no place yet.
Unnamed ==
  pc \in {"planned", "discard"} \/ (pc = "sweep" /\ victim = "dest") => named = {}

Told ==
  pc = "idle" /\ result = "refused" =>
    /\ named = {} /\ strays = {} => Whole("source")
    /\ \A p \in named : Whole(p)

TypesKept == at \in [Paths -> Node] /\ truth \in Content /\ pc \in Steps
Honest == TypesKept /\ Whereabouts /\ Unnamed /\ Told
HonestInv == writes \in Nat /\ (writes = 0 => Honest)

LEMMA HonestInit == Init => HonestInv
<1> SUFFICES ASSUME Init PROVE HonestInv
  OBVIOUS
<1>1. PICK files \in Content :
        truth = files /\ at = [p \in Paths |-> IF p = "source" THEN Dir(files) ELSE None]
  BY DEF Init
<1>2. pc = "idle" /\ result = "none" /\ writes = 0
  BY DEF Init
<1>3. TypesKept /\ Whole("source")
  BY <1>1, <1>2, Nodes DEF TypesKept, Whole, Paths, Steps
<1>4. QED
  BY <1>2, <1>3 DEF HonestInv, Honest, Steps, Whereabouts, Unnamed, Told

\* A step that changes no folder, and goes back to idle with a message that is true.
LEMMA HonestStop ==
  ASSUME Honest, UNCHANGED <<at, strays, truth>>, pc' = "idle",
         Whole("source") \/ at["source"] \in {None, Link} \/ HalfMade,
         result' = "refused" =>
           /\ named' = {} /\ strays = {} => Whole("source")
           /\ \A p \in named' : Whole(p)
  PROVE  Honest'
BY DEF Honest, TypesKept, Whereabouts, Unnamed, Told, Whole, HalfMade, Steps

\* A step of a run that changes no folder, with the whole folder in its place.
LEMMA HonestDiscard ==
  ASSUME Honest, UNCHANGED <<at, strays, truth>>, Whole("source"), DiscardAndRefuse
  PROVE  Honest'
BY DEF Honest, TypesKept, Whereabouts, Unnamed, Told, Whole, DiscardAndRefuse, Steps


LEMMA HonestCrash == ASSUME Honest, Crash PROVE Honest'
<1>1. UNCHANGED <<at, strays, truth>> /\ pc' = "idle" /\ result' = "none" /\ pc # "idle"
  BY DEF Crash, disk, others
<1>2. Whole("source") \/ at["source"] \in {None, Link} \/ HalfMade
  <2>1. CASE pc \in {"mklink", "reparse", "unlink", "putback"}
    BY <2>1, Nodes DEF Honest, TypesKept, Whereabouts, Whole, HalfMade
  <2>2. CASE pc \notin {"idle", "mklink", "reparse", "unlink", "putback"}
    BY <2>2 DEF Honest, TypesKept, Steps, Whereabouts
  <2>3. QED
    BY <1>1, <2>1, <2>2
<1>3. QED
  BY <1>1, <1>2, HonestStop

LEMMA HonestPlan == ASSUME Honest, NEW act \in {"MOVE", "DELETE"}, Plan(act) PROVE Honest'
<1>1. /\ pc = "idle" /\ pc' = "planned" /\ at["source"].kind = "dir" /\ action' = act
      /\ act = "MOVE" => at["dest"].kind = "none"
      /\ at' = [at EXCEPT !["probe"] = None, !["aside"] = None]
      /\ strays' = strays \cup {at[p] : p \in {q \in {"probe", "aside"} : at[q] # None}}
      /\ named' = {} /\ result' = "none" /\ truth' = truth
  BY DEF Plan, PlainDir, others
<1>2. /\ at' \in [Paths -> Node] /\ truth' \in Content /\ pc' \in Steps
      /\ at'["source"] = at["source"] /\ at'["dest"] = at["dest"]
  BY <1>1, Nodes DEF Honest, TypesKept, Paths, Steps
<1>3. Whole("source") \/ HalfMade
  BY <1>1, Nodes DEF Honest, Whereabouts
<1>4. HalfMade => strays' # {} /\ HalfMade' /\ act = "DELETE"
  BY <1>1, <1>2 DEF HalfMade
<1>5. QED
  BY <1>1, <1>2, <1>3, <1>4 DEF Honest, TypesKept, Whereabouts, Unnamed, Told, Whole

LEMMA HonestCancel == ASSUME Honest, Cancel \/ Recheck PROVE Honest'
<1>1. /\ pc = "planned" /\ UNCHANGED <<at, strays, truth>> /\ named = {}
      /\ Whole("source") \/ (HalfMade /\ strays # {} /\ action = "DELETE")
  BY DEF Cancel, Recheck, disk, others, Honest, Whereabouts, Unnamed
<1>2. CASE Cancel
  BY <1>1, <1>2, HonestStop DEF Cancel, told
<1>3. CASE Refuse({})
  BY <1>1, <1>3, HonestStop DEF Refuse
<1>4. CASE pc' = "probe" /\ action = "MOVE" /\ UNCHANGED told
  BY <1>1, <1>4 DEF Honest, TypesKept, Steps, Whereabouts, Unnamed, Told, Whole, told
<1>5. CASE OpenForDelete("source") /\ UNCHANGED told
  BY <1>1, <1>5
     DEF Honest, TypesKept, Steps, Whereabouts, Unnamed, Told, Whole, HalfMade, OpenForDelete, told
<1>6. QED
  BY <1>2, <1>3, <1>4, <1>5 DEF Recheck

LEMMA HonestProbe == ASSUME Honest, Probe \/ ProbeBack PROVE Honest'
<1>1. UNCHANGED <<strays, truth>>
  BY DEF Probe, ProbeBack, settled
<1>2. CASE Probe
  <2>1. pc = "probe" /\ Whole("source")
    BY <1>2 DEF Probe, Honest, Whereabouts
  <2>2. CASE Refuse({}) /\ Unmoved
    BY <1>1, <2>1, <2>2, HonestStop DEF Refuse, Unmoved
  <2>3. CASE Move("source", "probe") /\ pc' = "probeback"
    <3>1. at' \in [Paths -> Node] /\ at'["source"] = None /\ at'["probe"] = at["source"]
      BY <2>3, Nodes DEF Move, Honest, TypesKept, Paths
    <3>2. QED
      BY <1>1, <2>1, <2>3, <3>1
         DEF Honest, TypesKept, Steps, Whereabouts, Unnamed, Told, Whole
  <2>4. QED
    BY <1>2, <2>2, <2>3 DEF Probe
<1>3. CASE ProbeBack
  <2>1. pc = "probeback" /\ at["source"] = None /\ Whole("probe")
    BY <1>3 DEF ProbeBack, Honest, Whereabouts
  <2>2. CASE Refuse(ProbeLeftIn) /\ Unmoved
    BY <1>1, <2>1, <2>2, HonestStop DEF Refuse, ProbeLeftIn, Unmoved
  <2>3. CASE Move("probe", "source") /\ pc' = "copy"
    <3>1. at' \in [Paths -> Node] /\ at'["source"] = at["probe"]
      BY <2>3, Nodes DEF Move, Honest, TypesKept, Paths
    <3>2. QED
      BY <1>1, <2>1, <2>3, <3>1
         DEF Honest, TypesKept, Steps, Whereabouts, Unnamed, Told, Whole
  <2>4. QED
    BY <1>3, <2>2, <2>3 DEF ProbeBack
<1>4. QED
  BY <1>2, <1>3

LEMMA HonestCopy == ASSUME Honest, StartCopy \/ CopyFile \/ CopyDone PROVE Honest'
<1>1. UNCHANGED <<strays, truth>> /\ pc \in {"copy", "copying"} /\ Whole("source")
  BY DEF StartCopy, CopyFile, CopyDone, disk, others, Honest, Whereabouts
<1>2. CASE DiscardAndRefuse /\ UNCHANGED at
  BY <1>1, <1>2, HonestDiscard
<1>3. CASE StartCopy /\ ~(DiscardAndRefuse /\ UNCHANGED at)
  <2>1. /\ at' = [at EXCEPT !["dest"] = Dir(Nothing)] /\ pc' = "copying"
        /\ left' = Present(at["source"].files)
    BY <1>3 DEF StartCopy
  <2>2. at' \in [Paths -> Node] /\ at'["dest"] = Dir(Nothing) /\ at'["source"] = at["source"]
    BY <2>1, Nodes DEF Honest, TypesKept, Paths
  <2>3. left' = Present(truth) /\ at'["dest"].kind = "dir" /\ at'["dest"].files = Nothing
    BY <1>1, <2>1, <2>2, Nodes DEF Whole, Honest, TypesKept
  <2>4. Whereabouts'
    BY <1>1, <2>1, <2>2, <2>3, Nodes DEF Whereabouts, Whole, Present
  <2>5. QED
    BY <1>1, <2>1, <2>2, <2>4 DEF Honest, TypesKept, Steps, Unnamed, Told
<1>4. CASE CopyFile /\ ~(DiscardAndRefuse /\ UNCHANGED at)
  <2>1. PICK f \in left : /\ at' = [at EXCEPT !["dest"].files[f] = at["source"].files[f]]
                          /\ left' = left \ {f} /\ pc' = pc /\ pc = "copying"
    BY <1>4 DEF CopyFile
  <2>2. /\ at["dest"].kind = "dir" /\ left \subseteq Present(truth) /\ f \in Files
        /\ \A g \in Files : at["dest"].files[g] = IF g \in left THEN Absent ELSE truth[g]
    BY <2>1 DEF Honest, Whereabouts, Present
  <2>3. at["source"].files = truth /\ truth \in Content
    BY <1>1, Nodes DEF Whole, Honest, TypesKept
  <2> DEFINE files == [at["dest"].files EXCEPT ![f] = truth[f]]
  <2>4. at["dest"] \in Node /\ at["dest"].files \in Content
    BY DEF Honest, TypesKept, Node, Paths
  <2>5. files \in Content /\ files[f] = truth[f] /\ \A g \in Files \ {f} : files[g] = at["dest"].files[g]
    BY <2>2, <2>3, <2>4 DEF Content
  <2>6. at' = [at EXCEPT !["dest"] = [at["dest"] EXCEPT !.files = files]]
    BY <2>1, <2>3
  <2> HIDE DEF files
  <2>7. [at["dest"] EXCEPT !.files = files] \in Node
    BY <2>4, <2>5 DEF Node
  <2>8. /\ at' \in [Paths -> Node] /\ at'["source"] = at["source"]
        /\ at'["dest"].kind = "dir" /\ at'["dest"].files = files
    BY <2>2, <2>4, <2>6, <2>7 DEF Honest, TypesKept, Paths, Node
  <2>9. Whereabouts'
    BY <1>1, <2>1, <2>2, <2>5, <2>8 DEF Whereabouts, Whole
  <2>10. QED
    BY <1>1, <2>1, <2>8, <2>9 DEF Honest, TypesKept, Unnamed, Told
<1>5. CASE CopyDone /\ pc' = "verify"
  <2>1. /\ at' = at /\ at["dest"].kind = "dir" /\ at["dest"] \in Node
        /\ \A f \in Files : at["dest"].files[f] = truth[f]
    BY <1>5 DEF CopyDone, disk, Honest, TypesKept, Whereabouts, Paths
  <2>2. at["dest"].files = truth
    BY <2>1 DEF Honest, TypesKept, Node, Content
  <2>3. Whole("dest")
    BY <2>1, <2>2 DEF Whole, Dir, Node
  <2>4. QED
    BY <1>1, <1>5, <2>1, <2>3 DEF Honest, TypesKept, Steps, Whereabouts, Unnamed, Told, Whole
<1>6. QED
  BY <1>2, <1>3, <1>4, <1>5 DEF CopyDone, disk

LEMMA HonestVerify == ASSUME Honest, VerifySource \/ VerifyCopy PROVE Honest'
<1>1. /\ UNCHANGED <<at, strays, truth>> /\ pc \in {"verify", "verifycopy"}
      /\ Whole("source") /\ Whole("dest")
  BY DEF VerifySource, VerifyCopy, Measure, disk, others, Honest, Whereabouts
<1>2. CASE DiscardAndRefuse
  BY <1>1, <1>2, HonestDiscard
<1>3. CASE pc' \in {"verifycopy", "swap"}
  BY <1>1, <1>3 DEF Honest, TypesKept, Steps, Whereabouts, Unnamed, Told, Whole
<1>4. QED
  BY <1>2, <1>3 DEF VerifySource, VerifyCopy, Measure

LEMMA HonestSwap == ASSUME Honest, Swap PROVE Honest'
<1>1. UNCHANGED <<strays, truth>> /\ pc = "swap" /\ Whole("source") /\ Whole("dest")
  BY DEF Swap, settled, Honest, Whereabouts
<1>2. CASE DiscardAndRefuse /\ Unmoved
  BY <1>1, <1>2, HonestDiscard DEF Unmoved
<1>3. CASE Move("source", "aside") /\ pc' = AfterSwap
  <2>1. /\ at' \in [Paths -> Node] /\ at'["source"] = None
        /\ at'["aside"] = at["source"] /\ at'["dest"] = at["dest"]
    BY <1>3, Nodes DEF Move, Honest, TypesKept, Paths
  <2>2. QED
    BY <1>1, <1>3, <2>1
       DEF AfterSwap, Honest, TypesKept, Steps, Whereabouts, Unnamed, Told, Whole
<1>4. QED
  BY <1>2, <1>3 DEF Swap

\* The junction is made, or its beginnings taken away, in place of the folder.
LEMMA HonestLink == ASSUME Honest, MakeLinkDir \/ Reparse \/ Unlink PROVE Honest'
<1>1. /\ UNCHANGED <<strays, truth>> /\ pc \in {"mklink", "reparse", "unlink"}
      /\ pc' \in {"reparse", "unlink", "putback", "deleteaside"}
      /\ Whole("aside") /\ Whole("dest") /\ at["source"] \in {None, Dir(Nothing)}
      /\ pc # "mklink" => at["source"] = Dir(Nothing)
  BY DEF MakeLinkDir, Reparse, Unlink, others, Honest, Whereabouts
<1>2. \/ at' = at /\ (pc' = "unlink" => at["source"] = Dir(Nothing)) /\ pc' \in {"unlink", "putback"}
      \/ at' = [at EXCEPT !["source"] = Dir(Nothing)] /\ pc' = "reparse"
      \/ at' = [at EXCEPT !["source"] = Link] /\ pc' = "deleteaside"
      \/ at' = [at EXCEPT !["source"] = None] /\ pc' = "putback"
  BY <1>1 DEF MakeLinkDir, Reparse, Unlink
<1>3. /\ at' \in [Paths -> Node] /\ at'["aside"] = at["aside"] /\ at'["dest"] = at["dest"]
      /\ \/ pc' = "deleteaside" /\ at'["source"] = Link
         \/ pc' \in {"reparse", "unlink"} /\ at'["source"] = Dir(Nothing)
         \/ pc' = "putback" /\ at'["source"] \in {None, Dir(Nothing)}
  BY <1>1, <1>2, Nodes DEF Honest, TypesKept, Paths
<1>4. QED
  BY <1>1, <1>3 DEF Honest, TypesKept, Steps, Whereabouts, Unnamed, Told, Whole

LEMMA HonestPutBack == ASSUME Honest, PutBack PROVE Honest'
<1>1. /\ UNCHANGED <<strays, truth>> /\ pc = "putback" /\ Whole("aside") /\ Whole("dest")
      /\ at["source"] \in {None, Dir(Nothing)}
  BY DEF PutBack, settled, Honest, Whereabouts
<1>2. CASE Move("aside", "source") /\ DiscardAndRefuse
  <2>1. at' \in [Paths -> Node] /\ at'["source"] = at["aside"]
    BY <1>2, Nodes DEF Move, Honest, TypesKept, Paths
  <2>2. QED
    BY <1>1, <1>2, <2>1
       DEF DiscardAndRefuse, Honest, TypesKept, Steps, Whereabouts, Unnamed, Told, Whole
<1>3. CASE Unmoved /\ pc' = AfterLostOriginal /\ named' = {"aside", "dest"}
  <2>1. at["dest"].kind = "dir" /\ at["aside"] # None
    BY <1>1, Nodes DEF Whole, Honest, TypesKept
  <2>2. QED
    BY <1>1, <1>3, <2>1, HonestStop DEF AfterLostOriginal, Unmoved, HalfMade
<1>4. QED
  BY <1>2, <1>3 DEF PutBack

LEMMA HonestDelete == ASSUME Honest, DeleteAside \/ Discard PROVE Honest'
<1>1. UNCHANGED <<at, strays, truth>>
  BY DEF DeleteAside, Discard, disk, others
<1>2. CASE DeleteAside /\ pc' = "idle"
  BY <1>1, <1>2, HonestStop DEF DeleteAside, OpenForDelete, Honest, Whereabouts
<1>3. CASE Discard /\ pc' = "idle"
  BY <1>1, <1>3, HonestStop DEF Discard, told, Honest, Whereabouts, Unnamed
<1>4. CASE DeleteAside /\ OpenForDelete("aside")
  BY <1>1, <1>4
     DEF DeleteAside, OpenForDelete, Honest, TypesKept, Steps, Whereabouts, Unnamed, Told, Whole
<1>5. CASE Discard /\ OpenForDelete("dest")
  BY <1>1, <1>5
     DEF Discard, OpenForDelete, told, Honest, TypesKept, Steps, Whereabouts, Unnamed, Told, Whole
<1>6. QED
  BY <1>2, <1>3, <1>4, <1>5 DEF DeleteAside, Discard

LEMMA HonestSweepFile == ASSUME Honest, SweepFile PROVE Honest'
<1>1. /\ pc = "sweep" /\ UNCHANGED <<strays, pc, victim, named>>
      /\ left \subseteq Present(at[victim].files)
      /\ \/ victim = "source" /\ (Whole("source") \/ (HalfMade /\ strays # {}))
         \/ victim = "dest" /\ Whole("source")
         \/ victim = "aside" /\ at["source"] = Link
  BY DEF SweepFile, told, Honest, Whereabouts
<1>2. PICK f \in left :
        /\ left' = left \ {f}
        /\ \/ /\ at' = [at EXCEPT ![victim].files[f] = Absent]
              /\ truth' = IF victim = "source" THEN [truth EXCEPT ![f] = Absent] ELSE truth
           \/ UNCHANGED <<at, truth>>
  BY <1>1 DEF SweepFile
<1>3. CASE UNCHANGED <<at, truth>>
  BY <1>1, <1>2, <1>3 DEF Honest, TypesKept, Whereabouts, Unnamed, Told, Whole, HalfMade
<1>4. CASE /\ at' = [at EXCEPT ![victim].files[f] = Absent]
           /\ truth' = IF victim = "source" THEN [truth EXCEPT ![f] = Absent] ELSE truth
  <2> DEFINE files == [at[victim].files EXCEPT ![f] = Absent]
  <2>1. /\ victim \in Paths /\ at[victim] \in Node /\ at[victim].files \in Content
        /\ f \in Files /\ at[victim].files[f] # Absent /\ truth \in Content
    BY <1>1, <1>2 DEF Honest, TypesKept, Node, Paths, Present
  <2>2. files \in Content /\ files[f] = Absent /\ \A g \in Files \ {f} : files[g] = at[victim].files[g]
    BY <2>1 DEF Content
  <2>3. at' = [at EXCEPT ![victim] = [at[victim] EXCEPT !.files = files]]
    BY <1>4
  <2>4. at[victim].files = truth => files = [truth EXCEPT ![f] = Absent]
    OBVIOUS
  <2> HIDE DEF files
  <2>5. [at[victim] EXCEPT !.files = files] \in Node
    BY <2>1, <2>2 DEF Node
  <2>6. /\ at' \in [Paths -> Node] /\ \A p \in Paths \ {victim} : at'[p] = at[p]
        /\ at'[victim].kind = at[victim].kind /\ at'[victim].files = files /\ at'[victim] \in Node
    BY <2>1, <2>3, <2>5 DEF Honest, TypesKept, Node
  <2>7. truth' \in Content
    BY <1>4, <2>1 DEF Content
  <2>8. left' \subseteq Present(at'[victim].files)
    BY <1>1, <1>2, <2>1, <2>2, <2>6 DEF Present
  <2>9. CASE victim = "source"
    <3>1. Whole("source")
      <4>1. at["source"] # Dir(Nothing)
        BY <2>1, <2>9, Nodes
      <4>2. QED
        BY <1>1, <2>9, <4>1 DEF HalfMade
    <3>2. at["source"].kind = "dir" /\ at["source"].files = truth
      BY <2>1, <3>1, Nodes DEF Whole
    <3>3. at'["source"].kind = "dir" /\ at'["source"].files = truth' /\ at'["source"] \in Node
      BY <1>4, <2>4, <2>6, <2>9, <3>2
    <3>4. Whole("source")'
      BY <3>3 DEF Whole, Dir, Node
    <3>5. QED
      BY <1>1, <2>6, <2>7, <2>8, <2>9, <3>4 DEF Honest, TypesKept, Steps, Whereabouts, Unnamed, Told
  <2>10. CASE victim # "source"
    <3>1. at'["source"] = at["source"] /\ truth' = truth
      BY <1>4, <2>6, <2>10 DEF Paths
    <3>2. QED
      BY <1>1, <2>6, <2>7, <2>8, <2>10, <3>1 DEF Honest, TypesKept, Steps, Whereabouts, Unnamed, Told, Whole
  <2>11. QED
    BY <2>9, <2>10
<1>5. QED
  BY <1>2, <1>3, <1>4

LEMMA HonestSweepRoot == ASSUME Honest, SweepRoot PROVE Honest'
<1>1. /\ pc = "sweep" /\ pc' = "idle" /\ UNCHANGED <<strays, truth>>
      /\ \/ victim = "source" /\ (Whole("source") \/ (HalfMade /\ strays # {}))
         \/ victim = "dest" /\ Whole("source")
         \/ victim = "aside" /\ at["source"] = Link
      /\ victim = "dest" => named' = {}
      /\ victim # "dest" => result' # "refused"
      /\ at' = at \/ at' = [at EXCEPT ![victim] = None]
  BY DEF SweepRoot, told, Honest, Whereabouts, Unnamed
<1>2. /\ at' \in [Paths -> Node] /\ \A p \in Paths \ {victim} : at'[p] = at[p]
      /\ at'[victim] \in {None, at[victim]}
  BY <1>1, Nodes DEF Honest, TypesKept, Paths
<1>3. CASE victim = "source"
  BY <1>1, <1>2, <1>3 DEF Honest, TypesKept, Steps, Whereabouts, Unnamed, Told, Whole, HalfMade, Paths
<1>4. CASE victim # "source"
  <2>1. at'["source"] = at["source"]
    BY <1>2, <1>4 DEF Paths
  <2>2. QED
    BY <1>1, <1>2, <1>4, <2>1 DEF Honest, TypesKept, Steps, Whereabouts, Unnamed, Told, Whole
<1>5. QED
  BY <1>3, <1>4

LEMMA HonestOthers == ASSUME Honest, OtherHolds \/ OtherCloses \/ OtherCreates PROVE Honest'
<1>1. UNCHANGED <<strays, truth, pc, job, told>>
  BY DEF OtherHolds, OtherCloses, OtherCreates, disk
<1>2. CASE at' = at
  BY <1>1, <1>2
     DEF job, told, Honest, TypesKept, Whereabouts, Unnamed, Told, Whole, HalfMade
<1>3. CASE OtherCreates
  <2>1. /\ pc \notin {"idle", "deleteaside", "sweep"} /\ at["dest"] = None
        /\ \E files \in Content : at' = [at EXCEPT !["dest"] = Dir(files)]
    BY <1>3 DEF OtherCreates
  <2>2. at' \in [Paths -> Node] /\ \A p \in Paths \ {"dest"} : at'[p] = at[p]
    BY <2>1, Nodes DEF Honest, TypesKept, Paths
  <2>3. at["dest"].kind # "dir" /\ ~Whole("dest")
    BY <2>1, Nodes DEF Whole, Honest, TypesKept
  <2>4. Whereabouts'
    BY <1>1, <2>1, <2>2, <2>3 DEF job, Honest, Whereabouts, Whole, HalfMade, Paths
  <2>5. QED
    BY <1>1, <2>1, <2>2, <2>4 DEF job, told, Honest, TypesKept, Unnamed, Told
<1>4. QED
  BY <1>2, <1>3 DEF OtherHolds, OtherCloses, disk

LEMMA HonestStep == ASSUME HonestInv, [Next]_vars PROVE HonestInv'
<1>1. CASE OtherWrites \/ OtherRemoves
  BY <1>1 DEF OtherWrites, OtherRemoves, HonestInv
<1>2. CASE UNCHANGED vars
  BY <1>2
     DEF vars, HonestInv, Honest, TypesKept, Whereabouts, Unnamed, Told, Whole, HalfMade
<1>3. CASE Next /\ ~(OtherWrites \/ OtherRemoves)
  <2>1. writes' = writes
    BY <1>3
       DEF Next, Plan, Cancel, Recheck, SweepFile, SweepRoot, Probe, ProbeBack, StartCopy,
           CopyFile, CopyDone, VerifySource, VerifyCopy, Measure, Swap, MakeLinkDir, Reparse,
           Unlink, PutBack, DeleteAside, Discard, Crash, OtherHolds, OtherCloses,
           OtherCreates, counts
  <2> SUFFICES ASSUME Honest PROVE Honest'
    BY <2>1 DEF HonestInv
  <2>3. CASE \E act \in {"MOVE", "DELETE"} : Plan(act)
    BY <2>3, HonestPlan
  <2>4. CASE Cancel \/ Recheck \/ SweepFile \/ SweepRoot \/ Probe \/ ProbeBack
    BY <2>4, HonestCancel, HonestSweepFile, HonestSweepRoot, HonestProbe
  <2>5. CASE StartCopy \/ CopyFile \/ CopyDone \/ VerifySource \/ VerifyCopy \/ Swap
    BY <2>5, HonestCopy, HonestVerify, HonestSwap
  <2>6. CASE MakeLinkDir \/ Reparse \/ Unlink \/ PutBack \/ DeleteAside \/ Discard
    BY <2>6, HonestLink, HonestPutBack, HonestDelete
  <2>7. CASE Crash \/ OtherHolds \/ OtherCloses \/ OtherCreates
    BY <2>7, HonestCrash, HonestOthers
  <2>8. QED
    BY <1>3, <2>3, <2>4, <2>5, <2>6, <2>7 DEF Next
<1>4. QED
  BY <1>1, <1>2, <1>3

\* Whatever call fails and wherever the power goes, with others opening and closing
\* files and racing for the destination: after a refusal the folder is whole under its
\* own name, or in each place the message names (folder_ops._move, _probe_unused).
THEOREM RefusalAlwaysHonest == Spec => []RefusalHonest
<1>1. HonestInv => RefusalHonest
  BY DEF HonestInv, Honest, Told, Whole, RefusalHonest
<1>2. QED
  BY HonestInit, HonestStep, <1>1, PTL DEF Spec
=============================================================================
