------------------------- MODULE FieldOutput_proofs -------------------------
(***************************************************************************)
(* For any number of runs in a directory, killed anywhere, and any number  *)
(* of refused writes: what an index that can be read refers to.            *)
(***************************************************************************)
EXTENDS FieldOutput, SequenceTheorems, TLAPS

Data(i, n) == <<Names[i], n>>

(* Files have names of their own. *)
LEMMA FilesApart ==
  /\ Index \in Files
  /\ \A k \in 1 .. 3 : Geometry[k] \in Files /\ Geometry[k] # Index
  /\ \A i \in 1 .. 2, n \in 0 .. LastStep :
       /\ Data(i, n) \in Files /\ Data(i, n) # Index
       /\ \A k \in 1 .. 3 : Data(i, n) # Geometry[k]
       /\ \A j \in 1 .. 2, m \in Nat : Data(i, n) = Data(j, m) => i = j /\ n = m
BY DEF Files, Index, Geometry, Data, Names

-----------------------------------------------------------------------------
(* A call of write has nine points: before each of the operations of dump  *)
(* 0, and after the last.  A later dump skips the first, which makes the   *)
(* index, and those of the geometry.                                       *)
Point(k) == IF Dump = 0 THEN k ELSE IF k <= 2 THEN k + 1 ELSE k + 4
After(q) == IF Dump > 0 /\ q = 3 THEN 7 ELSE q + 1
Operation(q) ==
  CASE q = 1 -> Save(Index)
    [] q = 2 -> Load
    [] q = 3 -> Save(Index)
    [] q = 4 -> Save(Geometry[1])
    [] q = 5 -> Save(Geometry[2])
    [] q = 6 -> Save(Geometry[3])
    [] q = 7 -> Save(Data(1, Dump))
    [] OTHER -> Save(Data(2, Dump))

At(q) ==
  \E k \in 1 .. Len(Plan(Dump)) + 1 :
    q = Point(k) /\ todo = SubSeq(Plan(Dump), k, Len(Plan(Dump)))

(* Writing out the concatenation of two short sequences. *)
LEMMA ConcatTwo ==
  ASSUME NEW x, NEW y, NEW u, NEW v
  PROVE  <<x, y>> \o <<u, v>> = <<x, y, u, v>>
<1> DEFINE S == {x, y, u, v}
<1>1. <<x, y>> \in Seq(S) /\ <<u, v>> \in Seq(S) /\ <<x, y, u, v>> \in Seq(S)
  OBVIOUS
<1> HIDE DEF S
<1>2. /\ <<x, y>> \o <<u, v>> \in Seq(S) /\ Len(<<x, y>> \o <<u, v>>) = 4
      /\ \A i \in 1 .. 4 : (<<x, y>> \o <<u, v>>)[i] = IF i <= 2 THEN <<x, y>>[i] ELSE <<u, v>>[i - 2]
  BY <1>1, ConcatProperties
<1>3. \A i \in 1 .. 4 : (<<x, y>> \o <<u, v>>)[i] = <<x, y, u, v>>[i]
  BY <1>2
<1>4. Len(<<x, y, u, v>>) = 4
  OBVIOUS
<1> QED
  BY <1>1, <1>2, <1>3, <1>4, SeqEqual

(* The elements of a concatenation of sequences of lengths 3 and 3. *)
LEMMA ConcatThreeThree ==
  ASSUME NEW S, NEW s \in Seq(S), NEW t \in Seq(S), Len(s) = 3, Len(t) = 3
  PROVE  /\ s \o t \in Seq(S) /\ Len(s \o t) = 6
         /\ \A k \in 1 .. 3 : (s \o t)[k] = s[k]
         /\ \A k \in 4 .. 6 : (s \o t)[k] = t[k - 3]
<1>1. /\ s \o t \in Seq(S) /\ Len(s \o t) = Len(s) + Len(t)
      /\ \A k \in 1 .. Len(s) + Len(t) :
           (s \o t)[k] = IF k <= Len(s) THEN s[k] ELSE t[k - Len(s)]
  BY ConcatProperties
<1>2. Len(s) + Len(t) = 6 /\ Len(s) = 3
  OBVIOUS
<1>3. \A k \in 1 .. 6 : (s \o t)[k] = IF k <= 3 THEN s[k] ELSE t[k - 3]
  BY <1>1, <1>2
<1> QED
  BY <1>1, <1>2, <1>3

(* The elements of a concatenation of sequences of lengths 6 and 2. *)
LEMMA ConcatSixTwo ==
  ASSUME NEW S, NEW s \in Seq(S), NEW t \in Seq(S), Len(s) = 6, Len(t) = 2
  PROVE  /\ s \o t \in Seq(S) /\ Len(s \o t) = 8
         /\ \A k \in 1 .. 6 : (s \o t)[k] = s[k]
         /\ \A k \in 7 .. 8 : (s \o t)[k] = t[k - 6]
<1>1. /\ s \o t \in Seq(S) /\ Len(s \o t) = Len(s) + Len(t)
      /\ \A k \in 1 .. Len(s) + Len(t) :
           (s \o t)[k] = IF k <= Len(s) THEN s[k] ELSE t[k - Len(s)]
  BY ConcatProperties
<1>2. Len(s) + Len(t) = 8 /\ Len(s) = 6
  OBVIOUS
<1>3. \A k \in 1 .. 8 : (s \o t)[k] = IF k <= 6 THEN s[k] ELSE t[k - 6]
  BY <1>1, <1>2
<1> QED
  BY <1>1, <1>2, <1>3

(* The operations of a call. *)
LEMMA Plans ==
  /\ Dump = 0 => /\ Len(Plan(Dump)) = 8
                 /\ \A k \in 1 .. 8 : Plan(Dump)[k] = Operation(k)
  /\ Dump # 0 => /\ Len(Plan(Dump)) = 4
                 /\ Plan(Dump) = <<Load, Save(Index), Save(Data(1, Dump)), Save(Data(2, Dump))>>
  /\ Plan(Dump) \in Seq({Operation(q) : q \in 1 .. 8})
<1> DEFINE S == {Operation(q) : q \in 1 .. 8}
<1>0. /\ Operation(1) = Save(Index) /\ Operation(2) = Load /\ Operation(3) = Save(Index)
      /\ Operation(4) = Save(Geometry[1]) /\ Operation(5) = Save(Geometry[2])
      /\ Operation(6) = Save(Geometry[3])
      /\ Operation(7) = Save(Data(1, Dump)) /\ Operation(8) = Save(Data(2, Dump))
  BY DEF Operation
<1>1. /\ Saves(Geometry) = <<Operation(4), Operation(5), Operation(6)>>
      /\ Saves(DataFiles(Dump)) = <<Operation(7), Operation(8)>>
  BY <1>0 DEF Saves, Geometry, DataFiles, Names, Data
<1>2. /\ <<>> \in Seq(S) /\ <<Operation(1)>> \in Seq(S)
      /\ <<Operation(2), Operation(3)>> \in Seq(S)
      /\ <<Operation(4), Operation(5), Operation(6)>> \in Seq(S)
      /\ <<Operation(7), Operation(8)>> \in Seq(S)
  <2>1. \A q \in 1 .. 8 : Operation(q) \in S
    OBVIOUS
  <2> HIDE DEF S
  <2> QED
    BY <2>1
<1> HIDE DEF S
<1>3. CASE Dump = 0
  <2> DEFINE a == <<Operation(1)>> \o <<Operation(2), Operation(3)>>
             b == a \o <<Operation(4), Operation(5), Operation(6)>>
  <2>1. Plan(Dump) = b \o <<Operation(7), Operation(8)>>
    BY <1>0, <1>1, <1>3 DEF Plan
  <2>2. a \in Seq(S) /\ Len(a) = 3 /\ \A k \in 1 .. 3 : a[k] = Operation(k)
    BY <1>2, ConcatProperties
  <2> HIDE DEF a
  <2>3. b \in Seq(S) /\ Len(b) = 6 /\ \A k \in 1 .. 6 : b[k] = Operation(k)
    <3>1. /\ b \in Seq(S) /\ Len(b) = 6
          /\ \A k \in 1 .. 6 : b[k] = IF k <= 3 THEN a[k]
                                   ELSE <<Operation(4), Operation(5), Operation(6)>>[k - 3]
      <4> DEFINE t == <<Operation(4), Operation(5), Operation(6)>>
      <4>1. t \in Seq(S) /\ Len(t) = 3
        BY <1>2
      <4> HIDE DEF t
      <4>2. b = a \o t
        BY DEF t
      <4> HIDE DEF b
      <4>3. b \in Seq(S) /\ Len(b) = 6 /\ \A k \in 1 .. 6 : (k <= 3 => b[k] = a[k]) /\ (k > 3 => b[k] = t[k - 3])
        <5>1. a \in Seq(S) /\ Len(a) = 3
          BY <2>2
        <5>2. a \o t \in Seq(S)
          BY <4>1, <5>1, ConcatThreeThree
        <5>3. Len(a \o t) = 6
          BY <4>1, <5>1, ConcatThreeThree
        <5>4. \A k \in 1 .. 3 : (a \o t)[k] = a[k]
          BY <4>1, <5>1, ConcatThreeThree
        <5>5. \A k \in 4 .. 6 : (a \o t)[k] = t[k - 3]
          BY <4>1, <5>1, ConcatThreeThree
        <5> QED
          BY <4>2, <5>2, <5>3, <5>4, <5>5
      <4> QED
        BY <4>3 DEF t
    <3>2. \A k \in 4 .. 6 : <<Operation(4), Operation(5), Operation(6)>>[k - 3] = Operation(k)
      OBVIOUS
    <3> QED
      BY <2>2, <3>1, <3>2
  <2> HIDE DEF b
  <2>4. /\ Plan(Dump) \in Seq(S) /\ Len(Plan(Dump)) = 8
        /\ \A k \in 1 .. 8 : Plan(Dump)[k] = IF k <= 6 THEN b[k]
                                          ELSE <<Operation(7), Operation(8)>>[k - 6]
    <3> DEFINE t == <<Operation(7), Operation(8)>>
    <3>1. t \in Seq(S) /\ Len(t) = 2
      BY <1>2
    <3>2. Plan(Dump) = b \o t
      BY <2>1
    <3> HIDE DEF t
    <3>3. b \o t \in Seq(S) /\ Len(b \o t) = 8
          /\ \A k \in 1 .. 8 : (b \o t)[k] = IF k <= 6 THEN b[k] ELSE t[k - 6]
      <4>1. b \in Seq(S) /\ Len(b) = 6
        BY <2>3
      <4>2. b \o t \in Seq(S)
        BY <3>1, <4>1, ConcatSixTwo
      <4>3. Len(b \o t) = 8
        BY <3>1, <4>1, ConcatSixTwo
      <4>4. \A k \in 1 .. 6 : (b \o t)[k] = b[k]
        BY <3>1, <4>1, ConcatSixTwo
      <4>5. \A k \in 7 .. 8 : (b \o t)[k] = t[k - 6]
        BY <3>1, <4>1, ConcatSixTwo
      <4> QED
        <5>1. \A k \in 1 .. 8 : k <= 6 => k \in 1 .. 6
          OBVIOUS
        <5>2. \A k \in 1 .. 8 : ~(k <= 6) => k \in 7 .. 8
          OBVIOUS
        <5>3. \A k \in 1 .. 8 : (b \o t)[k] = IF k <= 6 THEN b[k] ELSE t[k - 6]
          BY <4>4, <4>5, <5>1, <5>2
        <5> QED
          BY <4>2, <4>3, <5>3
    <3> QED
      BY <3>2, <3>3 DEF t
  <2>5. \A k \in 7 .. 8 : <<Operation(7), Operation(8)>>[k - 6] = Operation(k)
    OBVIOUS
  <2> QED
    BY <1>3, <2>3, <2>4, <2>5 DEF S
<1>4. CASE Dump # 0
  <2>1. Plan(Dump) = ((<<>> \o <<Operation(2), Operation(3)>>) \o <<>>) \o <<Operation(7), Operation(8)>>
    BY <1>0, <1>1, <1>4 DEF Plan
  <2>2. Plan(Dump) = <<Operation(2), Operation(3), Operation(7), Operation(8)>>
    BY <1>2, <2>1, ConcatEmptySeq, ConcatTwo
  <2>3. \A q \in 1 .. 8 : Operation(q) \in S
    BY DEF S
  <2> QED
    BY <1>0, <1>4, <2>2, <2>3 DEF S
<1> QED
  BY <1>3, <1>4
(* A call starts at its first point. *)
LEMMA CallStarts ==
  ASSUME Dump \in Nat, todo' = Plan(Dump), Dump' = Dump
  PROVE  At(IF Dump = 0 THEN 1 ELSE 2)'
<1>1. Plan(Dump)' = Plan(Dump)
  BY DEF Plan, Saves, Save, Load, Geometry, DataFiles, Index, Names
<1>2. Plan(Dump) = SubSeq(Plan(Dump), 1, Len(Plan(Dump)))
  BY Plans, SubSeqFull
<1>3. 1 \in 1 .. Len(Plan(Dump)) + 1
  BY Plans
<1> QED
  BY <1>1, <1>2, <1>3 DEF At, Point

(* Each operation takes the call to its next point. *)
LEMMA CallGoesOn ==
  ASSUME Dump \in Nat, NEW q \in 1 .. 9, At(q)
  PROVE  /\ q # 9 => /\ todo # <<>> /\ Head(todo) = Operation(q)
                     /\ After(q) \in 1 .. 9
                     /\ todo' = Tail(todo) /\ Dump' = Dump => At(After(q))'
         /\ q = 9 => todo = <<>>
         /\ todo' = todo /\ Dump' = Dump => At(q)'
<1> DEFINE p == Plan(Dump)
           n == Len(p)
           S == {Operation(r) : r \in 1 .. 8}
<1>1. PICK k \in 1 .. n + 1 : q = Point(k) /\ todo = SubSeq(p, k, n)
  BY DEF At
<1>2. Dump' = Dump => Plan(Dump)' = Plan(Dump)
  BY DEF Plan, Saves, Save, Load, Geometry, DataFiles, Index, Names
<1>3. /\ n = IF Dump = 0 THEN 8 ELSE 4
      /\ p \in Seq(S)
  BY Plans
<1>4. k \in 1 .. 9 /\ (q = 9 <=> k = n + 1)
  BY <1>1, <1>3 DEF Point
<1>5. q # 9 => p[k] = Operation(q) /\ After(q) \in 1 .. 9 /\ After(q) = Point(k + 1)
  <2>1. CASE Dump = 0
    BY <1>1, <1>3, <1>4, <2>1, Plans DEF Point, After
  <2>2. CASE Dump # 0
    BY <1>1, <1>3, <1>4, <2>2, Plans DEF Point, After, Operation
  <2> QED
    BY <2>1, <2>2
<1> HIDE DEF S, p
<1>6. CASE q # 9
  <2>1. k \in 1 .. n /\ n \in k .. n /\ n \in Nat /\ k + 1 \in 1 .. n + 1
    BY <1>1, <1>3, <1>4, <1>6
  <2>2. Head(todo) = p[k] /\ Tail(todo) = SubSeq(p, k + 1, n)
    BY <1>1, <1>3, <2>1, HeadTailOfSubSeq
  <2>3. todo # <<>>
    <3>1. \A i \in k .. n : p[i] \in S
      BY <1>3, <2>1
    <3>2. Len(todo) = n - k + 1
      BY <1>1, <1>3, <2>1, <3>1, SubSeqProperties
    <3> QED
      BY <2>1, <3>2
  <2>4. ASSUME todo' = Tail(todo), Dump' = Dump
        PROVE  At(After(q))'
    <3>1. After(q)' = Point(k + 1)'
      BY <1>5, <1>6, <2>4 DEF After, Point
    <3>2. todo' = SubSeq(Plan(Dump)', k + 1, Len(Plan(Dump)'))
      BY <1>2, <2>2, <2>4 DEF p
    <3>3. k + 1 \in 1 .. Len(Plan(Dump)') + 1
      BY <1>2, <2>1, <2>4 DEF p
    <3> QED
      BY <3>1, <3>2, <3>3 DEF At
  <2>5. ASSUME todo' = todo, Dump' = Dump
        PROVE  At(q)'
    BY <1>1, <1>2, <2>5 DEF At, p, Point
  <2> QED
    BY <1>5, <1>6, <2>2, <2>3, <2>4, <2>5
<1>7. CASE q = 9
  <2>1. n < k /\ k \in Int /\ n \in Int
    BY <1>3, <1>4, <1>7
  <2>2. todo = <<>>
    BY <1>1, <2>1, SubSeqEmpty
  <2> QED
    BY <1>1, <1>2, <1>7, <2>2 DEF At, p, Point
<1> QED
  BY <1>6, <1>7
(* The index is saved twice in dump 0: as a header, and reloaded with one  *)
(* grid more.                                                              *)
LEMMA IndexContents ==
  ASSUME Dump \in Nat, NEW q \in {1, 3}, At(q)
  PROVE  Contents(Index) = IF q = 1 THEN Whole(<<>>) ELSE doc
<1> DEFINE p == Plan(Dump)
           n == Len(p)
           S == {Operation(r) : r \in 1 .. 8}
<1>1. PICK k \in 1 .. n + 1 : q = Point(k) /\ todo = SubSeq(p, k, n)
  BY DEF At
<1>2. /\ n = IF Dump = 0 THEN 8 ELSE 4
      /\ p \in Seq(S)
  BY Plans
<1>3. k \in Nat /\ k + 1 \in 1 .. n /\ n \in Nat
  BY <1>1, <1>2 DEF Point
<1>4. p[k + 1] = Operation(After(q))
  <2>1. CASE Dump = 0
    <3>1. k = q
      BY <1>1, <2>1 DEF Point
    <3> QED
      BY <2>1, <3>1, Plans DEF After
  <2>2. CASE Dump # 0
    <3>1. q = 3 /\ k = 2
      BY <1>1, <1>3, <2>2 DEF Point
    <3> QED
      BY <2>2, <3>1, Plans DEF After, Operation
  <2> QED
    BY <2>1, <2>2
<1> HIDE DEF S, p
<1>5. Len(todo) = n - k + 1 /\ todo[2] = p[k + 1]
  <2>1. \A i \in k .. n : p[i] \in S
    BY <1>2, <1>3
  <2>2. Len(SubSeq(p, k, n)) = n - k + 1
    BY <1>3, <2>1, SubSeqProperties
  <2>3. \A i \in 1 .. n - k + 1 : SubSeq(p, k, n)[i] = p[k + i - 1]
    BY <1>3, <2>1, SubSeqProperties
  <2>4. 2 \in 1 .. n - k + 1 /\ k + 2 - 1 = k + 1
    BY <1>3
  <2> QED
    BY <1>1, <2>2, <2>3, <2>4
<1>6. Len(todo) > 1 /\ todo[2] = Operation(After(q))
  BY <1>3, <1>4, <1>5
<1>7. Load.do = "load" /\ \A f : Save(f).do = "save"
  BY DEF Load, Save
<1>8. CASE q = 1
  BY <1>6, <1>7, <1>8 DEF Contents, Operation, After
<1>9. CASE q = 3
  BY <1>6, <1>7, <1>9 DEF Contents, Operation, After
<1> QED
  BY <1>8, <1>9

-----------------------------------------------------------------------------
(* The files of a grid are on disk, written by run r. *)
GeometryOf(dk, r, k) == dk[Geometry[k]].whole /\ dk[Geometry[k]].run = r
DataOf(dk, r, i, n, s) ==
  dk[Data(i, n)] = [run |-> r, step |-> s, whole |-> TRUE, grids |-> <<>>]
Shown(dk, r, g) ==
  /\ \A i \in 1 .. 2 : DataOf(dk, r, i, g[1], g[2])
  /\ \A k \in 1 .. 3 : GeometryOf(dk, r, k)

(* Document d is an index of run r with n grids, the first m of which are  *)
(* shown.                                                                  *)
Lists(dk, r, d, n, m) ==
  /\ d.whole /\ d.run = r /\ Len(d.grids) = n
  /\ \A i \in 1 .. n : d.grids[i][1] = i - 1
  /\ \A i \in 1 .. m : Shown(dk, r, d.grids[i])
Listed(n, m) == Lists(disk, run, disk[Index], n, m)

(* What a call that no write has failed in has done at each point. *)
Done(q) ==
  /\ q = 1 => Dump = 0 /\ (opened => ~disk[Index].whole)
  /\ q = 2 => Listed(Dump, Dump)
  /\ q = 3 => /\ Lists(disk, run, doc, Dump + 1, Dump)
              /\ doc.grids[Dump + 1] = <<Dump, ctrl.step>>
              /\ opened => ~disk[Index].whole
              /\ ~opened => Listed(Dump, Dump)
  /\ q >= 4 => /\ Listed(Dump + 1, Dump)
               /\ disk[Index].grids[Dump + 1] = <<Dump, ctrl.step>>
               /\ \A k \in 1 .. 3 : k + 3 < q => GeometryOf(disk, run, k)
               /\ \A i \in 1 .. 2 : i + 6 < q => DataOf(disk, run, i, Dump, ctrl.step)

Document == [run : Nat, step : Nat, whole : BOOLEAN, grids : Seq(Nat \X Nat)]

OutType ==
  /\ run \in Nat \ {0} /\ ctrl.step \in Nat /\ Dump \in Nat /\ Dump <= ctrl.step
  /\ pc \in {"idle", "writing", "over", "killed", "terminated"}
  /\ opened \in BOOLEAN
  /\ disk \in [Files -> Document] /\ doc \in Document
  /\ disk[Index].run <= run /\ doc.run <= run
  /\ \A f \in failed : f.run \in Nat /\ f.run <= run
  /\ pc = "writing" => ctrl.step <= LastStep
  /\ pc # "writing" => todo = <<>>
  /\ opened => Saving

InCall == pc = "writing" => \E q \in 1 .. 9 : At(q) /\ (Clean(run) => Done(q))
Between == pc \in {"idle", "over"} /\ Clean(run) /\ Dump > 0 => Listed(Dump, Dump)

OutInv == OutType /\ OnlyTailIncomplete /\ InCall /\ Between

(* An index of the current run that lists shown grids, all but the last,   *)
(* is as OnlyTailIncomplete says; the index of an earlier run with refused *)
(* writes since is not spoken of.                                          *)
LEMMA ListsTail ==
  ASSUME OutType',
         (disk[Index].whole /\ Clean(run))' =>
           \E n, m \in Nat : n <= m + 1 /\ Lists(disk', run', disk'[Index], n, m)
  PROVE  OnlyTailIncomplete'
<1>1. SUFFICES ASSUME disk'[Index].whole, Clean(disk[Index].run)',
                      NEW i \in 1 .. Len(disk'[Index].grids) - 1
               PROVE  OnDisk(disk[Index].grids[i])'
  BY DEF OnlyTailIncomplete
<1>2. Clean(run)'
  <2>1. disk'[Index] \in Document /\ disk'[Index].run <= run'
    BY FilesApart DEF OutType
  <2>2. ASSUME NEW f \in failed' PROVE f.run < run'
    <3>1. f.run < disk'[Index].run /\ f.run \in Nat
      BY <1>1, <2>2 DEF Clean, OutType
    <3>2. run' \in Nat /\ disk'[Index].run \in Nat
      BY <2>1 DEF OutType, Document
    <3> QED
      BY <2>1, <3>1, <3>2
  <2> QED
    BY <2>2 DEF Clean
<1>3. PICK n, m \in Nat : n <= m + 1 /\ Lists(disk', run', disk'[Index], n, m)
  BY <1>1, <1>2
<1>4. i \in 1 .. m
  BY <1>1, <1>3 DEF Lists
<1>5. Shown(disk', run', disk'[Index].grids[i]) /\ disk'[Index].run = run'
  BY <1>3, <1>4 DEF Lists
<1>6. Len(Names) = 2
  BY DEF Names
<1> QED
  BY <1>5, <1>6 DEF Shown, OnDisk, GeometryOf, DataOf, Data

(* Writing the index, the data of the dump that is being written, or       *)
(* anything in the first dump, spoils no grid that is shown.               *)
LEMMA KeepLists ==
  ASSUME NEW dk \in [Files -> Document], NEW f \in Files, NEW c, NEW r, NEW d,
         NEW now \in 0 .. LastStep, NEW n \in Nat, NEW m \in 0 .. now, m <= n,
         Lists(dk, r, d, n, m),
         f \in {Index, Data(1, now), Data(2, now)} \/ m = 0
  PROVE  Lists([dk EXCEPT ![f] = c], r, d, n, m)
<1> DEFINE e == [dk EXCEPT ![f] = c]
<1>1. \A x \in Files : x # f => e[x] = dk[x]
  OBVIOUS
<1> HIDE DEF e
<1>2. ASSUME NEW i \in 1 .. m PROVE Shown(e, r, d.grids[i])
  <2>1. d.grids[i][1] = i - 1 /\ i - 1 \in 0 .. LastStep /\ i - 1 < now /\ i - 1 # now
    <3>1. i \in 1 .. n /\ i \in 1 .. now /\ now \in 0 .. LastStep /\ LastStep \in Nat
      BY <1>2, FieldOutputAssumption
    <3> QED
      BY <3>1 DEF Lists
  <2>2. f \in {Index, Data(1, now), Data(2, now)}
    BY <1>2
  <2>3. /\ \A j \in 1 .. 2 : Data(j, i - 1) \in Files /\ Data(j, i - 1) # f
        /\ \A k \in 1 .. 3 : Geometry[k] \in Files /\ Geometry[k] # f
    <3>1. /\ \A j \in 1 .. 2 : Data(j, i - 1) \in Files /\ Data(j, i - 1) # Index
          /\ \A k \in 1 .. 3 : Geometry[k] \in Files /\ Geometry[k] # Index
      BY <2>1, FilesApart
    <3>2. \A j, l \in 1 .. 2 : Data(j, i - 1) # Data(l, now)
      BY <2>1, FilesApart
    <3>3. \A k \in 1 .. 3, l \in 1 .. 2 : Geometry[k] # Data(l, now)
      BY FilesApart
    <3> QED
      BY <2>2, <3>1, <3>2, <3>3
  <2>4. Shown(dk, r, d.grids[i])
    BY <1>2 DEF Lists
  <2> QED
    BY <1>1, <2>1, <2>3, <2>4 DEF Shown, DataOf, GeometryOf
<1> QED
  BY <1>2 DEF Lists, e

-----------------------------------------------------------------------------
(* Where a call is when it is about to save or is saving a file. *)
Target(q) ==
  IF q \in {1, 3} THEN Index ELSE IF q \in 4 .. 6 THEN Geometry[q - 3] ELSE Data(q - 6, Dump)

(* While a file is saved the call is at the save of that file.             *)
LEMMA SavingAt ==
  ASSUME OutType, Saving, NEW q \in 1 .. 9, At(q)
  PROVE  /\ pc = "writing" /\ Dump \in 0 .. LastStep
         /\ q \in {1, 3, 4, 5, 6, 7, 8}
         /\ q \in {1, 4, 5, 6} => Dump = 0
         /\ Head(todo).file = Target(q) /\ Target(q) \in Files
<1>1. pc = "writing" /\ Dump \in 0 .. LastStep
  BY FieldOutputAssumption DEF OutType, Saving
<1>3. q # 9 /\ Head(todo) = Operation(q)
  BY <1>1, CallGoesOn DEF Saving
<1>4. q # 2
  BY <1>3 DEF Saving, Operation, Load
<1>5. q \in {1, 3, 4, 5, 6, 7, 8}
  BY <1>3, <1>4
<1>6. q \in {1, 4, 5, 6} => Dump = 0
  BY <1>1, Plans DEF At, Point
<1>7. \A f : Save(f).file = f
  BY DEF Save
<1>8. Head(todo).file = Target(q)
  BY <1>3, <1>5, <1>7 DEF Operation, Target
<1>9. Target(q) \in Files
  BY <1>1, <1>5, FilesApart DEF Target
<1> QED
  BY <1>1, <1>5, <1>6, <1>8, <1>9

(* ... and, in a run without faults, has done the steps before it.         *)
LEMMA SavePoint ==
  ASSUME OutInv, Saving
  PROVE  /\ pc = "writing" /\ Dump \in 0 .. LastStep
         /\ \E q \in {1, 3, 4, 5, 6, 7, 8} :
              /\ At(q) /\ (Clean(run) => Done(q))
              /\ q \in {1, 4, 5, 6} => Dump = 0
              /\ Head(todo).file = Target(q) /\ Target(q) \in Files
<1>1. PICK q \in 1 .. 9 : At(q) /\ (Clean(run) => Done(q))
  BY DEF OutInv, OutType, InCall, Saving
<1> QED
  BY <1>1, SavingAt DEF OutInv

(* What saving a file leaves as it is. *)
LEMMA SaveKeeps ==
  ASSUME OutType, Dump \in 0 .. LastStep, NEW q \in {1, 3, 4, 5, 6, 7, 8},
         q \in {1, 4, 5, 6} => Dump = 0, Done(q), Target(q) \in Files,
         NEW c, NEW new, new = [disk EXCEPT ![Target(q)] = c]
  PROVE  /\ q = 3 => Lists(new, run, doc, Dump + 1, Dump)
         /\ q >= 4 => /\ new[Index] = disk[Index]
                      /\ Lists(new, run, disk[Index], Dump + 1, Dump)
                      /\ \A k \in 1 .. 3 : k + 3 < q => GeometryOf(new, run, k)
                      /\ \A i \in 1 .. 2 : i + 6 < q => DataOf(new, run, i, Dump, ctrl.step)
<1>1. disk \in [Files -> Document] /\ Index \in Files
  BY FilesApart DEF OutType
<1>2. \A x \in Files : x # Target(q) => new[x] = disk[x]
  BY <1>1
<1>3. Target(q) \in {Index, Data(1, Dump), Data(2, Dump)} \/ Dump = 0
  BY DEF Target
<1>4. Dump + 1 \in Nat /\ Dump \in 0 .. Dump /\ Dump <= Dump + 1
  BY FieldOutputAssumption
<1>5. CASE q = 3
  <2>1. Lists(disk, run, doc, Dump + 1, Dump)
    BY <1>5 DEF Done
  <2>2. Lists([disk EXCEPT ![Target(q)] = c], run, doc, Dump + 1, Dump)
    BY <1>1, <1>3, <1>4, <2>1, KeepLists
  <2> QED
    BY <1>5, <2>2
<1>6. CASE q >= 4
  <2>1. Lists(disk, run, disk[Index], Dump + 1, Dump)
    BY <1>6 DEF Done, Listed
  <2>2. Lists([disk EXCEPT ![Target(q)] = c], run, disk[Index], Dump + 1, Dump)
    BY <1>1, <1>3, <1>4, <2>1, KeepLists
  <2>3. Target(q) = IF q \in 4 .. 6 THEN Geometry[q - 3] ELSE Data(q - 6, Dump)
    BY <1>6 DEF Target
  <2>4. new[Index] = disk[Index]
    <3>1. Target(q) # Index
      BY <1>6, <2>3, FilesApart
    <3> QED
      BY <1>1, <1>2, <3>1
  <2>5. ASSUME NEW k \in 1 .. 3, k + 3 < q PROVE GeometryOf(new, run, k)
    <3>1. GeometryOf(disk, run, k)
      BY <1>6, <2>5 DEF Done
    <3>2. Geometry[k] # Target(q)
      <4>1. CASE q \in 4 .. 6
        <5>1. q - 3 \in 1 .. 3 /\ q - 3 # k
          BY <2>5, <4>1
        <5>2. \A l \in 1 .. 3 : l # k => Geometry[l] # Geometry[k]
          BY DEF Geometry
        <5> QED
          BY <2>3, <4>1, <5>1, <5>2
      <4>2. CASE q \in 7 .. 8
        <5>1. q - 6 \in 1 .. 2 /\ Target(q) = Data(q - 6, Dump)
          BY <2>3, <4>2
        <5> QED
          BY <5>1, FilesApart
      <4> QED
        BY <1>6, <4>1, <4>2
    <3> QED
      BY <1>2, <3>1, <3>2, FilesApart DEF GeometryOf
  <2>6. ASSUME NEW i \in 1 .. 2, i + 6 < q PROVE DataOf(new, run, i, Dump, ctrl.step)
    <3>1. DataOf(disk, run, i, Dump, ctrl.step)
      BY <1>6, <2>6 DEF Done
    <3>2. i = 1 /\ q = 8
      BY <2>6
    <3>3. Data(1, Dump) \in Files /\ Data(1, Dump) # Target(q)
      BY <2>3, <3>2, FilesApart
    <3> QED
      BY <1>2, <3>1, <3>2, <3>3 DEF DataOf
  <2> QED
    BY <1>6, <2>2, <2>4, <2>5, <2>6
<1> QED
  BY <1>5, <1>6

(* An open for writing empties its file. *)
LEMMA OpenStep ==
  ASSUME OutInv, Open
  PROVE  OutInv'
<1>1. PICK q \in {1, 3, 4, 5, 6, 7, 8} :
        /\ At(q) /\ (Clean(run) => Done(q))
        /\ q \in {1, 4, 5, 6} => Dump = 0
        /\ Head(todo).file = Target(q) /\ Target(q) \in Files
  BY SavePoint DEF Open
<1>2. pc = "writing" /\ Dump \in 0 .. LastStep
  BY SavePoint DEF Open
<1>3. /\ disk' = [disk EXCEPT ![Target(q)] = Torn] /\ opened' = TRUE
      /\ run' = run /\ Dump' = Dump /\ ctrl' = ctrl /\ pc' = pc /\ todo' = todo
      /\ doc' = doc /\ failed' = failed
  BY <1>1 DEF Open, Dump
<1>4. Torn \in Document /\ Torn.run = run /\ ~Torn.whole
  <2>1. run \in Nat /\ ctrl.step \in Nat /\ <<>> \in Seq(Nat \X Nat)
    BY DEF OutInv, OutType
  <2>2. Whole(<<>>) \in Document /\ Whole(<<>>).run = run
    BY <2>1 DEF Document, Whole
  <2> QED
    BY <2>2 DEF Document, Torn
<1>5. disk \in [Files -> Document] /\ Index \in Files
  BY FilesApart DEF OutInv, OutType
<1>6. OutType'
  <2>1. disk' \in [Files -> Document] /\ disk'[Index].run <= run'
    BY <1>1, <1>3, <1>4, <1>5 DEF OutInv, OutType
  <2>2. Saving'
    BY <1>3 DEF Open, Saving
  <2> QED
    BY <1>2, <1>3, <2>1, <2>2 DEF OutInv, OutType
<1>7. At(q)'
  BY <1>1, <1>2, <1>3, CallGoesOn
<1>8. Clean(run)' => Clean(run)
  BY <1>3 DEF Clean
<1>9. ASSUME Clean(run)' PROVE Done(q)'
  <2>1. Done(q)
    BY <1>1, <1>8, <1>9
  <2>2. /\ q = 3 => Lists(disk', run, doc, Dump + 1, Dump)
        /\ q >= 4 => /\ disk'[Index] = disk[Index]
                     /\ Lists(disk', run, disk[Index], Dump + 1, Dump)
                     /\ \A k \in 1 .. 3 : k + 3 < q => GeometryOf(disk', run, k)
                     /\ \A i \in 1 .. 2 : i + 6 < q => DataOf(disk', run, i, Dump, ctrl.step)
    BY <1>1, <1>2, <1>3, <2>1, SaveKeeps DEF OutInv
  <2>3. CASE q \in {1, 3}
    <3>1. ~disk'[Index].whole
      BY <1>3, <1>4, <1>5, <2>3 DEF Target
    <3> QED
      BY <1>1, <1>3, <2>1, <2>2, <2>3, <3>1 DEF Done
  <2>4. CASE q \in 4 .. 8
    BY <1>3, <2>1, <2>2, <2>4 DEF Done, Listed
  <2> QED
    BY <2>3, <2>4
<1>10. OnlyTailIncomplete'
  <2>1. CASE q \in {1, 3}
    <3>1. ~disk'[Index].whole
      BY <1>3, <1>4, <1>5, <2>1 DEF Target
    <3> QED
      BY <3>1 DEF OnlyTailIncomplete
  <2>2. CASE q \in 4 .. 8
    <3>1. Clean(run)' => Lists(disk', run', disk'[Index], Dump + 1, Dump)
      BY <1>3, <1>9, <2>2 DEF Done, Listed
    <3>2. Dump + 1 \in Nat /\ Dump \in Nat /\ Dump + 1 <= Dump + 1
      BY <1>2, FieldOutputAssumption
    <3> QED
      BY <1>6, <3>1, <3>2, ListsTail
  <2> QED
    BY <2>1, <2>2
<1>11. InCall'
  BY <1>7, <1>9 DEF InCall
<1> QED
  BY <1>2, <1>3, <1>6, <1>10, <1>11 DEF OutInv, Between

(* A close leaves the file with what it was opened for. *)
LEMMA CloseStep ==
  ASSUME OutInv, Close
  PROVE  OutInv'
<1> DEFINE f == Head(todo).file
<1>1. PICK q \in {1, 3, 4, 5, 6, 7, 8} :
        /\ At(q) /\ (Clean(run) => Done(q))
        /\ q \in {1, 4, 5, 6} => Dump = 0
        /\ f = Target(q) /\ Target(q) \in Files
  BY SavePoint DEF Close
<1>2. pc = "writing" /\ Dump \in 0 .. LastStep
  BY SavePoint DEF Close
<1>3. /\ disk' = [disk EXCEPT ![Target(q)] = Contents(Target(q))] /\ opened' = FALSE
      /\ run' = run /\ Dump' = Dump /\ ctrl' = ctrl /\ pc' = pc /\ todo' = Tail(todo)
      /\ doc' = doc /\ failed' = failed /\ opened
  BY <1>1 DEF Close, Dump
<1>4. /\ q = 1 => Contents(Target(q)) = Whole(<<>>)
      /\ q = 3 => Contents(Target(q)) = doc
      /\ q >= 4 => Contents(Target(q)) = Whole(<<>>) /\ Target(q) # Index
  <2>1. CASE q \in {1, 3}
    BY <1>1, <1>2, <2>1, IndexContents DEF Target
  <2>2. CASE q \in 4 .. 6
    <3>1. q - 3 \in 1 .. 3 /\ Target(q) = Geometry[q - 3]
      BY <2>2 DEF Target
    <3>2. Target(q) # Index
      BY <3>1, FilesApart
    <3> QED
      BY <2>2, <3>2 DEF Contents
  <2>3. CASE q \in 7 .. 8
    <3>1. q - 6 \in 1 .. 2 /\ Target(q) = Data(q - 6, Dump)
      BY <2>3 DEF Target
    <3>2. Target(q) # Index
      BY <1>2, <3>1, FilesApart
    <3> QED
      BY <2>3, <3>2 DEF Contents
  <2> QED
    BY <2>1, <2>2, <2>3
<1>5. disk \in [Files -> Document] /\ Index \in Files /\ doc \in Document /\ doc.run <= run
  BY FilesApart DEF OutInv, OutType
<1>6. /\ Whole(<<>>) \in Document
      /\ Whole(<<>>) = [run |-> run, step |-> ctrl.step, whole |-> TRUE, grids |-> <<>>]
  <2>1. run \in Nat /\ ctrl.step \in Nat /\ <<>> \in Seq(Nat \X Nat)
    BY DEF OutInv, OutType
  <2> QED
    BY <2>1 DEF Document, Whole
<1>7. OutType'
  <2>1. Contents(Target(q)) \in Document /\ Contents(Target(q)).run <= run
    <3>1. run <= run
      BY DEF OutInv, OutType
    <3> QED
      BY <1>4, <1>5, <1>6, <3>1
  <2>2. disk' \in [Files -> Document]
    BY <1>1, <1>3, <1>5, <2>1
  <2>3. disk'[Index].run <= run'
    BY <1>1, <1>3, <1>5, <2>1 DEF OutInv, OutType
  <2> QED
    BY <1>2, <1>3, <1>5, <2>2, <2>3 DEF OutInv, OutType
<1>8. After(q) \in 1 .. 9 /\ At(After(q))'
  BY <1>1, <1>2, <1>3, CallGoesOn
<1>9. ASSUME Clean(run)' PROVE Done(q)
  BY <1>1, <1>3, <1>9 DEF Clean
<1>10. ASSUME Clean(run)'
       PROVE  /\ q = 3 => Lists(disk', run, doc, Dump + 1, Dump)
              /\ q >= 4 => /\ disk'[Index] = disk[Index]
                           /\ Lists(disk', run, disk[Index], Dump + 1, Dump)
                           /\ \A k \in 1 .. 3 : k + 3 < q => GeometryOf(disk', run, k)
                           /\ \A i \in 1 .. 2 :
                                i + 6 < q => DataOf(disk', run, i, Dump, ctrl.step)
  BY <1>1, <1>2, <1>3, <1>9, <1>10, SaveKeeps DEF OutInv
<1>11. ASSUME Clean(run)' PROVE Done(After(q))'
  <2>1. CASE q = 1
    <3>1. disk'[Index] = Whole(<<>>) /\ Dump = 0 /\ After(q) = 2
      BY <1>1, <1>3, <1>4, <1>5, <2>1 DEF Target, After
    <3>2. Lists(disk', run, Whole(<<>>), 0, 0)
      BY <1>6 DEF Lists
    <3> QED
      BY <1>3, <3>1, <3>2 DEF Done, Listed, After
  <2>2. CASE q = 3
    <3>1. disk'[Index] = doc
      BY <1>1, <1>3, <1>4, <1>5, <2>2 DEF Target
    <3>2. Lists(disk', run, doc, Dump + 1, Dump) /\ doc.grids[Dump + 1] = <<Dump, ctrl.step>>
      BY <1>9, <1>10, <1>11, <2>2 DEF Done
    <3>3. After(q)' = IF Dump > 0 THEN 7 ELSE 4
      BY <1>3, <2>2 DEF After
    <3>4. Dump > 0 => \A k \in 1 .. 3 : GeometryOf(disk', run, k)
      <4>1. Dump > 0 => 1 \in 1 .. Dump
        BY <1>2, FieldOutputAssumption
      <4> QED
        BY <3>2, <4>1 DEF Lists, Shown
    <3>5. \A k \in 1 .. 3 : ~(k + 3 < 4)
      OBVIOUS
    <3>6. \A i \in 1 .. 2 : ~(i + 6 < 7) /\ ~(i + 6 < 4)
      OBVIOUS
    <3> QED
      BY <1>3, <3>1, <3>2, <3>3, <3>4, <3>5, <3>6 DEF Done, Listed
  <2>3. CASE q \in 4 .. 8
    <3>1. After(q)' = q + 1
      BY <1>3, <2>3 DEF After
    <3>2. disk'[Target(q)] = Whole(<<>>)
      BY <1>1, <1>3, <1>4, <1>5, <2>3
    <3>3. \A k \in 1 .. 3 : k + 3 < q + 1 => GeometryOf(disk', run, k)
      <4>1. ASSUME NEW k \in 1 .. 3, k + 3 = q PROVE GeometryOf(disk', run, k)
        <5>1. Target(q) = Geometry[k]
          BY <4>1 DEF Target
        <5> QED
          BY <1>6, <3>2, <5>1 DEF GeometryOf
      <4>2. \A k \in 1 .. 3 : k + 3 < q + 1 => k + 3 < q \/ k + 3 = q
        BY <2>3
      <4> QED
        BY <1>10, <1>11, <2>3, <4>1, <4>2
    <3>4. \A i \in 1 .. 2 : i + 6 < q + 1 => DataOf(disk', run, i, Dump, ctrl.step)
      <4>1. ASSUME NEW i \in 1 .. 2, i + 6 = q PROVE DataOf(disk', run, i, Dump, ctrl.step)
        <5>1. Target(q) = Data(i, Dump)
          BY <4>1 DEF Target
        <5> QED
          BY <1>6, <3>2, <5>1 DEF DataOf
      <4>2. \A i \in 1 .. 2 : i + 6 < q + 1 => i + 6 < q \/ i + 6 = q
        BY <2>3
      <4> QED
        BY <1>10, <1>11, <2>3, <4>1, <4>2
    <3>5. /\ Lists(disk', run, disk'[Index], Dump + 1, Dump)
          /\ disk'[Index].grids[Dump + 1] = <<Dump, ctrl.step>>
      BY <1>9, <1>10, <1>11, <2>3 DEF Done
    <3>6. q + 1 # 1 /\ q + 1 # 2 /\ q + 1 # 3
      BY <2>3
    <3> QED
      BY <1>3, <3>1, <3>3, <3>4, <3>5, <3>6 DEF Done, Listed
  <2> QED
    BY <2>1, <2>2, <2>3
<1>12. OnlyTailIncomplete'
  <2>1. Clean(run)' => \E n, m \in Nat : n <= m + 1 /\ Lists(disk', run', disk'[Index], n, m)
    <3>1. After(q)' = 2 \/ After(q)' >= 4
      BY <1>2, <1>3 DEF After
    <3>2. Clean(run)' => \/ Lists(disk', run', disk'[Index], Dump, Dump)
                         \/ Lists(disk', run', disk'[Index], Dump + 1, Dump)
      BY <1>3, <1>11, <3>1 DEF Done, Listed
    <3>3. Dump \in Nat /\ Dump + 1 \in Nat /\ Dump <= Dump + 1 /\ Dump + 1 <= Dump + 1
      BY <1>2, FieldOutputAssumption
    <3> QED
      BY <3>2, <3>3
  <2> QED
    BY <1>7, <2>1, ListsTail
<1>13. InCall'
  <2>1. After(q)' = After(q)
    BY <1>3 DEF After
  <2> QED
    BY <1>8, <1>11, <2>1 DEF InCall
<1> QED
  BY <1>2, <1>3, <1>7, <1>12, <1>13 DEF OutInv, Between

(* A refused write is no longer spoken of. *)
LEMMA RefuseStep ==
  ASSUME OutInv, Refuse
  PROVE  OutInv'
<1>1. PICK q \in {1, 3, 4, 5, 6, 7, 8} : At(q)
  BY SavePoint DEF Refuse
<1>2. pc = "writing" /\ Dump \in 0 .. LastStep
  BY SavePoint DEF Refuse
<1>3. /\ failed' = failed \cup {[run |-> run, file |-> Head(todo).file, dump |-> Dump]}
      /\ todo' = Tail(todo) /\ opened' = FALSE
      /\ run' = run /\ Dump' = Dump /\ ctrl' = ctrl /\ pc' = pc /\ disk' = disk /\ doc' = doc
  BY DEF Refuse, Dump
<1>4. OutType'
  <2>1. run \in Nat /\ run <= run
    BY DEF OutInv, OutType
  <2>2. \A f \in failed' : f.run \in Nat /\ f.run <= run
    BY <1>3, <2>1 DEF OutInv, OutType
  <2> QED
    BY <1>2, <1>3, <2>2 DEF OutInv, OutType
<1>5. ~Clean(run)'
  <2>1. [run |-> run, file |-> Head(todo).file, dump |-> Dump] \in failed'
    BY <1>3
  <2>2. run \in Nat /\ ~(run < run)
    BY DEF OutInv, OutType
  <2> QED
    BY <1>3, <2>1, <2>2 DEF Clean
<1>6. OnlyTailIncomplete'
  BY <1>4, <1>5, ListsTail
<1>7. At(After(q))' /\ After(q)' \in 1 .. 9
  BY <1>1, <1>2, <1>3, CallGoesOn DEF After
<1>8. InCall'
  BY <1>5, <1>7 DEF InCall
<1> QED
  BY <1>4, <1>5, <1>6, <1>8 DEF OutInv, Between

(* The reloaded document has one grid more. *)
LEMMA LoadStep ==
  ASSUME OutInv, LoadIndex
  PROVE  OutInv'
<1>1. /\ todo # <<>> /\ Head(todo).do = "load" /\ pc = "writing"
      /\ run' = run /\ Dump' = Dump /\ ctrl' = ctrl /\ opened' = opened /\ disk' = disk
      /\ failed' = failed
  BY DEF OutInv, OutType, LoadIndex, Dump
<1>2. Dump \in 0 .. LastStep /\ Dump \in Nat
  BY <1>1, FieldOutputAssumption DEF OutInv, OutType
<1>3. PICK q \in 1 .. 9 : At(q) /\ (Clean(run) => Done(q))
  BY <1>1 DEF OutInv, InCall
<1>4. q = 2
  <2>1. q # 9 /\ Head(todo) = Operation(q)
    BY <1>1, <1>2, <1>3, CallGoesOn
  <2>2. \A f : Save(f).do = "save"
    BY DEF Save
  <2> QED
    BY <1>1, <2>1, <2>2 DEF Operation
<1>5. opened = FALSE
  BY <1>1 DEF OutInv, OutType, Saving
<1>6. OnlyTailIncomplete'
  BY <1>1 DEF OutInv, OnlyTailIncomplete, OnDisk, Clean
<1>7. CASE ~disk[Index].whole
  <2>1. pc' = "terminated" /\ todo' = <<>> /\ doc' = doc
    BY <1>7 DEF LoadIndex
  <2>2. OutType'
    BY <1>1, <1>5, <2>1 DEF OutInv, OutType
  <2> QED
    BY <1>6, <2>1, <2>2 DEF OutInv, InCall, Between
<1>8. CASE disk[Index].whole
  <2> DEFINE s == disk[Index].grids
             e == <<Dump, ctrl.step>>
  <2>1. /\ doc' = [disk[Index] EXCEPT !.grids = Append(s, e)]
        /\ todo' = Tail(todo) /\ pc' = pc
    BY <1>8 DEF LoadIndex
  <2>2. disk[Index] \in Document /\ s \in Seq(Nat \X Nat) /\ e \in Nat \X Nat
    BY <1>2, FilesApart DEF OutInv, OutType, Document
  <2>3. /\ Append(s, e) \in Seq(Nat \X Nat) /\ Len(Append(s, e)) = Len(s) + 1
        /\ \A i \in 1 .. Len(s) : Append(s, e)[i] = s[i]
        /\ Append(s, e)[Len(s) + 1] = e
    <3> DEFINE T == Nat \X Nat
    <3>1. s \in Seq(T) /\ e \in T
      BY <2>2
    <3> HIDE DEF T, s, e
    <3>2. /\ Append(s, e) \in Seq(T) /\ Len(Append(s, e)) = Len(s) + 1
          /\ \A i \in 1 .. Len(s) : Append(s, e)[i] = s[i]
          /\ Append(s, e)[Len(s) + 1] = e
      BY <3>1, AppendProperties
    <3> QED
      BY <3>2 DEF T
  <2> HIDE DEF s, e
  <2>4. /\ doc' \in Document /\ doc'.run = disk[Index].run /\ doc'.whole = disk[Index].whole
        /\ doc'.grids = Append(s, e)
    BY <2>1, <2>2, <2>3 DEF Document
  <2>5. OutType'
    <3>1. doc'.run <= run
      BY <2>4 DEF OutInv, OutType
    <3> QED
      BY <1>1, <1>5, <2>1, <2>4, <3>1 DEF OutInv, OutType
  <2>6. At(3)'
    <3>1. After(2) = 3
      BY DEF After
    <3>2. At(After(2))'
      BY <1>1, <1>2, <1>3, <1>4, <2>1, CallGoesOn
    <3>3. After(2)' = 3
      BY DEF After
    <3> QED
      BY <3>2, <3>3
  <2>7. ASSUME Clean(run)' PROVE Done(3)'
    <3>1. Lists(disk, run, disk[Index], Dump, Dump)
      BY <1>1, <1>3, <1>4, <2>7 DEF Clean, Done, Listed
    <3>2. Len(s) = Dump
      BY <3>1 DEF Lists, s
    <3>3. \A i \in 1 .. Dump : Append(s, e)[i] = s[i] /\ s[i][1] = i - 1 /\ Shown(disk, run, s[i])
      BY <2>3, <3>1, <3>2 DEF Lists, s
    <3>4. Append(s, e)[Dump + 1] = <<Dump, ctrl.step>> /\ Len(Append(s, e)) = Dump + 1
      BY <2>3, <3>2 DEF e
    <3>5. \A i \in 1 .. Dump + 1 : i \in 1 .. Dump \/ i = Dump + 1
      BY <1>2
    <3>6. \A i \in 1 .. Dump + 1 : Append(s, e)[i][1] = i - 1
      BY <1>2, <3>3, <3>4, <3>5
    <3>7. doc'.run = run /\ doc'.whole
      BY <1>8, <2>4, <3>1 DEF Lists
    <3>8. Lists(disk, run, doc', Dump + 1, Dump)
      BY <2>4, <3>3, <3>4, <3>6, <3>7 DEF Lists
    <3> QED
      BY <1>1, <1>5, <2>4, <3>1, <3>4, <3>8 DEF Done, Listed
  <2>8. InCall'
    BY <2>6, <2>7 DEF InCall
  <2> QED
    BY <1>1, <1>6, <2>1, <2>5, <2>8 DEF OutInv, Between
<1> QED
  BY <1>7, <1>8

(* A call starts with what the last one left, and returns when all is done. *)
LEMMA BeginStep ==
  ASSUME OutInv, Begin
  PROVE  OutInv'
<1>1. /\ pc = "idle" /\ ctrl.step <= LastStep /\ todo' = Plan(Dump) /\ pc' = "writing"
      /\ run' = run /\ Dump' = Dump /\ ctrl' = ctrl /\ opened' = opened /\ disk' = disk
      /\ failed' = failed /\ doc' = doc
  BY DEF Begin, Dump
<1>2. Dump \in Nat /\ opened = FALSE
  BY <1>1 DEF OutInv, OutType, Saving
<1>3. OutType'
  BY <1>1, <1>2 DEF OutInv, OutType
<1>4. OnlyTailIncomplete'
  BY <1>1 DEF OutInv, OnlyTailIncomplete, OnDisk, Clean
<1>5. CASE Dump = 0
  <2>1. At(1)'
    BY <1>1, <1>2, <1>5, CallStarts
  <2>2. Done(1)'
    BY <1>1, <1>2, <1>5 DEF Done
  <2>3. InCall'
    BY <2>1, <2>2 DEF InCall
  <2> QED
    BY <1>1, <1>3, <1>4, <2>3 DEF OutInv, Between
<1>6. CASE Dump > 0
  <2>1. At(2)'
    <3>1. Dump # 0
      BY <1>2, <1>6
    <3> QED
      BY <1>1, <1>2, <3>1, CallStarts
  <2>2. Clean(run)' => Done(2)'
    BY <1>1, <1>6 DEF OutInv, Between, Done, Listed, Clean
  <2>3. InCall'
    BY <2>1, <2>2 DEF InCall
  <2> QED
    BY <1>1, <1>3, <1>4, <2>3 DEF OutInv, Between
<1> QED
  BY <1>2, <1>5, <1>6

(* A call that returns leaves the directory as the next call finds it.     *)
LEMMA ReturnStep ==
  ASSUME OutInv, Return
  PROVE  OutInv'
<1>1. /\ pc = "writing" /\ todo = <<>> /\ pc' = "idle" /\ todo' = todo
      /\ run' = run /\ Dump' = Dump + 1 /\ ctrl'.step = ctrl.step + 1
      /\ opened' = opened /\ disk' = disk /\ failed' = failed /\ doc' = doc
  BY DEF Return, Dump, AfterDump, NextCall
<1>2. Dump \in Nat /\ ctrl.step \in Nat
  BY DEF OutInv, OutType
<1>3. OutType'
  BY <1>1, <1>2 DEF OutInv, OutType, Saving
<1>4. OnlyTailIncomplete'
  BY <1>1 DEF OutInv, OnlyTailIncomplete, OnDisk, Clean
<1>5. PICK q \in 1 .. 9 : At(q) /\ (Clean(run) => Done(q))
  BY <1>1 DEF OutInv, InCall
<1>6. q = 9
  BY <1>1, <1>2, <1>5, CallGoesOn
<1>7. ASSUME Clean(run)' PROVE Lists(disk, run, disk[Index], Dump + 1, Dump + 1)
  <2>1. Done(9)
    BY <1>1, <1>5, <1>6, <1>7 DEF Clean
  <2>2. /\ Lists(disk, run, disk[Index], Dump + 1, Dump)
        /\ disk[Index].grids[Dump + 1] = <<Dump, ctrl.step>>
    BY <2>1 DEF Done, Listed
  <2>3. /\ \A k \in 1 .. 3 : GeometryOf(disk, run, k)
        /\ \A i \in 1 .. 2 : DataOf(disk, run, i, Dump, ctrl.step)
    BY <2>1 DEF Done
  <2>4. Shown(disk, run, disk[Index].grids[Dump + 1])
    BY <2>2, <2>3 DEF Shown
  <2>5. \A i \in 1 .. Dump + 1 : i \in 1 .. Dump \/ i = Dump + 1
    BY <1>2
  <2> QED
    BY <2>2, <2>4, <2>5 DEF Lists
<1>8. Between'
  BY <1>1, <1>7 DEF Between, Listed
<1> QED
  BY <1>1, <1>3, <1>4, <1>8 DEF OutInv, InCall

(* A new run has dumped nothing. *)
LEMMA RerunStep ==
  ASSUME OutInv, Rerun
  PROVE  OutInv'
<1>1. /\ run' = run + 1 /\ Dump' = 0 /\ ctrl'.step = 0 /\ pc' = "idle" /\ todo' = <<>>
      /\ opened' = FALSE /\ doc' = NoFile /\ disk' = disk /\ failed' = failed
  BY DEF Rerun, StartRun, Dump, NewSchedule
<1>2. NoFile \in Document /\ NoFile.run = 0
  <2>1. <<>> \in Seq(Nat \X Nat)
    OBVIOUS
  <2> QED
    BY <2>1 DEF NoFile, Document
<1>3. OutType'
  <2>1. run \in Nat \ {0} /\ disk[Index].run \in Nat /\ disk[Index].run <= run
    BY FilesApart DEF OutInv, OutType, Document
  <2>2. run' \in Nat \ {0} /\ disk'[Index].run <= run' /\ doc'.run <= run'
    BY <1>1, <1>2, <2>1
  <2>3. \A f \in failed' : f.run \in Nat /\ f.run <= run'
    BY <1>1, <2>1 DEF OutInv, OutType
  <2> QED
    <3>1. disk' \in [Files -> Document] /\ 0 \in Nat /\ 0 <= 0
      BY <1>1 DEF OutInv, OutType
    <3> QED
      BY <1>1, <1>2, <2>2, <2>3, <3>1 DEF OutType
<1>4. OnlyTailIncomplete'
  BY <1>1 DEF OutInv, OnlyTailIncomplete, OnDisk, Clean
<1> QED
  BY <1>1, <1>3, <1>4 DEF OutInv, InCall, Between

(* The invariant of the directory.                                         *)
LEMMA OutInvariant == OutSpec => []OutInv
<1>1. OutInit => OutInv
  <2> SUFFICES ASSUME OutInit PROVE OutInv
    OBVIOUS
  <2>1. NoFile \in Document /\ NoFile.run = 0 /\ ~NoFile.whole
    <3>1. <<>> \in Seq(Nat \X Nat)
      OBVIOUS
    <3> QED
      BY <3>1 DEF NoFile, Document
  <2>2. disk \in [Files -> Document] /\ disk[Index] = NoFile
    BY <2>1, FilesApart DEF OutInit
  <2>3. /\ run = 1 /\ pc = "idle" /\ todo = <<>> /\ opened = FALSE /\ doc = NoFile
        /\ ctrl.step = 0 /\ Dump = 0 /\ failed = {}
    BY DEF OutInit, NewSchedule, Dump
  <2>4. OutType
    <3>1. /\ 1 \in Nat \ {0} /\ 0 \in Nat /\ 0 <= 0 /\ 0 <= 1 /\ FALSE \in BOOLEAN
          /\ "idle" # "writing"
      OBVIOUS
    <3>2. disk[Index].run <= run /\ doc.run <= run /\ doc \in Document
      BY <2>1, <2>2, <2>3, <3>1
    <3> QED
      BY <2>2, <2>3, <3>1, <3>2 DEF OutType
  <2> QED
    BY <2>1, <2>2, <2>3, <2>4 DEF OutInv, OnlyTailIncomplete, InCall, Between
<1>2. OutInv /\ [OutNext]_outVars => OutInv'
  <2> SUFFICES ASSUME OutInv, [OutNext]_outVars PROVE OutInv'
    OBVIOUS
  <2>1. CASE Skip
    <3>1. /\ pc = "idle" /\ ctrl'.step = ctrl.step + 1 /\ Dump' = Dump
          /\ UNCHANGED <<run, pc, todo, opened, doc, disk, failed>>
      BY <2>1 DEF Skip, NextCall, Dump
    <3>2. OutType'
      BY <3>1 DEF OutInv, OutType, Saving
    <3> QED
      BY <3>1, <3>2 DEF OutInv, OnlyTailIncomplete, OnDisk, Clean, InCall, Between, Listed
  <2>2. CASE End
    <3>1. /\ pc = "idle" /\ pc' = "over" /\ Dump' = Dump
          /\ UNCHANGED <<run, ctrl, todo, opened, doc, disk, failed>>
      BY <2>2 DEF End, Dump
    <3>2. OutType'
      BY <3>1 DEF OutInv, OutType, Saving
    <3> QED
      BY <3>1, <3>2 DEF OutInv, OnlyTailIncomplete, OnDisk, Clean, InCall, Between, Listed
  <2>3. CASE Kill
    <3>1. /\ pc' = "killed" /\ todo' = <<>> /\ opened' = FALSE /\ Dump' = Dump
          /\ UNCHANGED <<run, ctrl, doc, disk, failed>>
      BY <2>3 DEF Kill, Dump
    <3>2. OutType'
      BY <3>1 DEF OutInv, OutType
    <3> QED
      BY <3>1, <3>2 DEF OutInv, OnlyTailIncomplete, OnDisk, Clean, InCall, Between
  <2>4. CASE UNCHANGED outVars
    <3>1. Dump' = Dump /\ UNCHANGED <<run, ctrl, pc, todo, opened, doc, disk, failed>>
      BY <2>4 DEF outVars, Dump
    <3>2. OutType'
      BY <3>1 DEF OutInv, OutType, Saving
    <3>3. \A q \in 1 .. 9 : At(q) => At(q)'
      BY <3>1, CallGoesOn DEF OutInv, OutType
    <3>4. \A q \in 1 .. 9 : Done(q) => Done(q)'
      BY <3>1 DEF Done, Listed
    <3>5. InCall'
      BY <3>1, <3>3, <3>4 DEF OutInv, InCall, Clean
    <3> QED
      BY <3>1, <3>2, <3>5 DEF OutInv, OnlyTailIncomplete, OnDisk, Clean, Between, Listed
  <2>5. CASE Stay
    BY <2>4, <2>5 DEF Stay
  <2> QED
    BY <2>1, <2>2, <2>3, <2>4, <2>5, OpenStep, CloseStep, RefuseStep, LoadStep, BeginStep,
       ReturnStep, RerunStep DEF OutNext
<1> QED
  BY <1>1, <1>2, PTL DEF OutSpec

(* At every moment, so also after a kill, an index that can be read refers *)
(* to missing, torn or older files in its last grid at most.               *)
THEOREM KillTearsTailOnly == OutSpec => []OnlyTailIncomplete
<1>1. OutInv => OnlyTailIncomplete
  BY DEF OutInv
<1> QED
  BY <1>1, OutInvariant, PTL

(* When write has returned, the index lists the dumps so far and every     *)
(* file it refers to is there, whatever earlier runs left behind.          *)
THEOREM ReturnedStaysOnDisk == OutSpec => []ReturnedIsDurable
<1>1. OutInv => ReturnedIsDurable
  <2> SUFFICES ASSUME OutInv, pc \in {"idle", "over"}, Dump > 0, Clean(run)
               PROVE  /\ disk[Index].whole /\ disk[Index].run = run
                      /\ Len(disk[Index].grids) = Dump
                      /\ \A i \in 1 .. Dump :
                           disk[Index].grids[i][1] = i - 1 /\ OnDisk(disk[Index].grids[i])
    BY DEF ReturnedIsDurable
  <2>1. Lists(disk, run, disk[Index], Dump, Dump)
    BY DEF OutInv, Between, Listed
  <2>2. Len(Names) = 2
    BY DEF Names
  <2>3. ASSUME NEW i \in 1 .. Dump PROVE OnDisk(disk[Index].grids[i])
    BY <2>1, <2>2, <2>3 DEF Lists, Shown, OnDisk, GeometryOf, DataOf, Data
  <2> QED
    BY <2>1, <2>3 DEF Lists
<1> QED
  BY <1>1, OutInvariant, PTL

-----------------------------------------------------------------------------
(* The dumps of this run in which a save of the index was refused, and the *)
(* dumps an index lists.                                                   *)
Lost(fs, r) == {f.dump : f \in {x \in fs : x.run = r /\ x.file = Index}}
GridsOf(d) == {d.grids[i][1] : i \in 1 .. Len(d.grids)}

(* If document d is an index of this run, it lists the n dumps so far but  *)
(* the lost ones.                                                          *)
Account(d, n) ==
  d.whole /\ d.run = run => GridsOf(d) = (0 .. n - 1) \ Lost(failed, run)

(* Whatever was refused, what a call has made of the index at each point.  *)
(* A refused header leaves no index of this run: there is no grid to lose. *)
IndexAt(q) ==
  /\ q = 1 => /\ Lost(failed, run) = {}
              /\ IF opened THEN ~disk[Index].whole ELSE disk[Index].run # run
  /\ q = 2 => /\ Account(disk[Index], Dump)
              /\ disk[Index].whole /\ disk[Index].run = run => Dump \notin Lost(failed, run)
  /\ q = 3 => /\ doc.whole /\ Account(doc, Dump + 1)
              /\ IF opened THEN ~disk[Index].whole
                 ELSE disk[Index].whole /\ Account(disk[Index], Dump)
  /\ q >= 4 => /\ Account(disk[Index], Dump + 1)
               /\ ~disk[Index].whole =>
                    [run |-> run, file |-> Index, dump |-> Dump] \in failed

(* Refusals are of dumps up to the current one.                            *)
RefusedSoFar == \A f \in failed : f.dump \in Nat /\ (f.run = run => f.dump <= Dump)

(* Between calls, and during one. *)
IndexBetween ==
  pc \in {"idle", "over"} =>
    /\ \A f \in failed : f.run = run => f.dump < Dump
    /\ Dump = 0 => disk[Index].run # run
    /\ Account(disk[Index], Dump)
    /\ Dump > 0 /\ ~disk[Index].whole =>
         [run |-> run, file |-> Index, dump |-> Dump - 1] \in failed
IndexInCall == pc = "writing" => \E q \in 1 .. 9 : At(q) /\ IndexAt(q)

RefusalInv == RefusedSoFar /\ IndexBetween /\ IndexInCall

(* The call is saving a file and has made so much of the index. *)
LEMMA SavingIndexAt ==
  ASSUME OutInv, RefusalInv, Saving
  PROVE  \E q \in {1, 3, 4, 5, 6, 7, 8} :
           /\ At(q) /\ IndexAt(q)
           /\ Head(todo).file = Target(q) /\ Target(q) \in Files
           /\ q \in {1, 3} <=> Target(q) = Index
<1>1. PICK q \in 1 .. 9 : At(q) /\ IndexAt(q)
  BY DEF OutInv, OutType, RefusalInv, IndexInCall, Saving
<1>2. /\ q \in {1, 3, 4, 5, 6, 7, 8} /\ Dump \in 0 .. LastStep
      /\ Head(todo).file = Target(q) /\ Target(q) \in Files
  BY <1>1, SavingAt DEF OutInv
<1>3. CASE q \in {1, 3}
  BY <1>1, <1>2, <1>3 DEF Target
<1>4. CASE q \in 4 .. 6
  <2>1. q - 3 \in 1 .. 3 /\ Target(q) = Geometry[q - 3] /\ q \notin {1, 3}
    BY <1>4 DEF Target
  <2>2. Target(q) # Index
    BY <2>1, FilesApart
  <2> QED
    BY <1>1, <1>2, <2>1, <2>2
<1>5. CASE q \in 7 .. 8
  <2>1. q - 6 \in 1 .. 2 /\ Target(q) = Data(q - 6, Dump) /\ q \notin {1, 3}
    BY <1>5 DEF Target
  <2>2. Target(q) # Index
    BY <1>2, <2>1, FilesApart
  <2> QED
    BY <1>1, <1>2, <2>1, <2>2
<1> QED
  BY <1>2, <1>3, <1>4, <1>5

(* An index that is open is torn, whatever is listed in the document. *)
LEMMA OpenKeepsAccount ==
  ASSUME OutInv, RefusalInv, Open
  PROVE  RefusalInv'
<1>1. PICK q \in {1, 3, 4, 5, 6, 7, 8} :
        /\ At(q) /\ IndexAt(q) /\ Head(todo).file = Target(q) /\ Target(q) \in Files
        /\ q \in {1, 3} <=> Target(q) = Index
  BY SavingIndexAt DEF Open
<1>2. pc = "writing" /\ Dump \in Nat
  BY SavePoint, FieldOutputAssumption DEF Open
<1>3. /\ disk' = [disk EXCEPT ![Target(q)] = Torn] /\ opened' = TRUE
      /\ run' = run /\ Dump' = Dump /\ pc' = pc /\ todo' = todo
      /\ doc' = doc /\ failed' = failed
  BY <1>1 DEF Open, Dump
<1>4. disk \in [Files -> Document] /\ Index \in Files
  BY FilesApart DEF OutInv, OutType
<1>5. At(q)'
  BY <1>1, <1>2, <1>3, CallGoesOn
<1>6. CASE q \in {1, 3}
  <2>1. ~disk'[Index].whole
    BY <1>1, <1>3, <1>4, <1>6 DEF Torn, Whole
  <2>2. IndexAt(q)'
    BY <1>1, <1>3, <1>6, <2>1 DEF IndexAt, Account
  <2> QED
    BY <1>2, <1>3, <1>5, <2>2 DEF RefusalInv, RefusedSoFar, IndexBetween, IndexInCall
<1>7. CASE q \in 4 .. 8
  <2>1. disk'[Index] = disk[Index]
    BY <1>1, <1>3, <1>4, <1>7
  <2>2. IndexAt(q)'
    BY <1>1, <1>3, <1>7, <2>1 DEF IndexAt, Account
  <2> QED
    BY <1>2, <1>3, <1>5, <2>2 DEF RefusalInv, RefusedSoFar, IndexBetween, IndexInCall
<1> QED
  BY <1>6, <1>7

(* A closed index lists what its document lists. *)
LEMMA CloseKeepsAccount ==
  ASSUME OutInv, RefusalInv, Close
  PROVE  RefusalInv'
<1>1. PICK q \in {1, 3, 4, 5, 6, 7, 8} :
        /\ At(q) /\ IndexAt(q) /\ Head(todo).file = Target(q) /\ Target(q) \in Files
        /\ q \in {1, 3} <=> Target(q) = Index
  BY SavingIndexAt DEF Close
<1>2. pc = "writing" /\ Dump \in Nat /\ (q = 1 => Dump = 0)
  <2>1. q \in 1 .. 9
    BY <1>1
  <2> QED
    BY <1>1, <2>1, SavingAt, FieldOutputAssumption DEF Close, OutInv
<1>3. /\ disk' = [disk EXCEPT ![Target(q)] = Contents(Target(q))] /\ opened' = FALSE
      /\ run' = run /\ Dump' = Dump /\ pc' = pc /\ todo' = Tail(todo)
      /\ doc' = doc /\ failed' = failed
  BY <1>1 DEF Close, Dump
<1>4. disk \in [Files -> Document] /\ Index \in Files
  BY FilesApart DEF OutInv, OutType
<1>5. After(q)' = After(q) /\ After(q) \in 1 .. 9 /\ At(After(q))'
  BY <1>1, <1>2, <1>3, CallGoesOn DEF After
<1>6. CASE q = 1
  <2>1. disk'[Index] = Whole(<<>>)
    BY <1>1, <1>2, <1>3, <1>4, <1>6, IndexContents
  <2>2. /\ Whole(<<>>).whole /\ Whole(<<>>).run = run /\ GridsOf(Whole(<<>>)) = {}
    BY DEF Whole, GridsOf
  <2>3. Lost(failed, run) = {} /\ 0 .. Dump - 1 = {}
    BY <1>1, <1>2, <1>6 DEF IndexAt
  <2>4. IndexAt(2)'
    <3>1. Account(disk[Index], Dump)'
      BY <1>3, <2>1, <2>2, <2>3 DEF Account
    <3>2. Dump \notin Lost(failed, run)
      BY <2>3
    <3> QED
      BY <1>3, <3>1, <3>2 DEF IndexAt
  <2>5. After(q) = 2
    BY <1>6 DEF After
  <2> QED
    BY <1>2, <1>3, <1>5, <2>4, <2>5 DEF RefusalInv, RefusedSoFar, IndexBetween, IndexInCall
<1>7. CASE q = 3
  <2>1. disk'[Index] = doc
    BY <1>1, <1>2, <1>3, <1>4, <1>7, IndexContents
  <2>2. Account(doc, Dump + 1) /\ doc.whole
    BY <1>1, <1>7 DEF IndexAt
  <2>3. After(q) >= 4 /\ ~(After(q) \in {1, 2, 3})
    BY <1>7 DEF After
  <2>4. IndexAt(After(q))'
    BY <1>3, <1>5, <2>1, <2>2, <2>3 DEF IndexAt, Account
  <2> QED
    BY <1>2, <1>3, <1>5, <2>4 DEF RefusalInv, RefusedSoFar, IndexBetween, IndexInCall
<1>8. CASE q \in 4 .. 8
  <2>1. disk'[Index] = disk[Index]
    BY <1>1, <1>3, <1>4, <1>8
  <2>2. After(q) >= 4 /\ ~(After(q) \in {1, 2, 3})
    BY <1>8 DEF After
  <2>3. IndexAt(After(q))'
    BY <1>1, <1>3, <1>5, <1>8, <2>1, <2>2 DEF IndexAt, Account
  <2> QED
    BY <1>2, <1>3, <1>5, <2>3 DEF RefusalInv, RefusedSoFar, IndexBetween, IndexInCall
<1> QED
  BY <1>6, <1>7, <1>8

(* A refused save of the index leaves it as it was, one grid short, or     *)
(* torn; of another file, it leaves the index alone.                       *)
LEMMA RefuseKeepsAccount ==
  ASSUME OutInv, RefusalInv, Refuse
  PROVE  RefusalInv'
<1> DEFINE new == [run |-> run, file |-> Head(todo).file, dump |-> Dump]
<1>1. PICK q \in {1, 3, 4, 5, 6, 7, 8} :
        /\ At(q) /\ IndexAt(q) /\ Head(todo).file = Target(q) /\ Target(q) \in Files
        /\ q \in {1, 3} <=> Target(q) = Index
  BY SavingIndexAt DEF Refuse
<1>2. pc = "writing" /\ Dump \in Nat /\ (q = 1 => Dump = 0)
  <2>1. q \in 1 .. 9
    BY <1>1
  <2> QED
    BY <1>1, <2>1, SavingAt, FieldOutputAssumption DEF Refuse, OutInv
<1>3. /\ failed' = failed \cup {new} /\ opened' = FALSE
      /\ run' = run /\ Dump' = Dump /\ pc' = pc /\ todo' = Tail(todo)
      /\ doc' = doc /\ disk' = disk
  BY DEF Refuse, Dump
<1>4. new.run = run /\ new.dump = Dump /\ new.file = Target(q)
  BY <1>1
<1>5. After(q)' = After(q) /\ After(q) \in 1 .. 9 /\ At(After(q))'
  BY <1>1, <1>2, <1>3, CallGoesOn DEF After
<1>6. RefusedSoFar' /\ IndexBetween'
  <2>1. Dump <= Dump
    BY <1>2
  <2> QED
    BY <1>2, <1>3, <1>4, <2>1 DEF RefusalInv, RefusedSoFar, IndexBetween
<1> HIDE DEF new
<1>7. CASE q \in {1, 3}
  <2>1. Lost(failed', run) = Lost(failed, run) \cup {Dump}
    BY <1>1, <1>3, <1>4, <1>7 DEF Lost
  <2>2. CASE q = 1
    <3>1. ~(disk'[Index].whole /\ disk'[Index].run = run')
      BY <1>1, <1>3, <2>2 DEF IndexAt
    <3>2. IndexAt(2)'
      BY <3>1 DEF IndexAt, Account
    <3>3. After(q) = 2
      BY <2>2 DEF After
    <3> QED
      BY <1>5, <1>6, <3>2, <3>3 DEF RefusalInv, IndexInCall
  <2>3. CASE q = 3
    <3>1. After(q) >= 4 /\ ~(After(q) \in {1, 2, 3})
      BY <2>3 DEF After
    <3>2. Account(disk[Index], Dump + 1)'
      <4>1. (0 .. Dump) \ (Lost(failed, run) \cup {Dump}) = (0 .. Dump - 1) \ Lost(failed, run)
        BY <1>2
      <4>2. disk[Index].whole => Account(disk[Index], Dump)
        BY <1>1, <2>3 DEF IndexAt
      <4>3. (Dump + 1)' - 1 = Dump /\ 0 .. (Dump + 1)' - 1 = 0 .. Dump
        BY <1>2, <1>3
      <4> QED
        BY <1>3, <2>1, <4>1, <4>2, <4>3 DEF Account
    <3>3. new = [run |-> run, file |-> Index, dump |-> Dump]
      BY <1>1, <2>3 DEF new
    <3>4. IndexAt(After(q))'
      BY <1>3, <1>5, <3>1, <3>2, <3>3 DEF IndexAt
    <3> QED
      BY <1>5, <1>6, <3>4 DEF RefusalInv, IndexInCall
  <2> QED
    BY <1>7, <2>2, <2>3
<1>8. CASE q \in 4 .. 8
  <2>1. Lost(failed', run) = Lost(failed, run)
    BY <1>1, <1>3, <1>4, <1>8 DEF Lost
  <2>2. After(q) >= 4 /\ ~(After(q) \in {1, 2, 3})
    BY <1>8 DEF After
  <2>3. Account(disk[Index], Dump + 1)'
    BY <1>1, <1>3, <1>8, <2>1 DEF IndexAt, Account
  <2>4. IndexAt(After(q))'
    BY <1>1, <1>3, <1>5, <1>8, <2>2, <2>3 DEF IndexAt
  <2> QED
    BY <1>5, <1>6, <2>4 DEF RefusalInv, IndexInCall
<1> QED
  BY <1>7, <1>8

(* The reloaded document lists one dump more, which no refusal has lost. *)
LEMMA LoadKeepsAccount ==
  ASSUME OutInv, RefusalInv, LoadIndex
  PROVE  RefusalInv'
<1>1. /\ todo # <<>> /\ Head(todo).do = "load" /\ pc = "writing"
      /\ run' = run /\ Dump' = Dump /\ opened' = opened /\ disk' = disk /\ failed' = failed
  BY DEF OutInv, OutType, LoadIndex, Dump
<1>2. Dump \in Nat /\ ctrl.step \in Nat
  BY DEF OutInv, OutType
<1>3. PICK q \in 1 .. 9 : At(q) /\ IndexAt(q)
  BY <1>1 DEF RefusalInv, IndexInCall
<1>4. q = 2
  <2>1. q # 9 /\ Head(todo) = Operation(q)
    BY <1>1, <1>2, <1>3, CallGoesOn
  <2>2. \A f : Save(f).do = "save"
    BY DEF Save
  <2> QED
    BY <1>1, <2>1, <2>2 DEF Operation
<1>5. opened = FALSE
  BY <1>1 DEF OutInv, OutType, Saving
<1>6. CASE ~disk[Index].whole
  <2>1. pc' = "terminated"
    BY <1>6 DEF LoadIndex
  <2> QED
    BY <1>1, <2>1 DEF RefusalInv, RefusedSoFar, IndexBetween, IndexInCall
<1>7. CASE disk[Index].whole
  <2> DEFINE s == disk[Index].grids
             e == <<Dump, ctrl.step>>
  <2>1. /\ doc' = [disk[Index] EXCEPT !.grids = Append(s, e)]
        /\ todo' = Tail(todo) /\ pc' = pc
    BY <1>7 DEF LoadIndex
  <2>2. disk[Index] \in Document /\ s \in Seq(Nat \X Nat) /\ e \in Nat \X Nat /\ e[1] = Dump
    BY <1>2, FilesApart DEF OutInv, OutType, Document
  <2>3. /\ Len(s) \in Nat /\ Len(Append(s, e)) = Len(s) + 1
        /\ \A i \in 1 .. Len(s) : Append(s, e)[i] = s[i]
        /\ Append(s, e)[Len(s) + 1] = e
    <3> DEFINE T == Nat \X Nat
    <3>1. s \in Seq(T) /\ e \in T
      BY <2>2
    <3> HIDE DEF T, s, e
    <3> QED
      BY <3>1, AppendProperties, LenProperties
  <2> HIDE DEF s, e
  <2>4. /\ doc'.run = disk[Index].run /\ doc'.whole = disk[Index].whole
        /\ doc'.grids = Append(s, e)
    BY <2>1, <2>2 DEF Document
  <2>5. GridsOf(doc') = GridsOf(disk[Index]) \cup {Dump}
    <3>1. \A i \in 1 .. Len(s) + 1 : i \in 1 .. Len(s) \/ i = Len(s) + 1
      BY <2>3
    <3>2. Len(s) + 1 \in 1 .. Len(s) + 1 /\ \A i \in 1 .. Len(s) : i \in 1 .. Len(s) + 1
      BY <2>3
    <3>3. GridsOf(doc') = {Append(s, e)[i][1] : i \in 1 .. Len(s) + 1}
      BY <2>3, <2>4 DEF GridsOf
    <3>4. GridsOf(disk[Index]) = {s[i][1] : i \in 1 .. Len(s)}
      BY DEF GridsOf, s
    <3> QED
      BY <2>2, <2>3, <3>1, <3>2, <3>3, <3>4
  <2>6. At(3)'
    <3>1. After(2) = 3 /\ After(2)' = 3
      BY DEF After
    <3>2. At(After(2))'
      BY <1>1, <1>2, <1>3, <1>4, <2>1, CallGoesOn
    <3> QED
      BY <3>1, <3>2
  <2>7. /\ Account(disk[Index], Dump)
        /\ disk[Index].run = run => Dump \notin Lost(failed, run)
    BY <1>3, <1>4, <1>7 DEF IndexAt
  <2>8. Account(doc', Dump + 1)
    <3>1. SUFFICES ASSUME disk[Index].run = run
                   PROVE  GridsOf(doc') = (0 .. Dump) \ Lost(failed, run)
      BY <1>2, <2>4 DEF Account
    <3>2. GridsOf(disk[Index]) = (0 .. Dump - 1) \ Lost(failed, run)
      BY <1>7, <2>7, <3>1 DEF Account
    <3>3. 0 .. Dump = (0 .. Dump - 1) \cup {Dump}
      BY <1>2
    <3> QED
      BY <2>5, <2>7, <3>1, <3>2, <3>3
  <2>9. IndexAt(3)'
    BY <1>1, <1>5, <1>7, <2>4, <2>7, <2>8 DEF IndexAt, Account
  <2> QED
    BY <1>1, <2>1, <2>6, <2>9 DEF RefusalInv, RefusedSoFar, IndexBetween, IndexInCall
<1> QED
  BY <1>6, <1>7

(* A call starts with an index that lists the dumps but the lost ones, and *)
(* returns with one.                                                       *)
LEMMA BeginKeepsAccount ==
  ASSUME OutInv, RefusalInv, Begin
  PROVE  RefusalInv'
<1>1. /\ pc = "idle" /\ todo' = Plan(Dump) /\ pc' = "writing"
      /\ run' = run /\ Dump' = Dump /\ opened' = opened /\ disk' = disk
      /\ failed' = failed /\ doc' = doc
  BY DEF Begin, Dump
<1>2. Dump \in Nat /\ opened = FALSE
  BY <1>1 DEF OutInv, OutType, Saving
<1>3. \A f \in failed : f.dump \in Nat /\ (f.run = run => f.dump < Dump)
  BY <1>1 DEF RefusalInv, RefusedSoFar, IndexBetween
<1>4. Dump \notin Lost(failed, run)
  BY <1>2, <1>3 DEF Lost
<1>5. CASE Dump = 0
  <2>1. At(1)'
    BY <1>1, <1>2, <1>5, CallStarts
  <2>2. Lost(failed, run) = {}
    BY <1>3, <1>5 DEF Lost
  <2>3. disk[Index].run # run
    BY <1>1, <1>5 DEF RefusalInv, IndexBetween
  <2>4. IndexAt(1)'
    BY <1>1, <1>2, <2>2, <2>3 DEF IndexAt
  <2> QED
    BY <1>1, <2>1, <2>4 DEF RefusalInv, RefusedSoFar, IndexBetween, IndexInCall
<1>6. CASE Dump # 0
  <2>1. At(2)'
    BY <1>1, <1>2, <1>6, CallStarts
  <2>2. Account(disk[Index], Dump)
    BY <1>1 DEF RefusalInv, IndexBetween
  <2>3. IndexAt(2)'
    BY <1>1, <1>4, <2>2 DEF IndexAt, Account
  <2> QED
    BY <1>1, <2>1, <2>3 DEF RefusalInv, RefusedSoFar, IndexBetween, IndexInCall
<1> QED
  BY <1>5, <1>6

(* ... and when the call returns.                                          *)
LEMMA ReturnKeepsAccount ==
  ASSUME OutInv, RefusalInv, Return
  PROVE  RefusalInv'
<1>1. /\ pc = "writing" /\ todo = <<>> /\ pc' = "idle" /\ run' = run /\ Dump' = Dump + 1
      /\ disk' = disk /\ failed' = failed
  BY DEF Return, Dump, AfterDump
<1>2. Dump \in Nat
  BY DEF OutInv, OutType
<1>3. PICK q \in 1 .. 9 : At(q) /\ IndexAt(q)
  BY <1>1 DEF RefusalInv, IndexInCall
<1>4. q = 9
  BY <1>1, <1>2, <1>3, CallGoesOn
<1>5. /\ Account(disk[Index], Dump + 1)
      /\ ~disk[Index].whole => [run |-> run, file |-> Index, dump |-> Dump] \in failed
  BY <1>3, <1>4 DEF IndexAt
<1>6. \A f \in failed :
        f.dump \in Nat /\ (f.run = run => f.dump <= Dump + 1 /\ f.dump < Dump + 1)
  BY <1>2 DEF RefusalInv, RefusedSoFar
<1>7. RefusedSoFar'
  BY <1>1, <1>6 DEF RefusedSoFar
<1>8. Dump + 1 # 0 /\ Dump + 1 - 1 = Dump
  BY <1>2
<1>9. IndexBetween'
  BY <1>1, <1>5, <1>6, <1>8 DEF IndexBetween, Account
<1> QED
  BY <1>1, <1>7, <1>9 DEF RefusalInv, IndexInCall

(* The index accounts for every dump and every refusal, at every step.     *)
LEMMA RefusalInvariant == OutSpec => []RefusalInv
<1>1. OutInit => RefusalInv
  <2> SUFFICES ASSUME OutInit PROVE RefusalInv
    OBVIOUS
  <2>1. disk[Index] = NoFile /\ NoFile.run = 0 /\ ~NoFile.whole
    BY FilesApart DEF OutInit, NoFile
  <2>2. run = 1 /\ pc = "idle" /\ Dump = 0 /\ failed = {}
    BY DEF OutInit, NewSchedule, Dump
  <2> QED
    BY <2>1, <2>2 DEF RefusalInv, RefusedSoFar, IndexBetween, IndexInCall, Account
<1>2. OutInv /\ RefusalInv /\ [OutNext]_outVars => RefusalInv'
  <2> SUFFICES ASSUME OutInv, RefusalInv, [OutNext]_outVars PROVE RefusalInv'
    OBVIOUS
  <2>1. CASE Skip \/ End
    <3>1. /\ pc = "idle" /\ pc' \in {"idle", "over"} /\ Dump' = Dump
          /\ UNCHANGED <<run, disk, failed>>
      BY <2>1 DEF Skip, End, Dump
    <3> QED
      BY <3>1 DEF RefusalInv, RefusedSoFar, IndexBetween, IndexInCall, Account
  <2>2. CASE Kill
    <3>1. pc' = "killed" /\ Dump' = Dump /\ UNCHANGED <<run, failed>>
      BY <2>2 DEF Kill, Dump
    <3> QED
      BY <3>1 DEF RefusalInv, RefusedSoFar, IndexBetween, IndexInCall
  <2>3. CASE Rerun
    <3>1. run' = run + 1 /\ Dump' = 0 /\ pc' = "idle" /\ UNCHANGED <<disk, failed>>
      BY <2>3 DEF Rerun, StartRun, Dump, NewSchedule
    <3>2. run \in Nat /\ disk[Index].run \in Nat /\ disk[Index].run <= run
      BY FilesApart DEF OutInv, OutType, Document
    <3>3. disk[Index].run # run + 1 /\ \A f \in failed : f.run # run + 1
      BY <3>2 DEF OutInv, OutType
    <3> QED
      BY <3>1, <3>3 DEF RefusalInv, RefusedSoFar, IndexBetween, IndexInCall, Account
  <2>4. CASE UNCHANGED outVars
    <3>1. Dump' = Dump /\ UNCHANGED <<run, pc, todo, opened, doc, disk, failed>>
      BY <2>4 DEF outVars, Dump
    <3>2. \A q \in 1 .. 9 : At(q) => At(q)'
      BY <3>1, CallGoesOn DEF OutInv, OutType
    <3>3. \A q \in 1 .. 9 : IndexAt(q) => IndexAt(q)'
      BY <3>1 DEF IndexAt, Account
    <3>4. IndexInCall'
      BY <3>1, <3>2, <3>3 DEF RefusalInv, IndexInCall
    <3> QED
      BY <3>1, <3>4 DEF RefusalInv, RefusedSoFar, IndexBetween, Account
  <2>5. CASE Stay
    BY <2>4, <2>5 DEF Stay
  <2> QED
    BY <2>1, <2>2, <2>3, <2>4, <2>5, OpenKeepsAccount, CloseKeepsAccount, RefuseKeepsAccount,
       LoadKeepsAccount, BeginKeepsAccount, ReturnKeepsAccount DEF OutNext
<1> QED
  BY <1>1, <1>2, OutInvariant, PTL DEF OutSpec

(* A refused save of the index loses the grid of that dump and no other,   *)
(* and one that tears the index is noticed at the next dump.               *)
THEOREM RefusalsLoseOneGrid == OutSpec => []RefusalsContained
<1>1. RefusalInv => RefusalsContained
  <2>1. {f.dump : f \in {x \in failed : x.run = run /\ x.file = Index}} = Lost(failed, run)
    BY DEF Lost
  <2>2. {disk[Index].grids[i][1] : i \in 1 .. Len(disk[Index].grids)} = GridsOf(disk[Index])
    BY DEF GridsOf
  <2> QED
    BY <2>1, <2>2 DEF RefusalInv, IndexBetween, Account, RefusalsContained
<1> QED
  BY <1>1, RefusalInvariant, PTL
=============================================================================
