------------------------- MODULE ScalarSystem_proofs -------------------------
(***************************************************************************)
(* Proofs about the derivative assembled on the mesh, and about the scalar *)
(* systems built on it: kernels apply the rows of their blocks, each free  *)
(* point has one row, boundary data are those of the time the right-hand   *)
(* side is computed for.                                                   *)
(***************************************************************************)
EXTENDS ScalarSystem, MeshLines_proofs

-----------------------------------------------------------------------------
(* Blocks *)

(* A sequence of the given length. *)
Filled(c, len) == len \in Nat /\ Len(c) = len /\ c = [j \in 1 .. len |-> c[j]]

(* A sequence is one of its own elements. *)
LEMMA FilledIs ==
  ASSUME NEW c, NEW len, Filled(c, len)
  PROVE  \E T : c \in Seq(T)
<1> DEFINE T == {c[j] : j \in 1 .. len}
<1>1. c \in [1 .. len -> T] /\ len \in Nat
  BY DEF Filled
<1>2. c \in Seq(T)
  BY <1>1
<1> QED
  BY <1>2

(* Sequences are filled. *)
LEMMA SeqFilled ==
  ASSUME NEW T, NEW c \in Seq(T)
  PROVE  Filled(c, Len(c))
BY DEF Filled

(* What an end contributes to a block is a matrix of its rows and columns. *)
EndOK(e) == e.rows \in Nat /\ e.cols \in Nat /\ Filled(e.c, e.rows * e.cols)

(* Rows of one length that are joined fill a matrix. *)
LEMMA JoinedFills ==
  ASSUME NEW rows \in Nat, NEW w \in Nat, NEW g, g = [i \in 1 .. rows |-> g[i]],
         \A i \in 1 .. rows : Filled(g[i], w)
  PROVE  Filled(FlattenSeq(g), rows * w)
<1> DEFINE T == {g[i][j] : i \in 1 .. rows, j \in 1 .. w}
<1>1. \A i \in 1 .. rows : g[i] \in Seq(T) /\ Len(g[i]) = w
  BY DEF Filled
<1>2. g \in Seq(Seq(T)) /\ Len(g) = rows
  <2> HIDE DEF T
  <2>1. g \in [1 .. rows -> Seq(T)]
    BY <1>1
  <2> QED
    BY <2>1
<1> HIDE DEF T
<1>3. FlattenSeq(g) \in Seq(T)
  BY <1>2, FlattenTyped
<1>4. Len(FlattenSeq(g)) = rows * w
  BY <1>1, <1>2, FlattenLen
<1> QED
  BY <1>3, <1>4, SeqFilled

(* Without its first or its last element a row is one shorter. *)
LEMMA TailFilled ==
  ASSUME NEW c, NEW t \in Nat \ {0}, NEW at
  PROVE  Filled(Tail(Window(c, at, t)), t - 1) /\ Filled(Front(Window(c, at, t)), t - 1)
<1> DEFINE v == Window(c, at, t)
           T == {c[at + j] : j \in 1 .. t}
<1>1. v \in [1 .. t -> T]
  BY DEF Window
<1> HIDE DEF v, T
<1>2. v \in Seq(T) /\ Len(v) = t
  BY <1>1
<1>3. Tail(v) \in Seq(T) /\ Len(Tail(v)) = t - 1
  BY <1>2
<1>4. Front(v) \in Seq(T) /\ Len(Front(v)) = t - 1
  BY <1>2 DEF Front
<1> QED
  BY <1>3, <1>4, SeqFilled DEF v

-----------------------------------------------------------------------------
(* The kernel and the block *)

(* A block with all its coefficients.                                      *)
BlockOK(b) ==
  /\ EndOK(b.left) /\ EndOK(b.right) /\ Filled(b.inner, Len(b.inner))
  /\ b.row \in Int /\ b.interior \in Int /\ b.stride \in Nat \ {0}

(* All coefficients of a block. *)
CoeffsOf(b) == b.left.c \o b.inner \o b.right.c

(* The elements of two sequences, one after the other. *)
LEMMA ConcatTwo ==
  ASSUME NEW T, NEW a \in Seq(T), NEW b \in Seq(T)
  PROVE  /\ a \o b \in Seq(T) /\ Len(a \o b) = Len(a) + Len(b)
         /\ \A j \in 1 .. Len(a) : (a \o b)[j] = a[j]
         /\ \A j \in 1 .. Len(b) : (a \o b)[Len(a) + j] = b[j]
BY ConcatProperties

(* The elements of three sequences, one after another. *)
LEMMA ThreeJoined ==
  ASSUME NEW T, NEW a \in Seq(T), NEW b \in Seq(T), NEW c \in Seq(T), NEW abc, abc = a \o b \o c
  PROVE  /\ abc \in Seq(T) /\ Len(abc) = Len(a) + Len(b) + Len(c)
         /\ \A j \in 1 .. Len(a) : abc[j] = a[j]
         /\ \A j \in 1 .. Len(b) : abc[Len(a) + j] = b[j]
         /\ \A j \in 1 .. Len(c) : abc[Len(a) + Len(b) + j] = c[j]
<1>0. PICK ab : ab = a \o b /\ abc = ab \o c
  OBVIOUS
<1>1. /\ ab \in Seq(T) /\ Len(ab) = Len(a) + Len(b)
      /\ \A j \in 1 .. Len(a) : ab[j] = a[j]
      /\ \A j \in 1 .. Len(b) : ab[Len(a) + j] = b[j]
  BY <1>0, ConcatTwo
<1>2. /\ abc \in Seq(T) /\ Len(abc) = Len(ab) + Len(c)
      /\ \A j \in 1 .. Len(ab) : abc[j] = ab[j]
      /\ \A j \in 1 .. Len(c) : abc[Len(ab) + j] = c[j]
  BY <1>0, <1>1, ConcatTwo
<1>4. Len(a) \in Nat /\ Len(b) \in Nat /\ Len(c) \in Nat
  OBVIOUS
<1>5. \A j \in 1 .. Len(b) : abc[Len(a) + j] = b[j]
  <2> SUFFICES ASSUME NEW j \in 1 .. Len(b) PROVE abc[Len(a) + j] = b[j]
    OBVIOUS
  <2>1. Len(a) + j \in 1 .. Len(ab)
    BY <1>1, <1>4
  <2> QED
    BY <1>1, <1>2, <2>1
<1>6. \A j \in 1 .. Len(a) : abc[j] = a[j]
  <2> SUFFICES ASSUME NEW j \in 1 .. Len(a) PROVE abc[j] = a[j]
    OBVIOUS
  <2>1. j \in 1 .. Len(ab)
    BY <1>1, <1>4
  <2> QED
    BY <1>1, <1>2, <2>1
<1>7. \A j \in 1 .. Len(c) : abc[Len(a) + Len(b) + j] = c[j]
  BY <1>1, <1>2
<1>8. Len(abc) = Len(a) + Len(b) + Len(c)
  BY <1>1, <1>2
<1> QED
  BY <1>2, <1>5, <1>6, <1>7, <1>8

(* Sequences of any elements have all of them in one set. *)
LEMMA BlocksTyped ==
  ASSUME NEW blocks, NEW m \in Nat, DOMAIN blocks = 1 .. m, \A x \in 1 .. m : BlockOK(blocks[x])
  PROVE  \E T : \A x \in 1 .. m :
           blocks[x].left.c \in Seq(T) /\ blocks[x].inner \in Seq(T) /\ blocks[x].right.c \in Seq(T)
<1> DEFINE T == {blocks[x].left.c[j] : x \in 1 .. m, j \in Nat}
                \cup {blocks[x].inner[j] : x \in 1 .. m, j \in Nat}
                \cup {blocks[x].right.c[j] : x \in 1 .. m, j \in Nat}
<1>1. ASSUME NEW c, NEW len, Filled(c, len), \A j \in Nat : c[j] \in T PROVE c \in Seq(T)
  <2> HIDE DEF T
  <2>1. len \in Nat /\ \A j \in 1 .. len : c[j] \in T
    BY <1>1 DEF Filled
  <2>2. c = [j \in 1 .. len |-> c[j]]
    BY <1>1 DEF Filled
  <2>3. c \in [1 .. len -> T]
    BY <2>1, <2>2
  <2> QED
    BY <2>1, <2>3
<1>2. ASSUME NEW x \in 1 .. m
      PROVE  blocks[x].left.c \in Seq(T) /\ blocks[x].inner \in Seq(T) /\ blocks[x].right.c \in Seq(T)
  <2>1. \A j \in Nat : blocks[x].left.c[j] \in T /\ blocks[x].inner[j] \in T /\ blocks[x].right.c[j] \in T
    BY SMTT(30)
  <2> HIDE DEF T
  <2> QED
    BY <1>1, <2>1 DEF BlockOK, EndOK
<1> HIDE DEF T
<1> QED
  BY <1>2

(* The coefficients of block x are found where its metadata begin. *)
LEMMA CoeffsAt ==
  ASSUME NEW U, NEW blocks \in Seq(U), NEW m \in Nat, m = Len(blocks),
         \A x \in 1 .. m : BlockOK(blocks[x]), NEW x \in 1 .. m
  PROVE  LET at == Len(Coeffs(SubSeq(blocks, 1, x - 1)))
         IN  /\ at \in Nat
             /\ \A j \in 1 .. Len(CoeffsOf(blocks[x])) :
                  Coeffs(blocks)[at + j] = CoeffsOf(blocks[x])[j]
<1> DEFINE ss == [y \in 1 .. m |-> CoeffsOf(blocks[y])]
<1>0. DOMAIN blocks = 1 .. m
  OBVIOUS
<1>1. PICK T : \A y \in 1 .. m :
        blocks[y].left.c \in Seq(T) /\ blocks[y].inner \in Seq(T) /\ blocks[y].right.c \in Seq(T)
  BY <1>0, BlocksTyped
<1>2. ASSUME NEW y \in 1 .. m PROVE CoeffsOf(blocks[y]) \in Seq(T)
  <2>1. PICK c1 \in Seq(T), c2 \in Seq(T), c3 \in Seq(T) :
          c1 = blocks[y].left.c /\ c2 = blocks[y].inner /\ c3 = blocks[y].right.c
    BY <1>1
  <2> QED
    BY <2>1, ThreeJoined DEF CoeffsOf
<1>3. ss \in Seq(Seq(T)) /\ Len(ss) = m /\ ss[x] = CoeffsOf(blocks[x])
  <2>1. ss \in [1 .. m -> Seq(T)]
    BY <1>2
  <2> QED
    BY <2>1
<1>4. Coeffs(blocks) = FlattenSeq(ss)
  BY <1>0 DEF Coeffs, CoeffsOf
<1>5. Coeffs(SubSeq(blocks, 1, x - 1)) = FlattenSeq(SubSeq(ss, 1, x - 1))
  <2>1. PICK y : y = SubSeq(blocks, 1, x - 1)
    OBVIOUS
  <2>3. DOMAIN y = 1 .. x - 1 /\ \A j \in 1 .. x - 1 : y[j] = blocks[j]
    BY <2>1
  <2>4. SubSeq(ss, 1, x - 1) = [j \in 1 .. x - 1 |-> CoeffsOf(blocks[j])]
    <3>1. SubSeq(ss, 1, x - 1) = [j \in 1 .. x - 1 |-> ss[j]]
      BY <1>3
    <3>2. \A j \in 1 .. x - 1 : ss[j] = CoeffsOf(blocks[j])
      OBVIOUS
    <3> HIDE DEF ss
    <3> QED
      BY <3>1, <3>2
  <2>5. [j \in DOMAIN y |-> CoeffsOf(y[j])] = [j \in 1 .. x - 1 |-> CoeffsOf(blocks[j])]
    BY <2>3, Zenon
  <2>6. Coeffs(y) = FlattenSeq([j \in DOMAIN y |-> CoeffsOf(y[j])])
    BY DEF Coeffs, CoeffsOf
  <2> HIDE DEF ss
  <2> QED
    BY <2>1, <2>4, <2>5, <2>6, Zenon
<1> HIDE DEF ss
<1>6. \A j \in 1 .. Len(ss[x]) :
        LET at == Len(FlattenSeq(SubSeq(ss, 1, x - 1)))
        IN  at \in Nat /\ FlattenSeq(ss)[at + j] = ss[x][j]
  BY <1>3, FlattenAt
<1>7. Len(FlattenSeq(SubSeq(ss, 1, x - 1))) \in Nat
  <2>1. SubSeq(ss, 1, x - 1) \in Seq(Seq(T))
    <3>1. PICK Sq : Sq = Seq(T)
      OBVIOUS
    <3>2. ss \in Seq(Sq)
      BY <1>3, <3>1
    <3>3. SubSeq(ss, 1, x - 1) \in Seq(Sq)
      BY <1>3, <3>2
    <3> QED
      BY <3>1, <3>3
  <2>2. FlattenSeq(SubSeq(ss, 1, x - 1)) \in Seq(T)
    BY <2>1, FlattenTyped
  <2> QED
    BY <2>2
<1> QED
  BY <1>3, <1>4, <1>5, <1>6, <1>7

(* An element of a row is one of the matrix. *)
LEMMA RowInside ==
  ASSUME NEW rows \in Nat, NEW w \in Nat, NEW i \in 0 .. rows - 1, NEW j \in 1 .. w
  PROVE  i * w \in Int /\ (i * w) + j \in 1 .. rows * w
<1>1. PICK rest \in Nat : rows = (i + 1) + rest
  <2>1. rows - (i + 1) \in Nat /\ rows = (i + 1) + (rows - (i + 1))
    OBVIOUS
  <2> QED
    BY <2>1
<1>2. rows * w = ((i * w) + w) + (rest * w)
  BY <1>1
<1>3. i * w \in Nat /\ rest * w \in Nat
  OBVIOUS
<1> HIDE <1>1
<1>4. PICK a, b, c : a \in Nat /\ b \in Nat /\ a = i * w /\ b = rest * w /\ c = rows * w
  BY <1>3
<1>5. c = (a + w) + b
  BY <1>2, <1>4
<1>6. a + j \in 1 .. c
  BY <1>4, <1>5
<1> QED
  BY <1>3, <1>4, <1>6

(* What the kernel finds for a row is that row. *)
LEMMA KernelBlock ==
  ASSUME NEW U, NEW blocks \in Seq(U), NEW m \in Nat, m = Len(blocks),
         \A x \in 1 .. m : BlockOK(blocks[x]), NEW x \in 1 .. m, NEW i \in RowsOf(blocks[x])
  PROVE  KernelCoeffs(blocks[x], Metadata(blocks, x), Coeffs(blocks), i) = BlockRow(blocks[x], i).c
<1> DEFINE at == Len(Coeffs(SubSeq(blocks, 1, x - 1)))
<1>1. PICK b, coeffs, meta : b = blocks[x] /\ coeffs = Coeffs(blocks) /\ meta = Metadata(blocks, x)
  OBVIOUS
<1>2. PICK a \in Nat : a = at /\ \A e \in 1 .. Len(CoeffsOf(b)) : coeffs[a + e] = CoeffsOf(b)[e]
  <2>1. /\ at \in Nat
        /\ \A e \in 1 .. Len(CoeffsOf(blocks[x])) :
             Coeffs(blocks)[at + e] = CoeffsOf(blocks[x])[e]
    BY CoeffsAt
  <2> HIDE DEF at
  <2> QED
    BY <1>1, <2>1, Zenon
<1>3. BlockOK(b)
  BY <1>1
<1>4. PICK l \in Nat, w \in Nat, r \in Nat, v \in Nat, z \in Nat, q \in Int :
        /\ l = b.left.rows /\ w = b.left.cols /\ r = b.right.rows /\ v = b.right.cols
        /\ z = Len(b.inner) /\ q = b.interior
        /\ Filled(b.left.c, l * w) /\ Filled(b.right.c, r * v) /\ Filled(b.inner, z)
  <2>1. b.left.rows \in Nat /\ b.left.cols \in Nat /\ b.right.rows \in Nat /\ b.right.cols \in Nat
        /\ b.interior \in Int
    BY <1>3 DEF BlockOK, EndOK
  <2>2. Len(b.inner) \in Nat
    BY <1>3 DEF BlockOK, Filled
  <2>3. /\ Filled(b.left.c, b.left.rows * b.left.cols)
        /\ Filled(b.right.c, b.right.rows * b.right.cols) /\ Filled(b.inner, Len(b.inner))
    BY <1>3 DEF BlockOK, EndOK
  <2> QED
    BY <2>1, <2>2, <2>3, Zenon
<1>5. PICK lw \in Nat, rv \in Nat : lw = l * w /\ rv = r * v
  OBVIOUS
<1>6. meta = [left |-> a, interior |-> a + lw, right |-> (a + lw) + z]
  BY <1>1, <1>2, <1>4, <1>5 DEF Metadata
<1>7. /\ \A e \in 1 .. lw : coeffs[a + e] = b.left.c[e]
      /\ \A e \in 1 .. z : coeffs[(a + lw) + e] = b.inner[e]
      /\ \A e \in 1 .. rv : coeffs[((a + lw) + z) + e] = b.right.c[e]
  <2>1. PICK T : b.left.c \in Seq(T) /\ b.inner \in Seq(T) /\ b.right.c \in Seq(T)
    <3>1. DOMAIN blocks = 1 .. m
      OBVIOUS
    <3> QED
      BY <1>1, <3>1, BlocksTyped
  <2>2. Len(b.left.c) = lw /\ Len(b.inner) = z /\ Len(b.right.c) = rv
    BY <1>4, <1>5 DEF Filled
  <2>3. PICK all : all = CoeffsOf(b)
    OBVIOUS
  <2>4. /\ Len(all) = (lw + z) + rv
        /\ \A e \in 1 .. lw : all[e] = b.left.c[e]
        /\ \A e \in 1 .. z : all[lw + e] = b.inner[e]
        /\ \A e \in 1 .. rv : all[(lw + z) + e] = b.right.c[e]
    <3>1. PICK c1, c2, c3 : c1 = b.left.c /\ c2 = b.inner /\ c3 = b.right.c
      OBVIOUS
    <3>2. c1 \in Seq(T) /\ c2 \in Seq(T) /\ c3 \in Seq(T) /\ all = c1 \o c2 \o c3
          /\ Len(c1) = lw /\ Len(c2) = z /\ Len(c3) = rv
      BY <2>1, <2>2, <2>3, <3>1 DEF CoeffsOf
    <3>3. /\ Len(all) = Len(c1) + Len(c2) + Len(c3)
          /\ \A e \in 1 .. Len(c1) : all[e] = c1[e]
          /\ \A e \in 1 .. Len(c2) : all[Len(c1) + e] = c2[e]
          /\ \A e \in 1 .. Len(c3) : all[Len(c1) + Len(c2) + e] = c3[e]
      <4>1. c1 \in Seq(T) /\ c2 \in Seq(T) /\ c3 \in Seq(T)
        BY <3>2
      <4>2. all = c1 \o c2 \o c3
        BY <3>2
      <4> QED
        BY <4>1, <4>2, ThreeJoined
    <3> QED
      BY <3>1, <3>2, <3>3
  <2>5. \A e \in 1 .. Len(all) : coeffs[a + e] = all[e]
    BY <1>2, <2>3
  <2>6. \A e \in 1 .. lw : coeffs[a + e] = b.left.c[e]
    <3> SUFFICES ASSUME NEW e \in 1 .. lw PROVE coeffs[a + e] = b.left.c[e]
      OBVIOUS
    <3>1. e \in 1 .. Len(all)
      BY <2>4
    <3> QED
      BY <2>4, <2>5, <3>1
  <2>7. \A e \in 1 .. z : coeffs[(a + lw) + e] = b.inner[e]
    <3> SUFFICES ASSUME NEW e \in 1 .. z PROVE coeffs[(a + lw) + e] = b.inner[e]
      OBVIOUS
    <3>1. lw + e \in 1 .. Len(all) /\ a + (lw + e) = (a + lw) + e
      BY <2>4
    <3> QED
      BY <2>4, <2>5, <3>1
  <2>8. \A e \in 1 .. rv : coeffs[((a + lw) + z) + e] = b.right.c[e]
    <3> SUFFICES ASSUME NEW e \in 1 .. rv PROVE coeffs[((a + lw) + z) + e] = b.right.c[e]
      OBVIOUS
    <3>1. (lw + z) + e \in 1 .. Len(all) /\ a + ((lw + z) + e) = ((a + lw) + z) + e
      BY <2>4
    <3> QED
      BY <2>4, <2>5, <3>1
  <2> QED
    BY <2>6, <2>7, <2>8
<1>8. i \in Int /\ 0 <= i /\ (i - l) - q < r
  <2>1. i \in RowsOf(b)
    BY <1>1
  <2>2. RowsOf(b) = 0 .. ((l + q) + r) - 1
    <3>1. b.left.rows = l /\ b.right.rows = r /\ b.interior = q
      BY <1>4
    <3>2. RowsOf(b) = 0 .. (l + q) + (r - 1)
      BY <3>1, Zenon DEF RowsOf
    <3>3. (l + q) + (r - 1) = ((l + q) + r) - 1
      OBVIOUS
    <3> QED
      BY <3>2, <3>3, Zenon
  <2> HIDE DEF RowsOf
  <2> QED
    BY <2>1, <2>2
<1>9. PICK j \in Int : j = (i - l) - q
  BY <1>8
<1>10. CASE i < l
  <2>1. ASSUME NEW e \in 1 .. w PROVE coeffs[(a + (i * w)) + e] = b.left.c[(i * w) + e]
    <3>1. (i * w) + e \in 1 .. lw /\ i * w \in Int
      <4>1. i \in 0 .. l - 1
        BY <1>8, <1>10
      <4> QED
        BY <1>5, <4>1, RowInside
    <3>2. PICK iw \in Int : iw = i * w
      BY <3>1
    <3>3. (a + iw) + e = a + (iw + e)
      OBVIOUS
    <3> QED
      BY <1>7, <3>1, <3>2, <3>3
  <2>2. Window(coeffs, a + (i * w), w) = Window(b.left.c, i * w, w)
    BY <2>1, Zenon DEF Window
  <2>3. KernelCoeffs(b, meta, coeffs, i) = Window(coeffs, a + (i * w), w)
    <3>1. KernelCoeffs(b, meta, coeffs, i) = Window(coeffs, meta.left + (i * b.left.cols), b.left.cols)
      <4>1. i < b.left.rows /\ ~(i >= b.left.rows)
        BY <1>4, <1>8, <1>10
      <4> QED
        BY <4>1, Zenon DEF KernelCoeffs
    <3> QED
      BY <1>4, <1>6, <3>1
  <2>4. BlockRow(b, i).c = Window(b.left.c, i * w, w)
    <3>1. BlockRow(b, i).c = Row(b.left.c, b.left.cols, i)
      BY <1>4, <1>8, <1>10 DEF BlockRow
    <3> QED
      BY <1>4, <3>1, Zenon DEF Row
  <2> QED
    BY <1>1, <2>2, <2>3, <2>4
<1>11. CASE i >= l /\ j < 0
  <2>1. Window(coeffs, a + lw, z) = [e \in 1 .. z |-> b.inner[e]]
    BY <1>7, Zenon DEF Window
  <2>2. Window(coeffs, a + lw, z) = b.inner
    BY <1>4, <2>1 DEF Filled
  <2>3. KernelCoeffs(b, meta, coeffs, i) = Window(coeffs, a + lw, z)
    BY <1>4, <1>6, <1>8, <1>9, <1>11 DEF KernelCoeffs
  <2>4. BlockRow(b, i).c = b.inner
    BY <1>4, <1>8, <1>9, <1>11 DEF BlockRow
  <2> QED
    BY <1>1, <2>2, <2>3, <2>4
<1>12. CASE i >= l /\ j >= 0
  <2>1. ASSUME NEW e \in 1 .. v
        PROVE  coeffs[(((a + lw) + z) + (j * v)) + e] = b.right.c[(j * v) + e]
    <3>1. (j * v) + e \in 1 .. rv /\ j * v \in Int
      <4>1. j \in 0 .. r - 1
        BY <1>8, <1>9, <1>12
      <4> QED
        BY <1>5, <4>1, RowInside
    <3>2. PICK jv \in Int : jv = j * v
      BY <3>1
    <3>3. (((a + lw) + z) + jv) + e = ((a + lw) + z) + (jv + e)
      OBVIOUS
    <3> QED
      BY <1>7, <3>1, <3>2, <3>3
  <2>2. Window(coeffs, ((a + lw) + z) + (j * v), v) = Window(b.right.c, j * v, v)
    BY <2>1, Zenon DEF Window
  <2>3. KernelCoeffs(b, meta, coeffs, i) = Window(coeffs, ((a + lw) + z) + (j * v), v)
    BY <1>4, <1>6, <1>8, <1>9, <1>12 DEF KernelCoeffs
  <2>4. BlockRow(b, i).c = Window(b.right.c, j * v, v)
    BY <1>4, <1>8, <1>9, <1>12 DEF BlockRow, Row
  <2> QED
    BY <1>1, <2>2, <2>3, <2>4
<1> QED
  BY <1>8, <1>9, <1>10, <1>11, <1>12

(* Multiples of a stride are in the order of their factors. *)
LEMMA StrideOrder ==
  ASSUME NEW s \in Nat \ {0}, NEW x \in Int, NEW y \in Int
  PROVE  /\ x * s \in Int /\ y * s \in Int
         /\ (x < y => x * s < y * s) /\ (x <= y => x * s <= y * s)
         /\ (y * s) - (x * s) = (y - x) * s /\ (y * s) + (x * s) = (y + x) * s
         /\ (x * s) \div s = x
<1>1. PICK d \in Int : d = y - x
  OBVIOUS
<1>2. y * s = (x * s) + (d * s)
  BY <1>1
<1>3. x * s \in Int /\ d * s \in Int /\ y * s \in Int
  OBVIOUS
<1>4. d > 0 => d * s > 0
  BY SMT
<1>5. (x * s) \div s = x
  BY SMT
<1>6. (x < y => x * s < y * s) /\ (x <= y => x * s <= y * s)
  <2>1. PICK a \in Int, c \in Int, e \in Int : a = x * s /\ c = y * s /\ e = d * s
    BY <1>3
  <2>2. c = a + e /\ (d > 0 => e > 0) /\ (d = 0 => e = 0)
    BY <1>2, <1>4, <2>1
  <2>3. (x < y => a < c) /\ (x <= y => a <= c)
    BY <1>1, <2>2
  <2> QED
    BY <2>1, <2>3
<1>7. (y * s) - (x * s) = (y - x) * s /\ (y * s) + (x * s) = (y + x) * s
  OBVIOUS
<1> QED
  BY <1>3, <1>5, <1>6, <1>7

(* The matrix of a block that has row i. *)
HasRow(b, i, a) == a.row <= b.row + i * b.stride /\ b.row + i * b.stride < a.row + a.rows * b.stride

(* What that matrix does for the row. *)
RowIn(b, i, a) ==
  LET j == (b.row + i * b.stride - a.row) \div b.stride
  IN  IF a.kind = "dense" THEN [from |-> a.col, c |-> Row(a.c, a.cols, j)]
      ELSE [from |-> a.row + (j - Len(a.c) \div 2) * b.stride, c |-> a.c]

(* A matrix that begins with row f of a block has its next `rows' rows.    *)
LEMMA RowsHad ==
  ASSUME NEW b, b.row \in Int, b.stride \in Nat \ {0}, NEW i \in Int, NEW a, NEW f \in Int,
         a.rows \in Int, a.row = b.row + f * b.stride
  PROVE  /\ HasRow(b, i, a) <=> f <= i /\ i < f + a.rows
         /\ (b.row + i * b.stride - a.row) \div b.stride = i - f
<1>1. PICK s \in Nat \ {0}, m \in Int, row \in Int : s = b.stride /\ m = a.rows /\ row = b.row
  OBVIOUS
<1>2. PICK is \in Int, fs \in Int, ms \in Int, fms \in Int :
        is = i * s /\ fs = f * s /\ ms = m * s /\ fms = (f + m) * s
  BY StrideOrder
<1>3. /\ fs <= is <=> f <= i
      /\ is < fms <=> i < f + m
  <2>1. (f <= i => fs <= is) /\ (i < f => is < fs)
    BY <1>2, StrideOrder
  <2>2. (i < f + m => is < fms) /\ (f + m <= i => fms <= is)
    <3>1. PICK g \in Int : g = f + m
      OBVIOUS
    <3>2. fms = g * s
      BY <1>2, <3>1
    <3>3. (i < g => is < fms) /\ (g <= i => fms <= is)
      BY <1>2, <3>2, StrideOrder
    <3> QED
      BY <3>1, <3>3
  <2> QED
    BY <2>1, <2>2
<1>4. fms = fs + ms
  BY <1>2
<1>5. HasRow(b, i, a) <=> f <= i /\ i < f + m
  <2>1. HasRow(b, i, a) <=> row + fs <= row + is /\ row + is < (row + fs) + ms
    BY <1>1, <1>2, Zenon DEF HasRow
  <2> QED
    BY <1>3, <1>4, <2>1
<1>6. (b.row + i * b.stride - a.row) \div b.stride = i - f
  <2>1. b.row + i * b.stride - a.row = row + (is - (row + fs))
    BY <1>1, <1>2, Zenon
  <2>2. row + (is - (row + fs)) = is - fs
    OBVIOUS
  <2>3. is - fs = (i - f) * s
    BY <1>2, StrideOrder
  <2>4. ((i - f) * s) \div s = i - f
    BY StrideOrder
  <2> QED
    BY <1>1, <2>1, <2>2, <2>3, <2>4, Zenon
<1> QED
  BY <1>1, <1>5, <1>6

(* Of three matrices the one with the row is chosen. *)
LEMMA ChosenIs ==
  ASSUME NEW b, NEW i, NEW a, a \in {DenseLeft(b), Circulant(b), DenseRight(b)},
         \A x \in {DenseLeft(b), Circulant(b), DenseRight(b)} : HasRow(b, i, x) <=> x = a
  PROVE  HostRow(b, i) = RowIn(b, i, a)
<1>1. PICK set : set = {DenseLeft(b), Circulant(b), DenseRight(b)}
  OBVIOUS
<1>2. (CHOOSE x \in set : HasRow(b, i, x)) = a
  BY <1>1, Zenon
<1>3. HostRow(b, i) = RowIn(b, i, CHOOSE x \in set : HasRow(b, i, x))
  BY <1>1, Zenon DEF HostRow, RowIn, HasRow
<1> QED
  BY <1>2, <1>3, Zenon

(* The rows on the host are those of the kernel. *)
LEMMA HostBlock ==
  ASSUME NEW b, BlockOK(b), b.interior >= 0, NEW i \in RowsOf(b)
  PROVE  BlockRow(b, i) = HostRow(b, i)
<1>1. PICK l \in Nat, r \in Nat, q \in Nat, s \in Nat \ {0}, row \in Int :
        /\ l = b.left.rows /\ r = b.right.rows /\ q = b.interior /\ s = b.stride /\ row = b.row
  <2>1. b.left.rows \in Nat /\ b.right.rows \in Nat /\ b.interior \in Nat
        /\ b.stride \in Nat \ {0} /\ b.row \in Int
    BY DEF BlockOK, EndOK
  <2> QED
    BY <2>1, Zenon
<1>2. i \in Int /\ 0 <= i /\ i < (l + q) + r
  <2>1. RowsOf(b) = 0 .. (l + q) + (r - 1)
    BY <1>1, Zenon DEF RowsOf
  <2> HIDE DEF RowsOf
  <2> QED
    BY <2>1
<1>3. PICK half \in Int : half = Len(b.inner) \div 2
  <2>1. Len(b.inner) \in Nat
    BY DEF BlockOK, Filled
  <2>2. PICK z \in Nat : z = Len(b.inner)
    BY <2>1
  <2>3. z \div 2 \in Int
    OBVIOUS
  <2> QED
    BY <2>2, <2>3, Zenon
<1>4. PICK dl, ci, dr : dl = DenseLeft(b) /\ ci = Circulant(b) /\ dr = DenseRight(b)
  OBVIOUS
<1>5. /\ dl.kind = "dense" /\ dl.row = row /\ dl.rows = l /\ dl.col = b.col
      /\ dl.cols = b.left.cols /\ dl.c = b.left.c
  BY <1>1, <1>4 DEF DenseLeft
<1>6. /\ ci.kind = "circulant" /\ ci.row = row + l * s /\ ci.rows = q /\ ci.c = b.inner
  BY <1>1, <1>4, Zenon DEF Circulant
<1>7. /\ dr.kind = "dense" /\ dr.row = row + (l + q) * s /\ dr.rows = r /\ dr.col = b.rightCol
      /\ dr.cols = b.right.cols /\ dr.c = b.right.c
  BY <1>1, <1>4, Zenon DEF DenseRight
<1>8. /\ HasRow(b, i, dl) <=> i < l
      /\ (b.row + i * b.stride - dl.row) \div b.stride = i
  <2>1. PICK f \in Int : f = 0 /\ dl.row = b.row + f * b.stride
    BY <1>1, <1>5
  <2>2. b.row \in Int /\ b.stride \in Nat \ {0} /\ dl.rows \in Int /\ f \in Int /\ i \in Int
    BY <1>1, <1>2, <1>5
  <2>3. dl.row = b.row + f * b.stride
    BY <2>1
  <2>4. /\ HasRow(b, i, dl) <=> f <= i /\ i < f + dl.rows
        /\ (b.row + i * b.stride - dl.row) \div b.stride = i - f
    <3> HIDE <2>1
    <3> QED
      BY <2>2, <2>3, RowsHad
  <2> QED
    BY <1>1, <1>2, <1>5, <2>1, <2>4
<1>9. /\ HasRow(b, i, ci) <=> l <= i /\ i < l + q
      /\ (b.row + i * b.stride - ci.row) \div b.stride = i - l
  <2>1. ci.row = b.row + l * b.stride
    BY <1>1, <1>6
  <2>2. b.row \in Int /\ b.stride \in Nat \ {0} /\ ci.rows \in Int /\ l \in Int /\ i \in Int
    BY <1>1, <1>2, <1>6
  <2>3. /\ HasRow(b, i, ci) <=> l <= i /\ i < l + ci.rows
        /\ (b.row + i * b.stride - ci.row) \div b.stride = i - l
    BY <2>1, <2>2, RowsHad
  <2>4. ci.rows \in Int /\ (b.row + i * b.stride - ci.row) \div b.stride = i - l
    BY <2>2, <2>3
  <2> QED
    BY <1>1, <1>2, <1>6, <2>3, <2>4
<1>10. /\ HasRow(b, i, dr) <=> l + q <= i
       /\ (b.row + i * b.stride - dr.row) \div b.stride = i - (l + q)
  <2>1. PICK f \in Int : f = l + q
    OBVIOUS
  <2>2. dr.row = b.row + f * b.stride
    BY <1>1, <1>7, <2>1
  <2>4. b.row \in Int /\ b.stride \in Nat \ {0} /\ dr.rows \in Int /\ f \in Int /\ i \in Int
    BY <1>1, <1>2, <1>7
  <2>5. /\ HasRow(b, i, dr) <=> f <= i /\ i < f + dr.rows
        /\ (b.row + i * b.stride - dr.row) \div b.stride = i - f
    BY <2>2, <2>4, RowsHad
  <2>3. /\ HasRow(b, i, dr) <=> f <= i /\ i < f + r
        /\ (b.row + i * b.stride - dr.row) \div b.stride = i - f
    BY <1>7, <2>5
  <2> QED
    BY <1>2, <2>1, <2>3
<1>11. /\ BlockRow(b, i) = IF i < l THEN [from |-> b.col, c |-> Row(b.left.c, b.left.cols, i)]
                           ELSE IF i < l + q
                           THEN [from |-> row + (i - half) * s, c |-> b.inner]
                           ELSE [from |-> b.rightCol, c |-> Row(b.right.c, b.right.cols, i - (l + q))]
  <2>1. PICK j \in Int : j = i - b.left.rows - b.interior /\ j = i - (l + q)
    BY <1>1, <1>2
  <2>2. BlockRow(b, i) = CASE i < l -> [from |-> b.col, c |-> Row(b.left.c, b.left.cols, i)]
                           [] i >= l /\ j < 0 -> [from |-> row + (i - half) * s, c |-> b.inner]
                           [] i >= l /\ j >= 0 -> [from |-> b.rightCol, c |-> Row(b.right.c, b.right.cols, j)]
    BY <1>1, <1>3, <2>1, Zenon DEF BlockRow
  <2>3. (j < 0 <=> i < l + q) /\ (j >= 0 <=> ~(i < l + q)) /\ (i >= l <=> ~(i < l))
    BY <1>2, <2>1
  <2> QED
    BY <1>2, <2>1, <2>2, <2>3
<1>12. CASE i < l
  <2>1. \A x \in {dl, ci, dr} : HasRow(b, i, x) <=> x = dl
    BY <1>2, <1>8, <1>9, <1>10, <1>12
  <2>2. HostRow(b, i) = RowIn(b, i, dl)
    BY <1>4, <2>1, ChosenIs, Zenon
  <2>3. RowIn(b, i, dl) = [from |-> b.col, c |-> Row(b.left.c, b.left.cols, i)]
    BY <1>5, <1>8, Zenon DEF RowIn
  <2> QED
    BY <1>11, <1>12, <2>2, <2>3
<1>13. CASE ~(i < l) /\ i < l + q
  <2>1. \A x \in {dl, ci, dr} : HasRow(b, i, x) <=> x = ci
    BY <1>2, <1>8, <1>9, <1>10, <1>13
  <2>2. HostRow(b, i) = RowIn(b, i, ci)
    BY <1>4, <2>1, ChosenIs, Zenon
  <2>3. RowIn(b, i, ci) = [from |-> ci.row + ((i - l) - half) * s, c |-> b.inner]
    <3>1. ci.kind # "dense"
      BY <1>6
    <3> QED
      BY <1>1, <1>3, <1>6, <1>9, <3>1, Zenon DEF RowIn
  <2>4. ci.row + ((i - l) - half) * s = row + (i - half) * s
    <3>1. (i - half) * s = (l * s) + (((i - l) - half) * s)
      <4>1. PICK x \in Int : x = (i - l) - half /\ i - half = l + x
        BY <1>2
      <4>2. (l + x) * s = (l * s) + (x * s)
        OBVIOUS
      <4> QED
        BY <4>1, <4>2, Zenon
    <3>2. PICK a \in Int, c \in Int, e \in Int :
            a = (i - half) * s /\ c = l * s /\ e = ((i - l) - half) * s
      BY <1>2
    <3>3. (row + c) + e = row + a
      BY <3>1, <3>2
    <3> QED
      BY <1>6, <3>2, <3>3, Zenon
  <2> QED
    BY <1>11, <1>13, <2>2, <2>3, <2>4
<1>14. CASE ~(i < l + q)
  <2>1. \A x \in {dl, ci, dr} : HasRow(b, i, x) <=> x = dr
    BY <1>2, <1>8, <1>9, <1>10, <1>14
  <2>2. HostRow(b, i) = RowIn(b, i, dr)
    BY <1>4, <2>1, ChosenIs, Zenon
  <2>3. RowIn(b, i, dr) = [from |-> b.rightCol, c |-> Row(b.right.c, b.right.cols, i - (l + q))]
    BY <1>7, <1>10, Zenon DEF RowIn
  <2>4. ~(i < l)
    BY <1>2, <1>14
  <2> QED
    BY <1>11, <1>14, <2>2, <2>3, <2>4
<1> QED
  BY <1>12, <1>13, <1>14

-----------------------------------------------------------------------------
(* Assembly *)

(* What is known of the closure at an end.                                 *)
ClosureOK(b, a) ==
  /\ IsObject(b) => a.info.r \in Nat \ {0} /\ a.info.t \in Nat \ {0}
  /\ ~IsObject(b) => /\ a.info.r \in Nat /\ a.info.t \in Nat
                     /\ Filled(a.nbs.c, a.info.r * a.info.t)

(* The closure of an end of a line has its size.                           *)
LEMMA ClosureFacts ==
  ASSUME MeshInv, op \in Derivatives(cfg), NEW b, b.object \in Ends(op.d), NEW right \in BOOLEAN
  PROVE  ClosureOK(b, ClosureAt(b, right))
<1>1. cfg \in Configs /\ op.d \in Dirs /\ DOMAIN op.obj = DOMAIN cfg.shapes
  BY ClosureAssumption DEF MeshInv, MeshTyped
<1>2. PICK a : a = ClosureAt(b, right)
  OBVIOUS
<1>3. a.info = QueryOf(op.st, EndBC(b, right))
      /\ a.nbs = NbsOf(op.st, Spacing[op.d], EndBC(b, right), EndPsi(b), right)
  BY <1>2 DEF ClosureAt
<1>4. CASE IsObject(b)
  <2>1. b.object \in 1 .. Len(R[op.d])
    BY <1>4 DEF IsObject, Ends, Wall, Nobody
  <2>2. R[op.d][b.object].shape \in DOMAIN op.obj
    BY <1>1, <2>1 DEF MeshInv, AllRecorded, Recorded
  <2>3. EndBC(b, right) = op.obj[R[op.d][b.object].shape]
    BY <1>4 DEF EndBC, ObjectBC
  <2>4. PICK i \in DOMAIN op.obj : i = R[op.d][b.object].shape
    BY <2>2
  <2>5. a.info = QueryOf(op.st, op.obj[i])
    BY <1>3, <2>3, <2>4, Zenon
  <2>6. QueryOf(op.st, op.obj[i]).r \in Nat \ {0} /\ QueryOf(op.st, op.obj[i]).t \in Nat \ {0}
    BY <1>1, ClosureAssumption
  <2> QED
    BY <1>2, <1>4, <2>5, <2>6 DEF ClosureOK
<1>5. CASE ~IsObject(b)
  <2>1. PICK bc : bc = WallBC(right)
    OBVIOUS
  <2>2. a.info = QueryOf(op.st, bc) /\ a.nbs = NbsOf(op.st, Spacing[op.d], bc, PerCell, right)
    BY <1>3, <1>5, <2>1 DEF EndBC, EndPsi
  <2>3. bc = IF right THEN op.grid[op.d].right ELSE op.grid[op.d].left
    BY <2>1 DEF WallBC
  <2>4. LET info == QueryOf(op.st, bc)
            closure == NbsOf(op.st, Spacing[op.d], bc, PerCell, right).c
        IN  /\ info.r \in Nat /\ info.t \in Nat
            /\ closure \in Seq(Int) /\ Len(closure) = info.r * info.t
    BY <1>1, <2>3, ClosureAssumption
  <2>5. /\ a.info.r \in Nat /\ a.info.t \in Nat
        /\ a.nbs.c \in Seq(Int) /\ Len(a.nbs.c) = a.info.r * a.info.t
    BY <2>2, <2>4, Zenon
  <2>6. Filled(a.nbs.c, Len(a.nbs.c))
    BY <2>5, SeqFilled
  <2>7. Filled(a.nbs.c, a.info.r * a.info.t)
    BY <2>5, <2>6, Zenon
  <2> QED
    BY <1>2, <1>5, <2>5, <2>7 DEF ClosureOK
<1> QED
  BY <1>4, <1>5

(* Rows of a closure with t columns, without the column at one of its ends. *)
Shortened(g, m, c, t) ==
  /\ g = [i \in 1 .. m |-> g[i]]
  /\ \/ \A i \in 1 .. m : \E at : g[i] = Tail(Window(c, at, t))
     \/ \A i \in 1 .. m : \E at : g[i] = Front(Window(c, at, t))

(* The rows left of a closure at an object make a matrix.                  *)
LEMMA ObjectFilled ==
  ASSUME NEW m \in Nat, NEW t \in Nat \ {0}, NEW c, NEW g, Shortened(g, m, c, t)
  PROVE  Filled(FlattenSeq(g), m * (t - 1))
<1>1. \A i \in 1 .. m : Filled(g[i], t - 1)
  BY TailFilled DEF Shortened
<1>2. PICK w \in Nat : w = t - 1
  OBVIOUS
<1>3. g = [i \in 1 .. m |-> g[i]] /\ \A i \in 1 .. m : Filled(g[i], w)
  BY <1>1, <1>2 DEF Shortened
<1>4. Filled(FlattenSeq(g), m * w)
  BY <1>3, JoinedFills
<1> QED
  BY <1>2, <1>4

(* The left end of a line contributes a matrix.                            *)
LEMMA LeftOK ==
  ASSUME NEW l, NEW a, ClosureOK(l.start, a)
  PROVE  EndOK(LeftRows(l, a))
<1>1. PICK e : e = LeftRows(l, a)
  OBVIOUS
<1>2. CASE IsObject(l.start)
  <2>1. PICK r \in Nat \ {0}, t \in Nat \ {0}, s \in {0, 1}, m \in Nat :
          r = a.info.r /\ t = a.info.t /\ s = Skipped(l.start, FALSE) /\ m = r - s
    <3>1. PICK r \in Nat \ {0}, t \in Nat \ {0}, s \in {0, 1} :
            r = a.info.r /\ t = a.info.t /\ s = Skipped(l.start, FALSE)
      BY <1>2 DEF ClosureOK, Skipped
    <3>2. r - s \in Nat
      OBVIOUS
    <3> QED
      BY <3>1, <3>2, Zenon
  <2> DEFINE g == [i \in 1 .. m |-> Tail(Row(a.nbs.c, t, (i - 1) + s))]
  <2>2. e.rows = m /\ e.cols = t - 1 /\ e.c = FlattenSeq(g)
    BY <1>1, <1>2, <2>1 DEF LeftRows, Joined
  <2>3. \A i \in 1 .. m : \E at : g[i] = Tail(Window(a.nbs.c, at, t))
    BY DEF Row
  <2>4. Shortened(g, m, a.nbs.c, t)
    BY <2>3 DEF Shortened
  <2> HIDE DEF g
  <2>5. t - 1 \in Nat /\ Filled(FlattenSeq(g), m * (t - 1))
    BY <2>4, ObjectFilled
  <2> QED
    BY <1>1, <2>2, <2>5, Zenon DEF EndOK
<1>3. CASE ~IsObject(l.start)
  <2>1. e.rows = a.info.r - 0 /\ e.cols = a.info.t /\ e.c = a.nbs.c
    BY <1>1, <1>3, Zenon DEF LeftRows, Skipped
  <2>2. a.info.r \in Nat /\ a.info.t \in Nat /\ Filled(a.nbs.c, a.info.r * a.info.t)
    BY <1>3 DEF ClosureOK
  <2>3. e.rows = a.info.r
    BY <2>1, <2>2
  <2> QED
    BY <1>1, <2>1, <2>2, <2>3, Zenon DEF EndOK
<1> QED
  BY <1>2, <1>3

(* So does the right end.                                                  *)
LEMMA RightOK ==
  ASSUME NEW l, NEW a, ClosureOK(l.end, a)
  PROVE  EndOK(RightRows(l, a))
<1>1. PICK e : e = RightRows(l, a)
  OBVIOUS
<1>2. CASE IsObject(l.end)
  <2>1. PICK r \in Nat \ {0}, t \in Nat \ {0}, s \in {0, 1}, m \in Nat :
          r = a.info.r /\ t = a.info.t /\ s = Skipped(l.end, TRUE) /\ m = r - s
    <3>1. PICK r \in Nat \ {0}, t \in Nat \ {0}, s \in {0, 1} :
            r = a.info.r /\ t = a.info.t /\ s = Skipped(l.end, TRUE)
      BY <1>2 DEF ClosureOK, Skipped
    <3>2. r - s \in Nat
      OBVIOUS
    <3> QED
      BY <3>1, <3>2, Zenon
  <2> DEFINE g == [i \in 1 .. m |-> Front(Row(a.nbs.c, t, i - 1))]
  <2>2. e.rows = m /\ e.cols = t - 1 /\ e.c = FlattenSeq(g)
    BY <1>1, <1>2, <2>1 DEF RightRows, Joined
  <2>3. \A i \in 1 .. m : \E at : g[i] = Front(Window(a.nbs.c, at, t))
    BY DEF Row
  <2>4. Shortened(g, m, a.nbs.c, t)
    BY <2>3 DEF Shortened
  <2> HIDE DEF g
  <2>5. t - 1 \in Nat /\ Filled(FlattenSeq(g), m * (t - 1))
    BY <2>4, ObjectFilled
  <2> QED
    BY <1>1, <2>2, <2>5, Zenon DEF EndOK
<1>3. CASE ~IsObject(l.end)
  <2>1. e.rows = a.info.r - 0 /\ e.cols = a.info.t /\ e.c = a.nbs.c
    BY <1>1, <1>3, Zenon DEF RightRows, Skipped
  <2>2. a.info.r \in Nat /\ a.info.t \in Nat /\ Filled(a.nbs.c, a.info.r * a.info.t)
    BY <1>3 DEF ClosureOK
  <2>3. e.rows = a.info.r
    BY <2>1, <2>2
  <2> QED
    BY <1>1, <2>1, <2>2, <2>3, Zenon DEF EndOK
<1> QED
  BY <1>2, <1>3

(* The flat index of a point of a line, and the stride.                    *)
LEMMA FlatIs ==
  ASSUME cfg \in Configs, NEW d \in Dirs, NEW r \in Int, NEW i \in Int
  PROVE  Flat(At(d, r, i)) \in Int /\ Stride(d) \in Nat \ {0}
<1>1. n[0] \in Nat \ {0} /\ n[1] \in Nat \ {0} /\ n[2] \in Nat \ {0}
  BY ConfigFacts DEF Dirs
<1>2. PICK pt \in [Dirs -> Int] : pt = At(d, r, i)
  BY OriginIs
<1>3. pt[0] \in Int /\ pt[1] \in Int /\ pt[2] \in Int
  BY <1>2 DEF Dirs
<1>4. Flat(pt) \in Int
  BY <1>1, <1>3 DEF Flat
<1>5. n[1] * n[2] \in Nat \ {0}
  BY <1>1
<1>6. Stride(d) \in Nat \ {0}
  BY <1>1, <1>5 DEF Stride, Dirs
<1> QED
  BY <1>2, <1>4, <1>6

(* The block of a line. *)
LEMMA InnerOK ==
  ASSUME MeshInv, op \in Derivatives(cfg), NEW l \in Pieced(op.d)
  PROVE  BlockOK(InnerBlock(l, LeftEnd(l), RightEnd(l)))
<1>1. cfg \in Configs /\ op.d \in Dirs /\ InteriorOf(op.st, Spacing[op.d]) \in Seq(Int)
  BY ClosureAssumption DEF MeshInv, MeshTyped
<1>2. /\ l.ray \in Int /\ l.start.at \in Int /\ l.end.at \in Int
      /\ l.start.object \in Ends(op.d) /\ l.end.object \in Ends(op.d)
  BY DEF Pieced
<1>3. PICK left, right : left = LeftEnd(l) /\ right = RightEnd(l)
  OBVIOUS
<1>4. EndOK(left) /\ EndOK(right)
  <2>1. ClosureOK(l.start, ClosureAt(l.start, FALSE)) /\ ClosureOK(l.end, ClosureAt(l.end, TRUE))
    BY <1>2, ClosureFacts
  <2> QED
    BY <1>3, <2>1, LeftOK, RightOK, Zenon DEF LeftEnd, RightEnd
<1>5. left.rows \in Nat /\ right.rows \in Nat
  BY <1>4 DEF EndOK
<1>6. Flat(At(op.d, l.ray, l.start.at)) \in Int /\ Stride(op.d) \in Nat \ {0}
  BY <1>1, <1>2, FlatIs
<1>7. PICK b : b = InnerBlock(l, left, right)
  OBVIOUS
<1>8. b.left = left /\ b.right = right /\ b.inner = InteriorOf(op.st, Spacing[op.d])
      /\ b.stride = Stride(op.d)
  BY <1>7 DEF InnerBlock
<1>9. Filled(b.inner, Len(b.inner))
  BY <1>1, <1>8, SeqFilled
<1>10. b.row \in Int /\ b.interior \in Int
  <2>1. PICK o1 \in BOOLEAN, o2 \in BOOLEAN :
          o1 = RowRemoved(l.start, FALSE) /\ o2 = RowRemoved(l.end, TRUE)
    BY Zenon DEF RowRemoved, IsObject
  <2>2. PICK p \in Int, s \in Int, x \in Int, y \in Int :
          p = Flat(At(op.d, l.ray, l.start.at)) /\ s = Stride(op.d) /\ x = left.rows /\ y = right.rows
    BY <1>5, <1>6
  <2>3. b.row = p + s * (IF o1 THEN 1 ELSE 0)
    BY <1>7, <2>1, <2>2, Zenon DEF InnerBlock
  <2>4. b.interior = (((l.end.at - l.start.at + 1) - (IF o1 THEN 1 ELSE 0)) - (IF o2 THEN 1 ELSE 0)) - x - y
    BY <1>7, <2>1, <2>2, Zenon DEF InnerBlock
  <2> QED
    BY <1>2, <2>3, <2>4
<1> QED
  BY <1>3, <1>4, <1>6, <1>7, <1>8, <1>9, <1>10 DEF BlockOK

(* Once divided, each direction has lines that end at walls or at records. *)
Divided == phase \in {"fluid", "done"} => \A d \in Dirs : lines[d] \in Seq(Pieced(d))

(* The operator is assembled on a finished mesh.                           *)
OnMesh ==
  /\ stage \in {"mesh", "domain", "cut", "built", "applied", "aborted"}
  /\ stage # "mesh" => phase = "done" /\ op \in Derivatives(cfg)
  /\ stage = "domain" => next \in Nat \ {0}

(* Every block has its matrices. *)
BlocksOK == Filled(O, Len(O)) /\ \A x \in 1 .. Len(O) : BlockOK(O[x])

(* The inductive invariant of the assembly.                                *)
AsmInv == MeshInv /\ Divided /\ OnMesh /\ BlocksOK

(* At first there is no block. *)
LEMMA AsmStart == AsmInit => AsmInv
<1> SUFFICES ASSUME AsmInit PROVE AsmInv
  OBVIOUS
<1>1. MeshInv
  BY MeshStart DEF AsmInit
<1>2. Divided /\ OnMesh
  BY DEF AsmInit, Init, Divided, OnMesh
<1>3. O = <<>> /\ Len(O) = 0
  BY DEF AsmInit
<1>4. BlocksOK
  BY <1>3 DEF BlocksOK, Filled
<1> QED
  BY <1>1, <1>2, <1>4 DEF AsmInv

(* The mesh is built before any block is. *)
LEMMA BuildStep == ASSUME AsmInv, BuildMesh PROVE AsmInv'
<1>1. MeshInv'
  <2>1. [Next]_vars
    BY DEF BuildMesh, Next
  <2> QED
    BY <2>1, MeshStep DEF AsmInv
<1>2. stage = "mesh" /\ stage' = stage /\ next' = next /\ O' = O /\ op' = op
  BY DEF BuildMesh, asmVars
<1>3. OnMesh' /\ BlocksOK'
  BY <1>2 DEF AsmInv, OnMesh, BlocksOK
<1>4. Divided'
  <2>1. CASE Hit \/ NextRay \/ InitSolid
    BY <2>1 DEF Hit, NextRay, InitSolid, Divided, AsmInv, MeshInv, MeshTyped
  <2>2. CASE InitLines
    <3>1. lines' = [d \in Dirs |-> LinesOf(d)] /\ R' = R /\ phase' = "fluid"
      BY <2>2 DEF InitLines
    <3>2. \A d \in Dirs : LinesOf(d) \in Seq(Pieced(d))
      BY LinesTyped DEF AsmInv
    <3>3. \A d : Pieced(d)' = Pieced(d)
      BY <3>1 DEF Pieced, Ends
    <3>4. \A d \in Dirs : lines'[d] \in Seq(Pieced(d)')
      BY <3>1, <3>2, <3>3
    <3> QED
      BY <3>4 DEF Divided
  <2>3. CASE InitFluid
    <3>1. lines' = lines /\ R' = R /\ phase = "fluid"
      BY <2>3 DEF InitFluid
    <3>2. \A d : Pieced(d)' = Pieced(d)
      BY <3>1 DEF Pieced, Ends
    <3> QED
      BY <3>1, <3>2 DEF Divided, AsmInv
  <2> QED
    BY <2>1, <2>2, <2>3 DEF BuildMesh
<1> QED
  BY <1>1, <1>3, <1>4 DEF AsmInv

(* On the finished mesh nothing of it changes. *)
LEMMA MeshStays == ASSUME AsmInv, UNCHANGED vars PROVE MeshInv' /\ Divided'
<1>1. MeshInv'
  BY MeshStep DEF AsmInv
<1>2. lines' = lines /\ R' = R /\ phase' = phase
  BY DEF vars
<1>3. \A d : Pieced(d)' = Pieced(d)
  BY <1>2 DEF Pieced, Ends
<1>4. Divided'
  BY <1>2, <1>3 DEF Divided, AsmInv
<1> QED
  BY <1>1, <1>4

(* A line adds a block with its matrices, or none. *)
LEMMA LineStep == ASSUME AsmInv, DiscretizeLine PROVE AsmInv'
<1>1. MeshInv' /\ Divided'
  BY MeshStays DEF DiscretizeLine
<1>0. stage = "domain" /\ phase = "done" /\ op \in Derivatives(cfg) /\ next \in Nat \ {0}
  BY DEF DiscretizeLine, AsmInv, OnMesh
<1>2. OnMesh'
  <2>1. stage' = stage /\ phase' = phase /\ op' = op /\ cfg' = cfg /\ next' = next + 1
    BY DEF DiscretizeLine, vars
  <2> QED
    BY <1>0, <2>1 DEF OnMesh
<1> DEFINE l == lines[op.d][next]
           b == InnerBlock(l, LeftEnd(l), RightEnd(l))
<1>3. BlocksOK'
  <2>1. CASE O' = O
    BY <2>1 DEF BlocksOK, AsmInv
  <2>2. CASE O' = Append(O, b)
    <3>1. l \in Pieced(op.d)
      <4>1. op.d \in Dirs
        BY ClosureAssumption DEF DiscretizeLine, AsmInv, OnMesh, MeshInv, MeshTyped
      <4>2. lines[op.d] \in Seq(Pieced(op.d))
        BY <4>1 DEF DiscretizeLine, AsmInv, OnMesh, Divided
      <4>3. next \in 1 .. Len(lines[op.d])
        <5>1. next <= Len(lines[op.d])
          BY DEF DiscretizeLine
        <5> QED
          BY <1>0, <4>2, <5>1
      <4> QED
        BY <4>2, <4>3
    <3>2. BlockOK(b)
      BY <3>1, InnerOK DEF DiscretizeLine, AsmInv, OnMesh
    <3> HIDE DEF b
    <3>3. PICK T : O \in Seq(T)
      BY FilledIs DEF AsmInv, BlocksOK
    <3>4. PICK Sq : Sq = T \cup {b}
      OBVIOUS
    <3>5. O \in Seq(Sq) /\ b \in Sq
      BY <3>3, <3>4
    <3>6. O' \in Seq(Sq) /\ Len(O') = Len(O) + 1 /\ O'[Len(O) + 1] = b
          /\ (\A x \in 1 .. Len(O) : O'[x] = O[x]) /\ Len(O) \in Nat
      BY <2>2, <3>5, AppendProperties
    <3>7. Filled(O', Len(O'))
      BY <3>6, SeqFilled
    <3>8. \A x \in 1 .. Len(O') : BlockOK(O'[x])
      BY <3>2, <3>6 DEF AsmInv, BlocksOK
    <3>9. \A x : BlockOK(x)' <=> BlockOK(x)
      OBVIOUS
    <3> QED
      BY <3>7, <3>8 DEF BlocksOK
  <2> QED
    BY <2>1, <2>2 DEF DiscretizeLine
<1> QED
  BY <1>1, <1>2, <1>3 DEF AsmInv

(* Every step keeps the invariant. *)
LEMMA AsmStep == ASSUME AsmInv, [AsmNext]_allVars PROVE AsmInv'
<1>1. CASE BuildMesh
  BY <1>1, BuildStep
<1>2. CASE Construct
  <2>1. MeshInv' /\ Divided'
    BY <1>2, MeshStays DEF Construct
  <2>2. OnMesh'
    BY <1>2 DEF Construct, AsmInv, OnMesh, vars
  <2>3. BlocksOK'
    BY <1>2 DEF Construct, AsmInv, BlocksOK
  <2> QED
    BY <2>1, <2>2, <2>3 DEF AsmInv
<1>3. CASE DiscretizeLine
  BY <1>3, LineStep
<1>4. CASE FinishDomain \/ DiscretizeCuts \/ \E p \in Fields(op) : Apply(p)
  <2>1. MeshInv' /\ Divided'
    BY <1>4, MeshStays DEF FinishDomain, DiscretizeCuts, Apply
  <2>2. OnMesh'
    BY <1>4 DEF FinishDomain, DiscretizeCuts, Apply, AsmInv, OnMesh, vars
  <2>3. BlocksOK'
    BY <1>4 DEF FinishDomain, DiscretizeCuts, Apply, AsmInv, BlocksOK
  <2> QED
    BY <2>1, <2>2, <2>3 DEF AsmInv
<1>5. CASE UNCHANGED allVars
  <2>1. UNCHANGED vars /\ UNCHANGED asmVars
    BY <1>5 DEF allVars
  <2>2. MeshInv' /\ Divided'
    BY <2>1, MeshStays
  <2>3. OnMesh' /\ BlocksOK'
    BY <2>1 DEF asmVars, vars, AsmInv, OnMesh, BlocksOK
  <2> QED
    BY <2>2, <2>3 DEF AsmInv
<1> QED
  BY <1>1, <1>2, <1>3, <1>4, <1>5 DEF AsmNext

(* The invariant has the property. *)
LEMMA InvKernel == ASSUME AsmInv PROVE KernelIsBlock
<1> SUFFICES ASSUME NEW x \in DOMAIN O, NEW i \in RowsOf(O[x])
             PROVE  /\ KernelCoeffs(O[x], Metadata(O, x), Coeffs(O), i) = BlockRow(O[x], i).c
                    /\ O[x].interior >= 0 => BlockRow(O[x], i) = HostRow(O[x], i)
  BY Zenon DEF KernelIsBlock
<1>1. PICK U : O \in Seq(U)
  BY FilledIs DEF AsmInv, BlocksOK
<1>2. x \in 1 .. Len(O) /\ Len(O) \in Nat
  BY <1>1
<1>3. \A y \in 1 .. Len(O) : BlockOK(O[y])
  BY DEF AsmInv, BlocksOK
<1>4. KernelCoeffs(O[x], Metadata(O, x), Coeffs(O), i) = BlockRow(O[x], i).c
  BY <1>1, <1>2, <1>3, KernelBlock, Zenon
<1>5. O[x].interior >= 0 => BlockRow(O[x], i) = HostRow(O[x], i)
  BY <1>2, <1>3, HostBlock
<1> QED
  BY <1>4, <1>5

(* Whatever the mesh, the stencil and the conditions: for every row of     *)
(* every block the kernel, which works by offsets into one array, applies  *)
(* the coefficients of that row, and they are those of the three matrices  *)
(* of the block on the host.                                               *)
THEOREM KernelsMatchBlocks == AsmSpec => []KernelIsBlock
<1>1. AsmInit => AsmInv
  BY AsmStart
<1>2. AsmInv /\ [AsmNext]_allVars => AsmInv'
  BY AsmStep
<1>3. AsmInv => KernelIsBlock
  BY InvKernel
<1> QED
  BY <1>1, <1>2, <1>3, PTL DEF AsmSpec

-----------------------------------------------------------------------------
(* Flat indices *)

(* Quotient and remainder. *)
LEMMA Divides ==
  ASSUME NEW x \in Int, NEW q \in Nat \ {0}
  PROVE  /\ x \div q \in Int /\ x % q \in 0 .. q - 1
         /\ x = q * (x \div q) + (x % q)
  OBVIOUS

(* They are determined. *)
LEMMA DividesOnly ==
  ASSUME NEW q \in Nat \ {0}, NEW a \in Int, NEW r \in 0 .. q - 1
  PROVE  (q * a + r) \div q = a /\ (q * a + r) % q = r
  OBVIOUS

(* A number below m * q has a quotient below m. *)
LEMMA QuotientBelow ==
  ASSUME NEW q \in Nat \ {0}, NEW m \in Nat, NEW x \in 0 .. (m * q) - 1
  PROVE  x \div q \in 0 .. m - 1
<1>1. x \div q \in Int /\ x % q \in 0 .. q - 1 /\ x = q * (x \div q) + (x % q)
  BY Divides
<1>2. PICK a \in Int, r \in 0 .. q - 1 : a = x \div q /\ r = x % q /\ x = q * a + r
  BY <1>1
<1>3. a >= 0
  BY <1>2
<1>4. ASSUME a >= m PROVE FALSE
  <2>1. q * a >= q * m
    <3>1. PICK e \in Nat : a = m + e
      BY <1>3, <1>4
    <3>2. q * a = q * m + q * e /\ q * e >= 0
      BY <3>1
    <3> QED
      BY <3>2
  <2>2. q * m = m * q
    OBVIOUS
  <2> QED
    BY <1>2, <2>1, <2>2
<1> QED
  BY <1>2, <1>3, <1>4

(* A quotient below m and a remainder make a number below m * q. *)
LEMMA PairBelow ==
  ASSUME NEW q \in Nat \ {0}, NEW m \in Nat \ {0}, NEW a \in 0 .. m - 1, NEW r \in 0 .. q - 1
  PROVE  q * a + r \in 0 .. (m * q) - 1
<1>1. PICK e \in Nat : m = a + (1 + e)
  <2>1. m \in Int /\ a \in Int /\ a < m
    OBVIOUS
  <2>2. (m - a) - 1 \in Nat /\ m = a + (1 + ((m - a) - 1))
    BY <2>1
  <2> QED
    BY <2>2
<1>2. m * q = (q * a) + (q + (e * q))
  BY <1>1
<1>3. e * q >= 0 /\ q * a >= 0
  BY <1>1
<1>4. PICK x \in Int, y \in Int, z \in Int : x = m * q /\ y = q * a /\ z = e * q
  OBVIOUS
<1> QED
  BY <1>2, <1>3, <1>4

(* Extents are positive, and so are products of them. *)
LEMMA Extents ==
  ASSUME cfg \in Configs
  PROVE  /\ \A d \in Dirs : n[d] \in Nat \ {0}
         /\ n[1] * n[2] \in Nat \ {0} /\ Size \in Nat \ {0} /\ Size = n[0] * (n[1] * n[2])
<1>1. \A d \in Dirs : n[d] \in Nat \ {0}
  BY ConfigFacts
<1>2. n[0] \in Nat \ {0} /\ n[1] \in Nat \ {0} /\ n[2] \in Nat \ {0}
  BY <1>1 DEF Dirs
<1>3. \A a \in Nat \ {0} : \A b \in Nat \ {0} : a * b \in Nat \ {0}
  OBVIOUS
<1>4. PICK a \in Nat \ {0}, b \in Nat \ {0}, c \in Nat \ {0} : a = n[0] /\ b = n[1] /\ c = n[2]
  BY <1>2
<1>5. a * b * c = a * (b * c) /\ b * c \in Nat \ {0}
  BY <1>3
<1>6. a * (b * c) \in Nat \ {0}
  BY <1>3, <1>5
<1> QED
  BY <1>1, <1>4, <1>5, <1>6 DEF Size

(* The coordinates of a flat index. *)
LEMMA Coordinates ==
  ASSUME cfg \in Configs, NEW x \in 0 .. Size - 1
  PROVE  /\ PointAt(x) = [d \in Dirs |-> PointAt(x)[d]]
         /\ PointAt(x)[0] = x \div (n[1] * n[2])
         /\ PointAt(x)[1] = (x \div n[2]) % n[1]
         /\ PointAt(x)[2] = x % n[2]
         /\ \A d \in Dirs : PointAt(x)[d] \in 0 .. n[d] - 1
<1>0. /\ \A d \in Dirs : n[d] \in Nat \ {0}
      /\ n[1] * n[2] \in Nat \ {0} /\ Size = n[0] * (n[1] * n[2]) /\ x \in Int
  BY Extents
<1>1. n[0] \in Nat \ {0} /\ n[1] \in Nat \ {0} /\ n[2] \in Nat \ {0}
  BY <1>0 DEF Dirs
<1>2. Stride(0) = n[1] * n[2] /\ Stride(1) = n[2] /\ Stride(2) = 1
  BY DEF Stride
<1>3. \A d \in Dirs : PointAt(x)[d] = (x \div Stride(d)) % n[d]
  BY DEF PointAt
<1>4. x \div (n[1] * n[2]) \in 0 .. n[0] - 1
  <2>1. PICK q \in Nat \ {0}, m \in Nat : q = n[1] * n[2] /\ m = n[0]
    BY <1>0, <1>1
  <2>2. x \in 0 .. (m * q) - 1
    BY <1>0, <2>1
  <2> QED
    BY <2>1, <2>2, QuotientBelow
<1>5. PointAt(x)[0] = x \div (n[1] * n[2])
  <2>1. PICK y \in 0 .. n[0] - 1 : y = x \div (n[1] * n[2])
    BY <1>4
  <2>2. y % n[0] = y
    BY <1>1
  <2> QED
    BY <1>2, <1>3, <2>1, <2>2 DEF Dirs
<1>6. PointAt(x)[1] = (x \div n[2]) % n[1]
  BY <1>2, <1>3 DEF Dirs
<1>7. PointAt(x)[2] = x % n[2]
  <2>1. x \div 1 = x
    BY <1>0
  <2>2. PointAt(x)[2] = (x \div 1) % n[2]
    BY <1>2, <1>3 DEF Dirs
  <2> QED
    BY <2>1, <2>2
<1>8. \A d \in Dirs : PointAt(x)[d] \in 0 .. n[d] - 1
  <2>1. x \div n[2] \in Int
    BY <1>0, <1>1, Divides
  <2>2. (x \div n[2]) % n[1] \in 0 .. n[1] - 1 /\ x % n[2] \in 0 .. n[2] - 1
    BY <1>0, <1>1, <2>1, Divides
  <2> QED
    BY <1>4, <1>5, <1>6, <1>7, <2>2 DEF Dirs
<1> QED
  BY <1>5, <1>6, <1>7, <1>8 DEF PointAt

(* And the index of coordinates. *)
LEMMA IndexIs ==
  ASSUME cfg \in Configs, NEW x \in 0 .. Size - 1
  PROVE  /\ x = PointAt(x)[0] * (n[1] * n[2]) + PointAt(x)[1] * n[2] + PointAt(x)[2]
<1>0. /\ n[0] \in Nat \ {0} /\ n[1] \in Nat \ {0} /\ n[2] \in Nat \ {0}
      /\ n[1] * n[2] \in Nat \ {0} /\ x \in Int
  BY Extents DEF Dirs
<1>1. PICK b \in Nat \ {0}, c \in Nat \ {0} : b = n[1] /\ c = n[2]
  BY <1>0
<1>2. PICK y \in Int, l \in 0 .. c - 1 : y = x \div c /\ l = x % c /\ x = c * y + l
  <2>1. x \div c \in Int /\ x % c \in 0 .. c - 1 /\ x = c * (x \div c) + (x % c)
    BY <1>0, Divides
  <2> QED
    BY <2>1
<1>3. PICK i \in Int, j \in 0 .. b - 1 : i = y \div b /\ j = y % b /\ y = b * i + j
  BY Divides
<1>4. x = (b * c) * i + (c * j + l)
  <2>1. c * y = c * (b * i) + c * j
    BY <1>3
  <2>2. c * (b * i) = (b * c) * i
    OBVIOUS
  <2>3. PICK p \in Int, q \in Int : p = (b * c) * i /\ q = c * j
    OBVIOUS
  <2> QED
    BY <1>2, <2>1, <2>2, <2>3
<1>5. c * j + l \in 0 .. (b * c) - 1
  BY <1>1, <1>2, <1>3, PairBelow
<1>6. x \div (b * c) = i
  <2>1. PICK q \in Nat \ {0}, r \in Int : q = b * c /\ r = c * j + l /\ r \in 0 .. q - 1
    BY <1>0, <1>1, <1>5
  <2>2. x = q * i + r
    BY <1>4, <2>1
  <2> QED
    BY <2>1, <2>2, DividesOnly
<1>7. PointAt(x)[0] = i /\ PointAt(x)[1] = j /\ PointAt(x)[2] = l
  BY <1>1, <1>2, <1>3, <1>6, Coordinates
<1>8. x = i * (b * c) + j * c + l
  BY <1>4
<1> QED
  BY <1>1, <1>7, <1>8

-----------------------------------------------------------------------------
(* Planes *)

(* The plane of a mesh at index i across d has the points whose coordinate *)
(* along d is i.                                                           *)
LEMMA PlaneIs ==
  ASSUME cfg \in Configs, NEW x \in 0 .. Size - 1, NEW d \in Dirs, NEW i \in 0 .. n[d] - 1
  PROVE  x \in Elements(MakePlane(n, d, i)) <=> PointAt(x)[d] = i
<1>0. /\ n[0] \in Nat \ {0} /\ n[1] \in Nat \ {0} /\ n[2] \in Nat \ {0}
      /\ n[1] * n[2] \in Nat \ {0} /\ x \in Int
  BY Extents DEF Dirs
<1>1. PICK a \in Nat \ {0}, b \in Nat \ {0}, c \in Nat \ {0} : a = n[0] /\ b = n[1] /\ c = n[2]
  BY <1>0
<1>2. /\ PointAt(x)[0] \in 0 .. a - 1 /\ PointAt(x)[1] \in 0 .. b - 1 /\ PointAt(x)[2] \in 0 .. c - 1
  BY <1>1, Coordinates DEF Dirs
<1>3. PICK p0 \in 0 .. a - 1, p1 \in 0 .. b - 1, p2 \in 0 .. c - 1 :
        p0 = PointAt(x)[0] /\ p1 = PointAt(x)[1] /\ p2 = PointAt(x)[2]
  BY <1>2
<1>4. x = p0 * (b * c) + p1 * c + p2
  BY <1>1, <1>3, IndexIs
<1>5. PICK q \in Nat \ {0} : q = b * c
  BY <1>0, <1>1
<1>6. CASE d = 0
  <2>1. Elements(MakePlane(n, d, i)) = {(i * b * c + j) - 1 : j \in 1 .. b * c}
    BY <1>1, <1>6 DEF Elements, MakePlane, MakeXPlane, Contiguous
  <2>2. i * b * c = q * i /\ p0 * (b * c) = q * p0 /\ p1 * c = c * p1
    BY <1>5
  <2>3. PICK r \in Int : r = c * p1 + p2 /\ r \in 0 .. q - 1
    <3>1. c * p1 + p2 \in 0 .. (b * c) - 1
      BY <1>1, <1>3, PairBelow
    <3> QED
      BY <1>5, <3>1
  <2>4. x = q * p0 + r
    BY <1>4, <2>2, <2>3
  <2>5. ASSUME p0 = i PROVE x \in Elements(MakePlane(n, d, i))
    <3>1. r + 1 \in 1 .. b * c /\ x = (i * b * c + (r + 1)) - 1
      <4>1. PICK y \in Int : y = q * i /\ y = i * b * c /\ y = q * p0
        BY <2>2, <2>5
      <4> QED
        BY <1>5, <2>3, <2>4, <4>1
    <3> QED
      BY <2>1, <3>1
  <2>6. ASSUME x \in Elements(MakePlane(n, d, i)) PROVE p0 = i
    <3>1. PICK j \in 1 .. b * c : x = (i * b * c + j) - 1
      BY <2>1, <2>6
    <3>2. PICK y \in Int : y = q * i /\ y = i * b * c
      BY <2>2
    <3>3. j - 1 \in 0 .. q - 1 /\ x = q * i + (j - 1)
      BY <1>5, <3>1, <3>2
    <3>4. i \in Int
      BY <1>1, <1>6
    <3>5. x \div q = i
      BY <3>3, <3>4, DividesOnly
    <3> QED
      BY <1>1, <1>3, <1>5, <3>5, Coordinates
  <2> QED
    BY <1>3, <1>6, <2>5, <2>6
<1>7. CASE d = 1
  <2>1. Elements(MakePlane(n, d, i))
          = {i * c + ((j - 1) \div c) * (b * c) + ((j - 1) % c) : j \in 1 .. c * a}
    BY <1>1, <1>7 DEF Elements, MakePlane, MakeYPlane, Strided
  <2>2. i \in 0 .. b - 1
    BY <1>1, <1>7
  <2>3. ASSUME p1 = i PROVE x \in Elements(MakePlane(n, d, i))
    <3>1. PICK j \in Int : j = (c * p0 + p2) + 1
      OBVIOUS
    <3>2. j - 1 = c * p0 + p2
      BY <3>1
    <3>3. j \in 1 .. c * a
      <4>1. c * p0 + p2 \in 0 .. (a * c) - 1
        BY PairBelow
      <4>2. PICK y \in Int : y = a * c /\ y = c * a
        OBVIOUS
      <4> QED
        BY <3>1, <3>2, <4>1, <4>2
    <3>4. (j - 1) \div c = p0 /\ (j - 1) % c = p2
      BY <3>2, DividesOnly
    <3>5. x = i * c + ((j - 1) \div c) * (b * c) + ((j - 1) % c)
      <4>1. PICK y \in Int, z \in Int : y = p0 * (b * c) /\ z = p1 * c
        OBVIOUS
      <4>2. i * c + ((j - 1) \div c) * (b * c) + ((j - 1) % c) = z + y + p2
        BY <2>3, <3>4, <4>1, Zenon
      <4> QED
        BY <1>4, <4>1, <4>2
    <3> QED
      BY <2>1, <3>3, <3>5
  <2>4. ASSUME x \in Elements(MakePlane(n, d, i)) PROVE p1 = i
    <3>1. PICK j \in 1 .. c * a : x = i * c + ((j - 1) \div c) * (b * c) + ((j - 1) % c)
      BY <2>1, <2>4
    <3>2. PICK e \in Int, l \in Int : e = (j - 1) \div c /\ l = (j - 1) % c /\ l \in 0 .. c - 1
      <4>1. PICK m \in Int : m = j - 1
        OBVIOUS
      <4>2. m \div c \in Int /\ m % c \in 0 .. c - 1
        BY Divides
      <4> QED
        BY <4>1, <4>2
    <3>3. PICK y \in Int : y = b * e + i
      BY <2>2
    <3>4. x = c * y + l
      <4>1. c * y = c * (b * e) + c * i
        BY <2>2, <3>3
      <4>2. c * (b * e) = e * (b * c) /\ c * i = i * c
        BY <2>2
      <4>3. PICK z \in Int, w \in Int : z = e * (b * c) /\ w = i * c
        BY <2>2
      <4> QED
        BY <3>1, <3>2, <4>1, <4>2, <4>3
    <3>5. x \div c = y
      BY <3>2, <3>4, DividesOnly
    <3>6. y % b = i
      BY <2>2, <3>3, DividesOnly
    <3> QED
      BY <1>1, <1>3, <3>5, <3>6, Coordinates
  <2> QED
    BY <1>3, <1>7, <2>3, <2>4
<1>8. CASE d = 2
  <2>1. Elements(MakePlane(n, d, i))
          = {i + ((j - 1) \div 1) * c + ((j - 1) % 1) : j \in 1 .. 1 * (a * b)}
    BY <1>1, <1>8 DEF Elements, MakePlane, MakeZPlane, Strided
  <2>2. i \in 0 .. c - 1
    BY <1>1, <1>8
  <2>3. \A m \in Int : m \div 1 = m /\ m % 1 = 0
    OBVIOUS
  <2>4. ASSUME p2 = i PROVE x \in Elements(MakePlane(n, d, i))
    <3>1. PICK m \in Int : m = b * p0 + p1
      OBVIOUS
    <3>2. m + 1 \in 1 .. 1 * (a * b) /\ (m + 1) - 1 = m
      <4>1. m \in 0 .. (a * b) - 1
        BY <3>1, PairBelow
      <4> QED
        BY <4>1
    <3>3. x = i + m * c
      <4>1. m * c = (b * p0) * c + p1 * c
        BY <3>1
      <4>2. (b * p0) * c = p0 * (b * c)
        OBVIOUS
      <4>3. PICK y \in Int, z \in Int, w \in Int : y = p0 * (b * c) /\ z = p1 * c /\ w = m * c
        OBVIOUS
      <4> QED
        BY <1>4, <2>4, <4>1, <4>2, <4>3
    <3>4. x = i + (((m + 1) - 1) \div 1) * c + (((m + 1) - 1) % 1)
      <4>1. PICK w \in Int : w = m * c
        OBVIOUS
      <4>2. ((m + 1) - 1) \div 1 = m /\ ((m + 1) - 1) % 1 = 0
        BY <2>3, <3>2
      <4> QED
        BY <2>2, <3>3, <4>1, <4>2
    <3> QED
      BY <2>1, <3>2, <3>4
  <2>5. ASSUME x \in Elements(MakePlane(n, d, i)) PROVE p2 = i
    <3>1. PICK j \in 1 .. 1 * (a * b) : x = i + ((j - 1) \div 1) * c + ((j - 1) % 1)
      BY <2>1, <2>5
    <3>2. PICK m \in Int : m = j - 1
      OBVIOUS
    <3>3. x = c * m + i
      <4>1. (j - 1) \div 1 = m /\ (j - 1) % 1 = 0
        BY <2>3, <3>2
      <4>2. PICK w \in Int : w = m * c /\ w = c * m
        OBVIOUS
      <4> QED
        BY <2>2, <3>1, <4>1, <4>2
    <3>4. x % c = i
      BY <2>2, <3>3, DividesOnly
    <3> QED
      BY <1>1, <1>3, <3>4, Coordinates
  <2> QED
    BY <1>3, <1>8, <2>4, <2>5
<1> QED
  BY <1>6, <1>7, <1>8 DEF Dirs

-----------------------------------------------------------------------------
(* Selections *)

(* The values at places that are in K, to be joined. *)
Kept(m, K, v) == [i \in 1 .. m |-> IF i \in K THEN <<v[i]>> ELSE <<>>]

(* They are the elements that result. *)
LEMMA KeptElements ==
  ASSUME NEW m \in Nat, NEW K, NEW v
  PROVE  LET flat == FlattenSeq(Kept(m, K, v))
         IN  /\ Len(flat) \in Nat /\ DOMAIN flat = 1 .. Len(flat)
             /\ \A i \in 1 .. m : i \in K => v[i] \in Elements(flat)
             /\ \A e \in Elements(flat) : \E i \in 1 .. m : i \in K /\ e = v[i]
<1>0. PICK g : g = Kept(m, K, v)
  OBVIOUS
<1>g. g = [i \in 1 .. m |-> IF i \in K THEN <<v[i]>> ELSE <<>>]
  BY <1>0 DEF Kept
<1> DEFINE flat == FlattenSeq(g)
<1>1. PICK T : T = {v[i] : i \in {j \in 1 .. m : j \in K}}
  OBVIOUS
<1>2. ASSUME NEW i \in 1 .. m PROVE g[i] \in Seq(T)
  <2>1. CASE i \notin K
    <3>1. g[i] = <<>>
      BY <1>g, <2>1
    <3>2. <<>> \in Seq(T)
      OBVIOUS
    <3> QED
      BY <3>1, <3>2
  <2>2. CASE i \in K
    <3>1. v[i] \in T
      BY <1>1, <2>2
    <3>2. <<v[i]>> \in Seq(T)
      BY <3>1
    <3>3. g[i] = <<v[i]>>
      BY <1>g, <2>2
    <3> QED
      BY <3>2, <3>3
  <2> QED
    BY <2>1, <2>2
<1>3. g \in Seq(Seq(T)) /\ Len(g) = m
  <2>1. PICK Q : Q = Seq(T)
    OBVIOUS
  <2>2. g \in [1 .. m -> Q]
    BY <1>2, <1>g, <2>1
  <2>3. g \in Seq(Q) /\ Len(g) = m
    BY <2>2
  <2> QED
    BY <2>1, <2>3
<1>4. flat \in Seq(T)
  BY <1>3, FlattenTyped
<1>5. Len(flat) \in Nat /\ DOMAIN flat = 1 .. Len(flat) /\ \A j \in 1 .. Len(flat) : flat[j] \in T
  <2> HIDE DEF flat
  <2> QED
    BY <1>4
<1>6. ASSUME NEW x \in 1 .. m, x \in K PROVE v[x] \in Elements(flat)
  <2>1. PICK at \in Nat : at + 1 <= Len(flat) /\ flat[at + 1] = g[x][1]
    <3>1. x \in 1 .. Len(g)
      BY <1>3
    <3>2. 1 \in 1 .. Len(g[x])
      <4>1. Len(<<v[x]>>) = 1
        OBVIOUS
      <4> QED
        BY <1>g, <1>6, <4>1
    <3> QED
      <4>1. PICK at : at = Len(FlattenSeq(SubSeq(g, 1, x - 1)))
        OBVIOUS
      <4>2. g \in Seq(Seq(T)) /\ x \in 1 .. Len(g) /\ 1 \in 1 .. Len(g[x])
        BY <1>3, <3>1, <3>2
      <4>3. at \in Nat /\ at + 1 <= Len(FlattenSeq(g)) /\ FlattenSeq(g)[at + 1] = g[x][1]
        BY <4>1, <4>2, FlattenAt
      <4> QED
        BY <4>3
  <2>2. at + 1 \in DOMAIN flat /\ flat[at + 1] = v[x]
    <3>1. g[x][1] = v[x]
      BY <1>g, <1>6
    <3> HIDE DEF flat
    <3> QED
      BY <1>5, <2>1, <3>1
  <2> QED
    BY <2>2 DEF Elements
<1>7. ASSUME NEW e \in Elements(flat) PROVE \E i \in 1 .. m : i \in K /\ e = v[i]
  <2>1. e \in T
    <3> HIDE DEF flat
    <3> QED
      BY <1>5 DEF Elements
  <2> QED
    BY <1>1, <2>1
<1> QED
  BY <1>0, <1>5, <1>6, <1>7

(* Gathering selects the places where infos is one of those. *)
LEMMA Gathers ==
  ASSUME NEW m \in Nat, NEW infos, DOMAIN infos = 1 .. m, NEW those
  PROVE  \A i : i \in Elements(GatherFromPredicate(infos, those)) <=> i \in 1 .. m /\ infos[i] \in those
<1>1. PICK K : K = {i \in 1 .. m : infos[i] \in those}
  OBVIOUS
<1>2. PICK v : v = [i \in 1 .. m |-> i]
  OBVIOUS
<1>3. GatherFromPredicate(infos, those) = FlattenSeq(Kept(m, K, v))
  <2>1. Kept(m, K, v) = [i \in 1 .. m |-> IF infos[i] \in those THEN <<i>> ELSE <<>>]
    BY <1>1, <1>2 DEF Kept
  <2> QED
    BY <2>1 DEF GatherFromPredicate
<1>4. PICK flat : flat = FlattenSeq(Kept(m, K, v))
  OBVIOUS
<1>5. /\ \A i \in 1 .. m : i \in K => v[i] \in Elements(flat)
      /\ \A e \in Elements(flat) : \E i \in 1 .. m : i \in K /\ e = v[i]
  BY <1>4, KeptElements
<1> QED
  BY <1>1, <1>2, <1>3, <1>4, <1>5

(* A point is on a face of condition bc. *)
OnFaces(bc, grid, x) ==
  \E d \in Dirs :
    \/ grid[d].left = bc /\ x \in Elements(MakePlane(n, d, 0))
    \/ grid[d].right = bc /\ x \in Elements(MakePlane(n, d, n[d] - 1))

(* A place is among those of several selections. *)
Among(descs, x) == \E i \in DOMAIN descs : x \in Elements(descs[i])

(* The faces of a condition are those planes. *)
LEMMA FacesAre ==
  ASSUME NEW bc, NEW grid
  PROVE  LET descs == GridFaces(bc, grid, n)
         IN  /\ Len(descs) \in Nat /\ DOMAIN descs = 1 .. Len(descs)
             /\ \A x : Among(descs, x) <=> OnFaces(bc, grid, x)
<1> DEFINE faces == <<<<0, FALSE>>, <<0, TRUE>>, <<1, FALSE>>, <<1, TRUE>>, <<2, FALSE>>, <<2, TRUE>>>>
           has(f) == bc = IF f[2] THEN grid[f[1]].right ELSE grid[f[1]].left
           plane(f) == MakePlane(n, f[1], IF f[2] THEN n[f[1]] - 1 ELSE 0)
           descs == GridFaces(bc, grid, n)
<1>1. PICK K : K = {i \in 1 .. 6 : has(faces[i])}
  OBVIOUS
<1>2. PICK v : v = [i \in 1 .. 6 |-> plane(faces[i])]
  OBVIOUS
<1>3. descs = FlattenSeq(Kept(6, K, v))
  <2>1. Kept(6, K, v) = [i \in 1 .. 6 |-> IF has(faces[i]) THEN <<plane(faces[i])>> ELSE <<>>]
    <3> HIDE DEF faces, has, plane
    <3> QED
      BY <1>1, <1>2 DEF Kept
  <2> QED
    BY <2>1 DEF GridFaces
<1>6. /\ Len(descs) \in Nat /\ DOMAIN descs = 1 .. Len(descs)
      /\ \A i \in 1 .. 6 : i \in K => v[i] \in Elements(descs)
      /\ \A e \in Elements(descs) : \E i \in 1 .. 6 : i \in K /\ e = v[i]
  <2> HIDE DEF faces, has, plane, descs
  <2>1. 6 \in Nat
    OBVIOUS
  <2> QED
    BY <1>3, <2>1, KeptElements
<1> HIDE DEF descs
<1>7. ASSUME NEW x
      PROVE  (\E i \in DOMAIN descs : x \in Elements(descs[i]))
               <=> \E i \in 1 .. 6 : has(faces[i]) /\ x \in Elements(plane(faces[i]))
  <2> HIDE DEF faces, has, plane
  <2>1. (\E i \in DOMAIN descs : x \in Elements(descs[i])) <=> \E e \in Elements(descs) : x \in Elements(e)
    BY DEF Elements
  <2>2. (\E e \in Elements(descs) : x \in Elements(e)) <=> \E i \in 1 .. 6 : i \in K /\ x \in Elements(v[i])
    BY <1>6, Zenon
  <2>3. \A i \in 1 .. 6 : v[i] = plane(faces[i]) /\ (i \in K <=> has(faces[i]))
    BY <1>1, <1>2
  <2> QED
    BY <2>1, <2>2, <2>3, Zenon
<1>8. ASSUME NEW x
      PROVE  (\E i \in 1 .. 6 : has(faces[i]) /\ x \in Elements(plane(faces[i]))) <=> OnFaces(bc, grid, x)
  <2> DEFINE at(i) == has(faces[i]) /\ x \in Elements(plane(faces[i]))
             left(d) == grid[d].left = bc /\ x \in Elements(MakePlane(n, d, 0))
             right(d) == grid[d].right = bc /\ x \in Elements(MakePlane(n, d, n[d] - 1))
  <2>1. /\ at(1) <=> left(0)
        /\ at(2) <=> right(0)
        /\ at(3) <=> left(1)
        /\ at(4) <=> right(1)
        /\ at(5) <=> left(2)
        /\ at(6) <=> right(2)
    OBVIOUS
  <2>2. OnFaces(bc, grid, x) <=> \E d \in Dirs : left(d) \/ right(d)
    BY Zenon DEF OnFaces
  <2> HIDE DEF at, left, right
  <2>3. (\E d \in Dirs : left(d) \/ right(d)) <=> left(0) \/ right(0) \/ left(1) \/ right(1) \/ left(2) \/ right(2)
    BY DEF Dirs
  <2>4. (\E i \in 1 .. 6 : at(i)) <=> at(1) \/ at(2) \/ at(3) \/ at(4) \/ at(5) \/ at(6)
    OBVIOUS
  <2>5. (\E i \in 1 .. 6 : at(i)) <=> OnFaces(bc, grid, x)
    BY <2>1, <2>2, <2>3, <2>4
  <2> QED
    BY <2>5 DEF at
<1>9. /\ Len(descs) \in Nat /\ DOMAIN descs = 1 .. Len(descs)
      /\ \A x : Among(descs, x) <=> OnFaces(bc, grid, x)
  BY <1>6, <1>7, <1>8, Zenon DEF Among
<1> QED
  BY <1>9 DEF descs

(* The largest of some numbers. *)
LEMMA Largest ==
  ASSUME NEW m \in Nat, NEW s, s \subseteq 1 .. m, s # {}
  PROVE  Max(s) \in s /\ \A y \in s : y <= Max(s)
<1> DEFINE U == {y \in Nat : m - y \in s}
<1>1. U \subseteq Nat /\ U # {}
  <2>1. PICK y \in s : y \in 1 .. m
    OBVIOUS
  <2>2. m - y \in Nat /\ m - (m - y) = y
    BY <2>1
  <2> QED
    BY <2>1, <2>2
<1>2. PICK x \in U : \A y \in U : x <= y
  <2> HIDE DEF U
  <2> QED
    BY <1>1, LeastNat
<1>3. m - x \in s
  BY <1>2
<1>4. ASSUME NEW y \in s PROVE m - x >= y
  <2>1. y \in 1 .. m /\ m - y \in Nat /\ m - (m - y) = y
    OBVIOUS
  <2>2. x <= m - y
    BY <1>2, <2>1
  <2> QED
    BY <1>2, <2>1, <2>2
<1>5. \E z \in s : \A y \in s : z >= y
  BY <1>3, <1>4
<1>6. Max(s) \in s /\ \A y \in s : Max(s) >= y
  BY <1>5, Zenon DEF Max
<1> QED
  BY <1>6

(* A function. *)
AFunction(f) == f = [x \in DOMAIN f |-> f[x]]

(* Assigning through several selections assigns where one of them is. *)
LEMMA AssignedIs ==
  ASSUME NEW dst, AFunction(dst), NEW src, NEW descs, Len(descs) \in Nat, DOMAIN descs = 1 .. Len(descs)
  PROVE  LET new == AssignFaces(dst, descs, src)
         IN  /\ AFunction(new) /\ DOMAIN new = DOMAIN dst
             /\ \A x \in DOMAIN dst :
                  new[x] = IF Among(descs, x) THEN src[x] ELSE dst[x]
<1>0. PICK m \in Nat : m = Len(descs) /\ DOMAIN descs = 1 .. m
  OBVIOUS
<1> DEFINE Solves(c) ==
             c = [s \in SUBSET (1 .. m) |->
                    IF s = {} THEN dst ELSE AssignSelected(c[s \ {Max(s)}], descs[Max(s)], src)]
           By(s) == [x \in DOMAIN dst |-> IF \E i \in s : x \in Elements(descs[i]) THEN src[x] ELSE dst[x]]
           g == [s \in SUBSET (1 .. m) |-> By(s)]
           f == CHOOSE c : Solves(c)
<1>1. AssignFaces(dst, descs, src) = f[1 .. m]
  BY <1>0 DEF AssignFaces, FoldLeft, MapThenFoldSet
<1>2. By({}) = dst
  BY DEF AFunction
<1>3. ASSUME NEW s \in SUBSET (1 .. m), s # {}
      PROVE  By(s) = AssignSelected(By(s \ {Max(s)}), descs[Max(s)], src)
  <2>1. PICK l \in s : l = Max(s)
    BY <1>3, Largest
  <2>2. \A x : (\E i \in s : x \in Elements(descs[i]))
                  <=> (\E i \in s \ {l} : x \in Elements(descs[i])) \/ x \in Elements(descs[l])
    OBVIOUS
  <2>3. AssignSelected(By(s \ {l}), descs[l], src)
          = [x \in DOMAIN dst |-> IF x \in Elements(descs[l]) THEN src[x] ELSE By(s \ {l})[x]]
    BY DEF AssignSelected
  <2>4. By(s) = AssignSelected(By(s \ {l}), descs[l], src)
    BY <2>2, <2>3
  <2> QED
    BY <2>1, <2>4
<1>4. Solves(g)
  <2>1. ASSUME NEW s \in SUBSET (1 .. m)
        PROVE  g[s] = IF s = {} THEN dst ELSE AssignSelected(g[s \ {Max(s)}], descs[Max(s)], src)
    <3>1. g[s] = By(s) /\ g[s \ {Max(s)}] = By(s \ {Max(s)})
      OBVIOUS
    <3> HIDE DEF g, By
    <3> QED
      BY <1>2, <1>3, <3>1
  <2>2. g = [s \in SUBSET (1 .. m) |-> g[s]]
    OBVIOUS
  <2> HIDE DEF g
  <2> QED
    BY <2>1, <2>2, Zenon
<1>5. Solves(f)
  <2>1. \E c : Solves(c)
    BY <1>4, Zenon
  <2> HIDE DEF Solves
  <2> QED
    BY <2>1, Zenon
<1>6. \A s \in SUBSET (1 .. m) :
        f[s] = IF s = {} THEN dst ELSE AssignSelected(f[s \ {Max(s)}], descs[Max(s)], src)
  <2> HIDE DEF f
  <2> QED
    BY <1>5, Zenon
<1> HIDE DEF f, By, Solves, g
<1> DEFINE Good == {l \in 0 .. m : f[1 .. l] = By(1 .. l)}
<1>7. 0 \in Good
  <2>1. 1 .. 0 = {}
    OBVIOUS
  <2>2. f[{}] = dst
    BY <1>6
  <2> QED
    BY <1>2, <2>1, <2>2
<1>8. ASSUME NEW l \in 0 .. m - 1, l \in Good PROVE l + 1 \in Good
  <2>1. 1 .. l + 1 \in SUBSET (1 .. m) /\ 1 .. l + 1 # {} /\ l + 1 \in 0 .. m /\ l \in Nat
    <3>1. l \in Nat /\ l + 1 <= m /\ 1 \in 1 .. l + 1 /\ l + 1 \in 0 .. m
      BY <1>0
    <3>2. \A y \in 1 .. l + 1 : y \in 1 .. m
      BY <1>0, <3>1
    <3>3. 1 .. l + 1 \in SUBSET (1 .. m)
      BY <3>2
    <3> QED
      BY <3>1, <3>3
  <2>2. Max(1 .. l + 1) = l + 1
    <3>1. Max(1 .. l + 1) \in 1 .. l + 1 /\ \A y \in 1 .. l + 1 : y <= Max(1 .. l + 1)
      BY <2>1, Largest
    <3>2. l + 1 \in 1 .. l + 1
      BY <2>1
    <3>3. PICK z \in 1 .. l + 1 : z = Max(1 .. l + 1) /\ l + 1 <= z
      BY <3>1, <3>2
    <3> QED
      BY <3>3
  <2>3. (1 .. l + 1) \ {l + 1} = 1 .. l
    BY <2>1
  <2>4. f[1 .. l + 1] = AssignSelected(f[1 .. l], descs[l + 1], src)
    BY <1>6, <2>1, <2>2, <2>3
  <2>5. By(1 .. l + 1) = AssignSelected(By(1 .. l), descs[l + 1], src)
    BY <1>3, <2>1, <2>2, <2>3
  <2>6. f[1 .. l] = By(1 .. l)
    BY <1>8
  <2> QED
    BY <2>1, <2>4, <2>5, <2>6
<1>9. f[1 .. m] = By(1 .. m)
  <2> HIDE DEF Good
  <2>1. 0 .. m \subseteq Good
    BY <1>7, <1>8, Induction
  <2> QED
    BY <2>1 DEF Good
<1>10. AssignFaces(dst, descs, src) = By(1 .. m)
  BY <1>1, <1>9
<1> QED
  BY <1>0, <1>10 DEF By, AFunction, Among

(* A value for each grid point. *)
OnEveryPoint(f) == f = [x \in 0 .. Size - 1 |-> f[x]]

(* What assigning to the faces of a condition does. *)
LEMMA FacesAssign ==
  ASSUME NEW bc, NEW grid, NEW dst, OnEveryPoint(dst), NEW src
  PROVE  LET new == AssignFaces(dst, GridFaces(bc, grid, n), src)
         IN  /\ OnEveryPoint(new)
             /\ \A x \in 0 .. Size - 1 : new[x] = IF OnFaces(bc, grid, x) THEN src[x] ELSE dst[x]
<1> DEFINE descs == GridFaces(bc, grid, n)
           new == AssignFaces(dst, descs, src)
<1>1. DOMAIN dst = 0 .. Size - 1 /\ AFunction(dst)
  BY DEF OnEveryPoint, AFunction
<1>2. /\ Len(descs) \in Nat /\ DOMAIN descs = 1 .. Len(descs)
      /\ \A x : Among(descs, x) <=> OnFaces(bc, grid, x)
  BY FacesAre
<1> HIDE DEF descs
<1>3. /\ AFunction(new) /\ DOMAIN new = DOMAIN dst
      /\ \A x \in DOMAIN dst :
           new[x] = IF Among(descs, x) THEN src[x] ELSE dst[x]
  BY <1>1, <1>2, AssignedIs
<1> HIDE DEF new
<1>4. ASSUME NEW x \in 0 .. Size - 1 PROVE new[x] = IF OnFaces(bc, grid, x) THEN src[x] ELSE dst[x]
  BY <1>1, <1>2, <1>3
<1>5. OnEveryPoint(new)
  BY <1>1, <1>3 DEF AFunction, OnEveryPoint
<1> QED
  BY <1>4, <1>5 DEF new, descs

(* The points on faces are those with a coordinate at an end. *)
LEMMA OnFaceIs ==
  ASSUME cfg \in Configs, NEW bc, NEW x \in 0 .. Size - 1
  PROVE  OnFaces(bc, sys.grid, x) <=> \E d \in Dirs : OnFace(bc, d, x)
<1>1. ASSUME NEW d \in Dirs
      PROVE  /\ x \in Elements(MakePlane(n, d, 0)) <=> PointAt(x)[d] = 0
             /\ x \in Elements(MakePlane(n, d, n[d] - 1)) <=> PointAt(x)[d] = n[d] - 1
  <2>1. n[d] \in Nat \ {0}
    BY Extents
  <2>2. 0 \in 0 .. n[d] - 1 /\ n[d] - 1 \in 0 .. n[d] - 1
    BY <2>1
  <2> QED
    BY <2>2, PlaneIs
<1> QED
  BY <1>1, Zenon DEF OnFaces, OnFace

-----------------------------------------------------------------------------
(* Neumann data *)

(* The conditions across d alone, the slopes along d, and the data with    *)
(* these.                                                                  *)
Only(d) == [e \in Dirs |-> IF e = d THEN sys.grid[d] ELSE [left |-> "none", right |-> "none"]]

(* The gradients along d at a time, at every point.                        *)
Slopes(t, d) == EvalAtLocations([pos \in Places |-> Gradient(sys, t, pos)[d]]).D

(* One turn of the loop over directions.                                   *)
WithSlopes(v, t, d) == AssignFaces(v, GridFaces("Neumann", Only(d), n), Slopes(t, d))

(* Directions follow one another. *)
LEMMA NeumannIs ==
  ASSUME NEW t
  PROVE  NeumannData(t) = WithSlopes(WithSlopes(WithSlopes(nu, t, 0), t, 1), t, 2)
<1> DEFINE ds == <<0, 1, 2>>
           Solves(c) ==
             c = [s \in SUBSET (1 .. 3) |-> IF s = {} THEN nu ELSE WithSlopes(c[s \ {Max(s)}], t, ds[Max(s)])]
           h1(s) == IF 1 \in s THEN WithSlopes(nu, t, 0) ELSE nu
           h2(s) == IF 2 \in s THEN WithSlopes(h1(s), t, 1) ELSE h1(s)
           h3(s) == IF 3 \in s THEN WithSlopes(h2(s), t, 2) ELSE h2(s)
           g == [s \in SUBSET (1 .. 3) |-> h3(s)]
           f == CHOOSE c : Solves(c)
<1>1. NeumannData(t) = f[1 .. 3]
  <2>1. DOMAIN ds = 1 .. 3
    OBVIOUS
  <2> QED
    BY <2>1 DEF NeumannData, FoldLeft, MapThenFoldSet, WithSlopes, Only, Slopes
<1>2. ds[1] = 0 /\ ds[2] = 1 /\ ds[3] = 2
  OBVIOUS
<1> HIDE DEF ds
<1>3. ASSUME NEW s \in SUBSET (1 .. 3), s # {}
      PROVE  h3(s) = WithSlopes(h3(s \ {Max(s)}), t, ds[Max(s)])
  <2>1. Max(s) \in s /\ \A y \in s : y <= Max(s)
    <3>1. 3 \in Nat
      OBVIOUS
    <3> QED
      BY <1>3, <3>1, Largest
  <2>2. PICK l \in {1, 2, 3} : l = Max(s) /\ l \in s /\ \A y \in s : y <= l
    <3>1. Max(s) \in {1, 2, 3}
      <4>1. PICK z \in s : z = Max(s)
        BY <2>1
      <4>2. z \in {1, 2, 3}
        OBVIOUS
      <4> QED
        BY <4>1, <4>2
    <3> QED
      BY <2>1, <3>1
  <2>3. CASE l = 3
    <3>1. h3(s \ {3}) = h2(s)
      OBVIOUS
    <3> QED
      BY <1>2, <2>2, <2>3, <3>1
  <2>4. CASE l = 2
    <3>1. 3 \notin s
      BY <2>2, <2>4
    <3>2. h3(s \ {2}) = h1(s) /\ h3(s) = WithSlopes(h1(s), t, 1)
      BY <2>2, <2>4, <3>1
    <3> QED
      BY <1>2, <2>2, <2>4, <3>2
  <2>5. CASE l = 1
    <3>1. 3 \notin s /\ 2 \notin s
      BY <2>2, <2>5
    <3>2. h3(s \ {1}) = nu /\ h3(s) = WithSlopes(nu, t, 0)
      BY <2>2, <2>5, <3>1
    <3> QED
      BY <1>2, <2>2, <2>5, <3>2
  <2> QED
    BY <2>3, <2>4, <2>5
<1>4. Solves(g)
  <2>1. ASSUME NEW s \in SUBSET (1 .. 3)
        PROVE  g[s] = IF s = {} THEN nu ELSE WithSlopes(g[s \ {Max(s)}], t, ds[Max(s)])
    <3>1. g[s] = h3(s) /\ g[s \ {Max(s)}] = h3(s \ {Max(s)})
      OBVIOUS
    <3>2. h3({}) = nu
      OBVIOUS
    <3> HIDE DEF g, h3
    <3> QED
      BY <1>3, <3>1, <3>2
  <2>2. g = [s \in SUBSET (1 .. 3) |-> g[s]]
    OBVIOUS
  <2> HIDE DEF g
  <2> QED
    BY <2>1, <2>2, Zenon
<1>5. Solves(f)
  <2>1. \E c : Solves(c)
    BY <1>4, Zenon
  <2> HIDE DEF Solves
  <2> QED
    BY <2>1, Zenon
<1>6. \A s \in SUBSET (1 .. 3) :
        f[s] = IF s = {} THEN nu ELSE WithSlopes(f[s \ {Max(s)}], t, ds[Max(s)])
  <2> HIDE DEF f
  <2> QED
    BY <1>5, Zenon
<1> HIDE DEF f, g, h1, h2, h3, Solves
<1>7. ASSUME NEW l \in 1 .. 3
      PROVE  Max(1 .. l) = l /\ (1 .. l) \ {l} = 1 .. l - 1 /\ 1 .. l \in SUBSET (1 .. 3) /\ 1 .. l # {}
  <2>1. l \in Nat /\ l \in 1 .. l /\ 1 .. l # {} /\ 1 .. l \in SUBSET (1 .. 3)
    OBVIOUS
  <2>2. Max(1 .. l) \in 1 .. l /\ l <= Max(1 .. l)
    BY <2>1, Largest
  <2>3. PICK z \in 1 .. l : z = Max(1 .. l) /\ l <= z
    BY <2>2
  <2> QED
    BY <2>1, <2>3
<1>8. f[1 .. 0] = nu
  <2>1. 1 .. 0 = {}
    OBVIOUS
  <2> QED
    BY <1>6, <2>1
<1>9. ASSUME NEW l \in 1 .. 3 PROVE f[1 .. l] = WithSlopes(f[1 .. l - 1], t, ds[l])
  BY <1>6, <1>7
<1>10. f[1 .. 1] = WithSlopes(nu, t, 0)
  BY <1>2, <1>8, <1>9
<1>11. f[1 .. 2] = WithSlopes(f[1 .. 1], t, 1)
  BY <1>2, <1>9
<1>12. f[1 .. 3] = WithSlopes(f[1 .. 2], t, 2)
  BY <1>2, <1>9
<1> QED
  BY <1>1, <1>10, <1>11, <1>12

(* Data across d at a time: the slope along d on its faces, what was there *)
(* elsewhere.                                                              *)
LEMMA SlopesSet ==
  ASSUME cfg \in Configs, NEW t, NEW d \in Dirs, NEW v, OnEveryPoint(v)
  PROVE  /\ OnEveryPoint(WithSlopes(v, t, d))
         /\ \A x \in 0 .. Size - 1 :
              WithSlopes(v, t, d)[x] = IF OnFace("Neumann", d, x) THEN Gradient(sys, t, Location(x))[d] ELSE v[x]
<1>1. /\ OnEveryPoint(WithSlopes(v, t, d))
      /\ \A x \in 0 .. Size - 1 :
           WithSlopes(v, t, d)[x] = IF OnFaces("Neumann", Only(d), x) THEN Slopes(t, d)[x] ELSE v[x]
  BY FacesAssign DEF WithSlopes
<1>2. ASSUME NEW x \in 0 .. Size - 1 PROVE Slopes(t, d)[x] = Gradient(sys, t, Location(x))[d]
  <2>1. Location(x) \in Places
    BY DEF Places
  <2>2. Slopes(t, d)[x] = [pos \in Places |-> Gradient(sys, t, pos)[d]][Location(x)]
    BY DEF Slopes, EvalAtLocations
  <2> QED
    BY <2>1, <2>2
<1>3. ASSUME NEW x \in 0 .. Size - 1 PROVE OnFaces("Neumann", Only(d), x) <=> OnFace("Neumann", d, x)
  <2>1. n[d] \in Nat \ {0}
    BY Extents
  <2>2. 0 \in 0 .. n[d] - 1 /\ n[d] - 1 \in 0 .. n[d] - 1
    BY <2>1
  <2>3. /\ x \in Elements(MakePlane(n, d, 0)) <=> PointAt(x)[d] = 0
        /\ x \in Elements(MakePlane(n, d, n[d] - 1)) <=> PointAt(x)[d] = n[d] - 1
    BY <2>2, PlaneIs
  <2>4. Only(d)[d] = sys.grid[d]
    BY DEF Only
  <2>5. \A e \in Dirs \ {d} : Only(d)[e].left # "Neumann" /\ Only(d)[e].right # "Neumann"
    BY DEF Only
  <2> QED
    BY <2>3, <2>4, <2>5, Zenon DEF OnFaces, OnFace
<1> QED
  BY <1>1, <1>2, <1>3

(* The Neumann data of a time. *)
SlopedAt(v, t) ==
  \A d \in Dirs : \A x \in 0 .. Size - 1 :
    OnFace("Neumann", d, x) /\ (\A e \in Dirs \ {d} : ~OnFace("Neumann", e, x))
      => v[x] = Gradient(sys, t, Location(x))[d]

(* The Neumann data are those of the time they are set for, whatever was  *)
(* in them.                                                                *)
LEMMA DataSloped ==
  ASSUME cfg \in Configs, NEW t, OnEveryPoint(nu)
  PROVE  OnEveryPoint(NeumannData(t)) /\ SlopedAt(NeumannData(t), t)
<1> DEFINE slope(d, x) == Gradient(sys, t, Location(x))[d]
           a == WithSlopes(nu, t, 0)
           b == WithSlopes(a, t, 1)
           c == WithSlopes(b, t, 2)
<1>0. 0 \in Dirs /\ 1 \in Dirs /\ 2 \in Dirs
  BY DEF Dirs
<1>1. OnEveryPoint(a) /\ \A x \in 0 .. Size - 1 : OnFace("Neumann", 0, x) => a[x] = slope(0, x)
  BY <1>0, SlopesSet
<1> HIDE DEF a
<1>2. OnEveryPoint(b) /\ \A x \in 0 .. Size - 1 :
        b[x] = IF OnFace("Neumann", 1, x) THEN slope(1, x) ELSE a[x]
  BY <1>0, <1>1, SlopesSet
<1> HIDE DEF b
<1>3. OnEveryPoint(c) /\ \A x \in 0 .. Size - 1 :
        c[x] = IF OnFace("Neumann", 2, x) THEN slope(2, x) ELSE b[x]
  BY <1>0, <1>2, SlopesSet
<1>4. NeumannData(t) = c
  BY NeumannIs DEF a, b
<1> HIDE DEF c
<1>5. ASSUME NEW d \in Dirs, NEW x \in 0 .. Size - 1, OnFace("Neumann", d, x),
             \A e \in Dirs \ {d} : ~OnFace("Neumann", e, x)
      PROVE  c[x] = slope(d, x)
  <2> HIDE DEF slope
  <2>1. CASE d = 0
    BY <1>0, <1>1, <1>2, <1>3, <1>5, <2>1
  <2>2. CASE d = 1
    BY <1>0, <1>2, <1>3, <1>5, <2>2
  <2>3. CASE d = 2
    BY <1>0, <1>3, <1>5, <2>3
  <2> QED
    BY <2>1, <2>2, <2>3 DEF Dirs
<1> QED
  BY <1>3, <1>4, <1>5 DEF SlopedAt

-----------------------------------------------------------------------------
(* Fields and given points *)

(* A value at each grid point and at each point of each R. *)
Shaped(u) == OnEveryPoint(u.D) /\ \A r \in Dirs : DOMAIN u.R[r] = DOMAIN R[r]

(* The points that Dirichlet conditions give have the values of src. *)
GivenBy(u, src) ==
  /\ \A x \in 0 .. Size - 1 : WallGiven(x) => u.D[x] = src.D[x]
  /\ \A r \in Dirs : \A i \in DOMAIN R[r] : ObjectGiven(r, i) => u.R[r][i] = src.R[r][i]

(* Setting the boundary gives every given point its value.                 *)
LEMMA BoundaryGiven ==
  ASSUME MeshInv, NEW u, Shaped(u), NEW src
  PROVE  Shaped(WithBoundary(u, src)) /\ GivenBy(WithBoundary(u, src), src)
<1> DEFINE new == WithBoundary(u, src)
<1>0. cfg \in Configs /\ R \in [Dirs -> Seq(Hits)]
  BY DEF MeshInv, MeshTyped
<1>1. new.D = AssignFaces(u.D, GridFaces("Dirichlet", sys.grid, n), src.D)
  BY DEF WithBoundary, DirichletFaces
<1>2. \A r \in Dirs : new.R[r] = AssignSelected(u.R[r], DirichletObjects(r), src.R[r])
  BY DEF WithBoundary
<1> HIDE DEF new
<1>3. /\ OnEveryPoint(new.D)
      /\ \A x \in 0 .. Size - 1 :
           new.D[x] = IF OnFaces("Dirichlet", sys.grid, x) THEN src.D[x] ELSE u.D[x]
  BY <1>1, FacesAssign DEF Shaped
<1>4. ASSUME NEW x \in 0 .. Size - 1, WallGiven(x) PROVE new.D[x] = src.D[x]
  BY <1>0, <1>3, <1>4, OnFaceIs DEF WallGiven
<1>5. ASSUME NEW r \in Dirs
      PROVE  /\ DOMAIN new.R[r] = DOMAIN R[r]
             /\ \A i \in DOMAIN R[r] : ObjectGiven(r, i) => new.R[r][i] = src.R[r][i]
  <2>1. PICK m \in Nat : DOMAIN R[r] = 1 .. m
    BY <1>0
  <2>2. PICK those : those = {h \in Elements(R[r]) : ObjectCondition(h) = "Dirichlet"}
    OBVIOUS
  <2>3. DirichletObjects(r) = GatherFromPredicate(R[r], those)
    BY <2>2 DEF DirichletObjects
  <2>4. \A i : i \in Elements(DirichletObjects(r)) <=> i \in 1 .. m /\ R[r][i] \in those
    BY <2>1, <2>3, Gathers
  <2>5. new.R[r] = [i \in DOMAIN R[r] |->
                      IF i \in Elements(DirichletObjects(r)) THEN src.R[r][i] ELSE u.R[r][i]]
    BY <1>2 DEF AssignSelected, Shaped
  <2>6. ASSUME NEW i \in DOMAIN R[r], ObjectGiven(r, i) PROVE i \in Elements(DirichletObjects(r))
    <3>1. R[r][i] \in those
      BY <2>2, <2>6 DEF ObjectGiven, Elements
    <3> QED
      BY <2>1, <2>4, <3>1
  <2> QED
    BY <2>5, <2>6
<1> QED
  BY <1>3, <1>4, <1>5 DEF Shaped, GivenBy, new

(* The fields of the code have a value everywhere. *)
LEMMA FieldsShaped ==
  /\ OnEveryPoint(Constant(0).D)
  /\ \A t : Shaped(InitialField(Solution(t)))
  /\ \A u, c, b : Shaped(u) => Shaped(Combined(u, c, b))
<1>1. OnEveryPoint(Constant(0).D)
  BY DEF OnEveryPoint, Constant
<1>2. ASSUME NEW t PROVE Shaped(InitialField(Solution(t)))
  <2>1. \A f : DOMAIN EvalAtLocations(f).R = Dirs /\ \A r \in Dirs : DOMAIN EvalAtLocations(f).R[r] = DOMAIN R[r]
    BY DEF EvalAtLocations
  <2>2. \A r \in Dirs : DOMAIN Solution(t).R[r] = DOMAIN R[r]
    BY <2>1 DEF Solution, HeatSolution, WaveSolution
  <2>3. /\ InitialField(Solution(t)).R = Solution(t).R
        /\ InitialField(Solution(t)).D = AssignSelected(Constant(0).D, fluid, Solution(t).D)
    BY DEF InitialField
  <2>4. OnEveryPoint(AssignSelected(Constant(0).D, fluid, Solution(t).D))
    BY DEF OnEveryPoint, AssignSelected, Constant
  <2> QED
    BY <2>2, <2>3, <2>4 DEF Shaped
<1>3. ASSUME NEW u, NEW c, NEW b, Shaped(u) PROVE Shaped(Combined(u, c, b))
  <2>1. OnEveryPoint([x \in DOMAIN u.D |-> u.D[x] ++ (c ** b.D[x])])
    BY <1>3 DEF Shaped, OnEveryPoint
  <2> QED
    BY <1>3, <2>1 DEF Shaped, Combined
<1> QED
  BY <1>1, <1>2, <1>3

-----------------------------------------------------------------------------
(* Time *)

(* Multiples of the modulus do not count. *)
LEMMA Shifted ==
  ASSUME NEW q \in Nat \ {0}, NEW m \in Int, NEW y \in Int
  PROVE  (q * m + y) % q = y % q
<1>1. PICK c \in Int, r \in 0 .. q - 1 : r = y % q /\ y = q * c + r
  <2>1. y \div q \in Int /\ y % q \in 0 .. q - 1 /\ y = q * (y \div q) + (y % q)
    BY Divides
  <2> QED
    BY <2>1
<1>2. q * m + y = q * (m + c) + r
  <2>1. q * (m + c) = q * m + q * c
    BY <1>1
  <2>2. PICK u \in Int, v \in Int, w \in Int : u = q * m /\ v = q * c /\ w = q * (m + c)
    OBVIOUS
  <2> QED
    BY <1>1, <2>1, <2>2
<1>3. (q * (m + c) + r) % q = r
  BY DividesOnly
<1> QED
  BY <1>1, <1>2, <1>3

(* What follows s has, times d, d more. *)
LEMMA NextMultiple ==
  ASSUME NEW q \in Nat \ {0}, NEW s \in Int, NEW dt \in Int
  PROVE  ((((s % q) * (dt % q)) % q) + dt) % q = (((s + 1) % q) * (dt % q)) % q
<1>1. PICK a \in 0 .. q - 1, c \in Int : a = s % q /\ s = q * c + a
  <2>1. s \div q \in Int /\ s % q \in 0 .. q - 1 /\ s = q * (s \div q) + (s % q)
    BY Divides
  <2> QED
    BY <2>1
<1>2. PICK d \in 0 .. q - 1, e \in Int : d = dt % q /\ dt = q * e + d
  <2>1. dt \div q \in Int /\ dt % q \in 0 .. q - 1 /\ dt = q * (dt \div q) + (dt % q)
    BY Divides
  <2> QED
    BY <2>1
<1>3. PICK p \in Int : p = a * d
  OBVIOUS
<1>4. PICK y \in 0 .. q - 1, m \in Int : y = p % q /\ p = q * m + y
  <2>1. p \div q \in Int /\ p % q \in 0 .. q - 1 /\ p = q * (p \div q) + (p % q)
    BY Divides
  <2> QED
    BY <2>1
<1>5. (y + dt) % q = (y + d) % q
  <2>1. y + dt = q * e + (y + d)
    <3>1. PICK u \in Int : u = q * e
      OBVIOUS
    <3> QED
      BY <1>2, <3>1
  <2>2. (q * e + (y + d)) % q = (y + d) % q
    <3>1. PICK z \in Int : z = y + d
      OBVIOUS
    <3>2. (q * e + z) % q = z % q
      BY Shifted
    <3> QED
      BY <3>1, <3>2
  <2> QED
    BY <2>1, <2>2
<1>6. (p + d) % q = (y + d) % q
  <2>1. p + d = q * m + (y + d)
    <3>1. PICK u \in Int : u = q * m
      OBVIOUS
    <3> QED
      BY <1>4, <3>1
  <2>2. (q * m + (y + d)) % q = (y + d) % q
    <3>1. PICK z \in Int : z = y + d
      OBVIOUS
    <3>2. (q * m + z) % q = z % q
      BY Shifted
    <3> QED
      BY <3>1, <3>2
  <2> QED
    BY <2>1, <2>2
<1>7. PICK b \in Int, g \in Int : b = (s + 1) % q /\ (a + 1) - b = q * g
  <2>1. s + 1 = q * c + (a + 1)
    <3>1. PICK u \in Int : u = q * c
      OBVIOUS
    <3> QED
      BY <1>1, <3>1
  <2>2. (s + 1) % q = (a + 1) % q
    <3>1. PICK z \in Int : z = a + 1
      OBVIOUS
    <3>2. (q * c + z) % q = z % q
      BY Shifted
    <3> QED
      BY <2>1, <3>1, <3>2
  <2>3. PICK h \in Int, b \in Int : b = (a + 1) % q /\ a + 1 = q * h + b
    <3>1. PICK z \in Int : z = a + 1
      OBVIOUS
    <3>2. z \div q \in Int /\ z % q \in 0 .. q - 1 /\ z = q * (z \div q) + (z % q)
      BY Divides
    <3>3. PICK h \in Int, b \in Int : h = z \div q /\ b = z % q
      BY <3>2
    <3> QED
      BY <3>1, <3>2, <3>3
  <2>4. (a + 1) - b = q * h
    <3>1. PICK u \in Int : u = q * h
      OBVIOUS
    <3> QED
      BY <2>3, <3>1
  <2> QED
    BY <2>2, <2>3, <2>4
<1>8. (b * d) % q = (p + d) % q
  <2>1. p + d = (a + 1) * d
    <3>1. (a + 1) * d = a * d + d
      OBVIOUS
    <3> QED
      BY <1>3, <3>1
  <2>2. a + 1 = q * g + b
    <3>1. PICK u \in Int : u = q * g
      OBVIOUS
    <3> QED
      BY <1>7, <3>1
  <2>3. (q * g + b) * d = q * (g * d) + b * d
    OBVIOUS
  <2>4. (q * (g * d) + b * d) % q = (b * d) % q
    <3>1. g * d \in Int /\ b * d \in Int
      OBVIOUS
    <3> QED
      BY <3>1, Shifted
  <2> QED
    BY <2>1, <2>2, <2>3, <2>4
<1> QED
  BY <1>1, <1>2, <1>3, <1>4, <1>5, <1>6, <1>7, <1>8, Zenon

(* A step further is the next multiple of the step. *)
LEMMA NextTime ==
  ASSUME NEW s \in Nat, NEW dt \in Int
  PROVE  (s ** dt) ++ dt = (s + 1) ** dt
<1>1. PICK q \in Nat \ {0} : q = Prime
  BY DEF Prime
<1>2. s \in Int
  OBVIOUS
<1>3. ((((s % q) * (dt % q)) % q) + dt) % q = (((s + 1) % q) * (dt % q)) % q
  BY <1>1, <1>2, NextMultiple
<1> QED
  BY <1>1, <1>3 DEF ++, **

-----------------------------------------------------------------------------
(* The invariant *)

(* The solution at the given points at a time. *)
GivenAt(u, t) == GivenBy(u, Solution(t))

(* All data of a time. *)
DataAt(u, t) == GivenAt(u, t) /\ (sys.kind = "heat" => SlopedAt(nu, t))

(* The slot that is written, and stepped from.                             *)
Current == IF step = 0 THEN u0 ELSE u1

(* Steps are counted from the first write on, the buffers are there from   *)
(* when they are made.                                                     *)
SysTyped ==
  /\ pc \in {"mesh", "operators", "initialize", "first boundary", "write", "rhs", "advance", "boundary", "done"}
  /\ step \in Nat
  /\ pc # "mesh" => sys.dt \in Int
  /\ pc \in {"mesh", "operators", "initialize", "first boundary"} => step = 0
  /\ pc \notin {"mesh", "operators"} => OnEveryPoint(nu)
  /\ pc \notin {"mesh", "operators", "initialize"} => Shaped(u0) /\ Shaped(u1)

(* Data are current from the call of update_boundary to the right-hand     *)
(* side; before the copy back, that of the slot that was stepped.          *)
DataCurrent ==
  /\ pc = "write" => DataAt(Current, Now)
  /\ pc = "rhs" => DataAt(u0, Now)

(* The inductive invariant: that of the mesh, and the two above.           *)
SysInv == MeshInv /\ SysTyped /\ DataCurrent

(* It holds before there is a mesh.                                        *)
LEMMA SysStart == SysInit => SysInv
<1> SUFFICES ASSUME SysInit PROVE SysInv
  OBVIOUS
<1>1. MeshInv
  BY MeshStart DEF SysInit, AsmInit
<1>2. pc = "mesh" /\ step = 0
  BY DEF SysInit
<1> QED
  BY <1>1, <1>2 DEF SysInv, SysTyped, DataCurrent

(* A system does not change once it is constructed on its mesh. *)
LEMMA PlacesKept ==
  ASSUME vars' = vars
  PROVE  /\ n' = n /\ Size' = Size /\ R' = R /\ cfg' = cfg
         /\ \A x : Location(x)' = Location(x) /\ PointAt(x)' = PointAt(x)
         /\ Places' = Places
         /\ \A f : EvalAtLocations(f)' = EvalAtLocations(f)
<1>1. R' = R /\ cfg' = cfg /\ n' = n
  BY DEF vars, n
<1>2. Size' = Size
  BY <1>1 DEF Size
<1>3. \A x : Location(x)' = Location(x)
  BY <1>1 DEF Location
<1>4. \A x : PointAt(x)' = PointAt(x)
  BY <1>1 DEF PointAt, Stride
<1>5. \A r, h : RPosition(r, h)' = RPosition(r, h)
  <2>1. \A d, r : Origin(d, r)' = Origin(d, r)
    BY <1>1 DEF Origin
  <2>2. \A d, r, i : At(d, r, i)' = At(d, r, i)
    BY <2>1 DEF At
  <2> QED
    BY <2>2 DEF RPosition
<1>6. Places' = Places
  BY <1>1, <1>2, <1>3, <1>5 DEF Places
<1>7. \A f : EvalAtLocations(f)' = EvalAtLocations(f)
  BY <1>1, <1>2, <1>3, <1>5 DEF EvalAtLocations
<1> QED
  BY <1>1, <1>2, <1>3, <1>4, <1>6, <1>7

(* Nor does what it is given. *)
LEMMA SystemKept ==
  ASSUME vars' = vars, sys' = sys
  PROVE  /\ \A f : OnEveryPoint(f)' <=> OnEveryPoint(f)
         /\ \A u : Shaped(u)' <=> Shaped(u)
         /\ \A u, t : GivenAt(u, t)' <=> GivenAt(u, t)
         /\ \A v, t : SlopedAt(v, t)' <=> SlopedAt(v, t)
<1>1. /\ n' = n /\ Size' = Size /\ R' = R
      /\ \A x : Location(x)' = Location(x) /\ PointAt(x)' = PointAt(x)
      /\ Places' = Places
      /\ \A f : EvalAtLocations(f)' = EvalAtLocations(f)
  BY PlacesKept
<1>2. \A f : OnEveryPoint(f)' <=> OnEveryPoint(f)
  BY <1>1 DEF OnEveryPoint
<1>3. \A u : Shaped(u)' <=> Shaped(u)
  BY <1>1, <1>2 DEF Shaped
<1>4. \A bc, d, x : OnFace(bc, d, x)' <=> OnFace(bc, d, x)
  BY <1>1 DEF OnFace
<1>5. \A t : Solution(t)' = Solution(t)
  <2>1. \A t : HeatSolution(t)' = HeatSolution(t)
    BY <1>1 DEF HeatSolution
  <2>2. \A t : WaveSolution(t)' = WaveSolution(t)
    BY <1>1 DEF WaveSolution, SolutionAt
  <2> QED
    BY <2>1, <2>2 DEF Solution
<1>6. /\ \A x : WallGiven(x)' <=> WallGiven(x)
      /\ \A r, i : ObjectGiven(r, i)' <=> ObjectGiven(r, i)
  BY <1>1, <1>4 DEF WallGiven, ObjectGiven, ObjectCondition
<1>7. \A u, t : GivenAt(u, t)' <=> GivenAt(u, t)
  BY <1>1, <1>5, <1>6 DEF GivenAt, GivenBy
<1>8. \A v, t : SlopedAt(v, t)' <=> SlopedAt(v, t)
  BY <1>1, <1>4 DEF SlopedAt
<1> QED
  BY <1>2, <1>3, <1>7, <1>8

(* Steps of the system leave the mesh alone once it is there. *)
LEMMA MeshLeft ==
  ASSUME MeshInv, vars' = vars
  PROVE  MeshInv'
<1>1. [Next]_vars
  OBVIOUS
<1> QED
  BY <1>1, MeshStep

(* update_boundary brings all data to its time. *)
LEMMA BoundaryStep ==
  ASSUME MeshInv, NEW u, Shaped(u), OnEveryPoint(nu), NEW t, vars' = vars, sys' = sys,
         nu' = IF sys.kind = "heat" THEN NeumannData(t) ELSE nu
  PROVE  /\ OnEveryPoint(nu)'
         /\ Shaped(WithBoundary(u, Solution(t))) /\ GivenAt(WithBoundary(u, Solution(t)), t)
         /\ sys.kind = "heat" => SlopedAt(nu, t)'
<1>1. Shaped(WithBoundary(u, Solution(t))) /\ GivenAt(WithBoundary(u, Solution(t)), t)
  BY BoundaryGiven DEF GivenAt
<1>2. cfg \in Configs
  BY DEF MeshInv, MeshTyped
<1>3. OnEveryPoint(NeumannData(t)) /\ SlopedAt(NeumannData(t), t)
  BY <1>2, DataSloped
<1>4. (\A f : OnEveryPoint(f)' <=> OnEveryPoint(f)) /\ (\A v : SlopedAt(v, t)' <=> SlopedAt(v, t))
  BY SystemKept
<1>5. OnEveryPoint(nu)'
  BY <1>3, <1>4
<1>6. sys.kind = "heat" => SlopedAt(nu, t)'
  BY <1>3, <1>4
<1> QED
  BY <1>1, <1>5, <1>6

-----------------------------------------------------------------------------
(* Steps *)

(* The mesh is built before there is a system. *)
LEMMA MeshStepKeeps == ASSUME SysInv, SysBuildMesh PROVE SysInv'
<1>1. [Next]_vars
  BY DEF SysBuildMesh, BuildMesh, Next
<1>2. MeshInv'
  BY <1>1, MeshStep DEF SysInv
<1>3. pc' = "mesh" /\ step' = 0
  BY DEF SysInv, SysTyped, SysBuildMesh, sysVars
<1> QED
  BY <1>2, <1>3 DEF SysInv, SysTyped, DataCurrent

(* A system is constructed, with its derivatives. *)
LEMMA ConstructionKeeps ==
  ASSUME SysInv, (\E s \in Systems(cfg) : ConstructSystem(s)) \/ AssembleOperator \/ NextOperator
  PROVE  SysInv'
<1>1. CASE \E s \in Systems(cfg) : ConstructSystem(s)
  <2>1. PICK s \in Systems(cfg) : ConstructSystem(s)
    BY <1>1
  <2>2. vars' = vars /\ sys' = s /\ pc' = "operators" /\ pc = "mesh" /\ step' = step
    BY <2>1 DEF ConstructSystem
  <2>3. s.dt \in Int
    BY <2>1, SystemAssumption DEF SysInv, MeshInv, MeshTyped
  <2>4. MeshInv'
    BY <2>2, MeshLeft DEF SysInv
  <2> QED
    BY <2>2, <2>3, <2>4 DEF SysInv, SysTyped, DataCurrent
<1>2. CASE AssembleOperator \/ NextOperator
  <2>1. vars' = vars
    BY <1>2 DEF AssembleOperator, NextOperator, DiscretizeLine, FinishDomain, DiscretizeCuts
  <2>2. sys' = sys /\ pc' = pc /\ pc = "operators" /\ step' = step
    BY <1>2 DEF AssembleOperator, NextOperator, sysVars
  <2>3. MeshInv'
    BY <2>1, MeshLeft DEF SysInv
  <2> QED
    BY <2>2, <2>3 DEF SysInv, SysTyped, DataCurrent
<1> QED
  BY <1>1, <1>2

(* Buffers are made, and the fields at the start. *)
LEMMA BuffersKeep ==
  ASSUME SysInv, ConstructMembers \/ Initialize
  PROVE  SysInv'
<1>1. vars' = vars /\ sys' = sys /\ step' = step
  BY DEF ConstructMembers, Initialize, allVars
<1>2. MeshInv'
  BY <1>1, MeshLeft DEF SysInv
<1>3. /\ \A f : OnEveryPoint(f)' <=> OnEveryPoint(f)
      /\ \A u : Shaped(u)' <=> Shaped(u)
  BY <1>1, SystemKept
<1>4. CASE ConstructMembers
  <2>1. nu' = Constant(0).D /\ pc = "operators" /\ pc' = "initialize"
    BY <1>4 DEF ConstructMembers
  <2>2. OnEveryPoint(nu)'
    BY <1>3, <2>1, FieldsShaped
  <2> QED
    BY <1>1, <1>2, <2>1, <2>2 DEF SysInv, SysTyped, DataCurrent
<1>5. CASE Initialize
  <2>1. /\ u0' = InitialField(Solution(Now)) /\ u1' = u0' /\ nu' = nu
        /\ pc = "initialize" /\ pc' = "first boundary"
    BY <1>5 DEF Initialize
  <2>2. PICK t : t = Now
    OBVIOUS
  <2>3. Shaped(u0)' /\ Shaped(u1)'
    BY <1>3, <2>1, <2>2, FieldsShaped
  <2>4. OnEveryPoint(nu)'
    BY <1>3, <2>1 DEF SysInv, SysTyped
  <2> QED
    BY <1>1, <1>2, <2>1, <2>3, <2>4 DEF SysInv, SysTyped, DataCurrent
<1> QED
  BY <1>4, <1>5

(* The boundary of the initial field. *)
LEMMA FirstBoundaryKeeps == ASSUME SysInv, FirstBoundary PROVE SysInv'
<1>1. PICK t, u : t = Now /\ u = u0
  OBVIOUS
<1>2. /\ vars' = vars /\ sys' = sys /\ step' = step /\ u1' = u1
      /\ pc = "first boundary" /\ pc' = "write"
      /\ nu' = IF sys.kind = "heat" THEN NeumannData(t) ELSE nu
      /\ u0' = WithBoundary(u, Solution(t))
  BY <1>1 DEF FirstBoundary, UpdateBoundary, allVars
<1>3. MeshInv /\ Shaped(u) /\ Shaped(u1) /\ OnEveryPoint(nu) /\ step = 0 /\ sys.dt \in Int
  BY <1>1, <1>2 DEF SysInv, SysTyped
<1>4. /\ OnEveryPoint(nu)'
      /\ Shaped(WithBoundary(u, Solution(t))) /\ GivenAt(WithBoundary(u, Solution(t)), t)
      /\ sys.kind = "heat" => SlopedAt(nu, t)'
  BY <1>2, <1>3, BoundaryStep
<1>5. /\ \A w : Shaped(w)' <=> Shaped(w)
      /\ \A w : GivenAt(w, t)' <=> GivenAt(w, t)
  BY <1>2, SystemKept
<1>6. MeshInv'
  BY <1>2, <1>3, MeshLeft
<1>7. Now' = t
  BY <1>1, <1>2 DEF Now
<1>8. Current' = u0'
  BY <1>2, <1>3 DEF Current
<1>9. Shaped(u0)' /\ Shaped(u1)' /\ GivenAt(u0, t)'
  BY <1>2, <1>3, <1>4, <1>5
<1>10. DataAt(Current, Now)'
  BY <1>2, <1>4, <1>7, <1>8, <1>9 DEF DataAt
<1> QED
  BY <1>2, <1>3, <1>4, <1>6, <1>9, <1>10 DEF SysInv, SysTyped, DataCurrent

(* Writing copies what was stepped back. *)
LEMMA WriteKeeps == ASSUME SysInv, Write PROVE SysInv'
<1>1. PICK t, u : t = Now /\ u = Current
  OBVIOUS
<1>2. /\ vars' = vars /\ sys' = sys /\ step' = step /\ u1' = u1 /\ nu' = nu
      /\ pc = "write" /\ pc' \in {"rhs", "done"} /\ u0' = u
  BY <1>1 DEF Write, Current, allVars
<1>3. /\ MeshInv /\ Shaped(u) /\ Shaped(u1) /\ OnEveryPoint(nu) /\ step \in Nat /\ sys.dt \in Int
      /\ DataAt(u, t)
  BY <1>1, <1>2 DEF SysInv, SysTyped, DataCurrent, Current
<1>4. /\ \A f : OnEveryPoint(f)' <=> OnEveryPoint(f)
      /\ \A w : Shaped(w)' <=> Shaped(w)
      /\ \A w : GivenAt(w, t)' <=> GivenAt(w, t)
      /\ \A v : SlopedAt(v, t)' <=> SlopedAt(v, t)
  BY <1>2, SystemKept
<1>5. MeshInv'
  BY <1>2, <1>3, MeshLeft
<1>6. Now' = t
  BY <1>1, <1>2 DEF Now
<1>7. OnEveryPoint(nu)' /\ Shaped(u0)' /\ Shaped(u1)'
  BY <1>2, <1>3, <1>4
<1>8. DataAt(u0, Now)'
  BY <1>2, <1>3, <1>4, <1>6 DEF DataAt
<1> QED
  BY <1>2, <1>3, <1>5, <1>7, <1>8 DEF SysInv, SysTyped, DataCurrent

(* The right-hand side and the update write u1 only. *)
LEMMA AdvanceKeeps == ASSUME SysInv, ComputeRhs \/ Advance PROVE SysInv'
<1>1. /\ vars' = vars /\ sys' = sys /\ step' = step /\ u0' = u0 /\ nu' = nu
      /\ pc \in {"rhs", "advance"} /\ pc' \in {"advance", "boundary"}
      /\ u1' = u0 \/ u1' = Combined(u0, sys.dt, rhs)
  BY DEF ComputeRhs, Advance, allVars
<1>2. MeshInv /\ Shaped(u0) /\ Shaped(u1) /\ OnEveryPoint(nu) /\ step \in Nat /\ sys.dt \in Int
  BY <1>1 DEF SysInv, SysTyped
<1>3. /\ \A f : OnEveryPoint(f)' <=> OnEveryPoint(f)
      /\ \A w : Shaped(w)' <=> Shaped(w)
  BY <1>1, SystemKept
<1>4. MeshInv'
  BY <1>1, <1>2, MeshLeft
<1>5. PICK w : w = u1' /\ Shaped(w)
  BY <1>1, <1>2, FieldsShaped
<1>6. OnEveryPoint(nu)' /\ Shaped(u0)' /\ Shaped(u1)'
  BY <1>1, <1>2, <1>3, <1>5
<1> QED
  BY <1>1, <1>2, <1>4, <1>6 DEF SysInv, SysTyped, DataCurrent

(* The boundary of what was stepped, at the time it was stepped to. *)
LEMMA StepBoundaryKeeps == ASSUME SysInv, StepBoundary PROVE SysInv'
<1>1. PICK t, u : t = Now ++ sys.dt /\ u = u1
  OBVIOUS
<1>2. /\ vars' = vars /\ sys' = sys /\ step' = step + 1 /\ u0' = u0
      /\ pc = "boundary" /\ pc' = "write"
      /\ nu' = IF sys.kind = "heat" THEN NeumannData(t) ELSE nu
      /\ u1' = WithBoundary(u, Solution(t))
  BY <1>1 DEF StepBoundary, UpdateBoundary, allVars
<1>3. MeshInv /\ Shaped(u) /\ Shaped(u0) /\ OnEveryPoint(nu) /\ step \in Nat /\ sys.dt \in Int
  BY <1>1, <1>2 DEF SysInv, SysTyped
<1>4. /\ OnEveryPoint(nu)'
      /\ Shaped(WithBoundary(u, Solution(t))) /\ GivenAt(WithBoundary(u, Solution(t)), t)
      /\ sys.kind = "heat" => SlopedAt(nu, t)'
  BY <1>2, <1>3, BoundaryStep
<1>5. /\ \A w : Shaped(w)' <=> Shaped(w)
      /\ \A w : GivenAt(w, t)' <=> GivenAt(w, t)
  BY <1>2, SystemKept
<1>6. MeshInv'
  BY <1>2, <1>3, MeshLeft
<1>7. Now' = t
  <2>1. (step ** sys.dt) ++ sys.dt = (step + 1) ** sys.dt
    BY <1>3, NextTime
  <2> QED
    BY <1>1, <1>2, <2>1 DEF Now
<1>8. Current' = u1'
  BY <1>2, <1>3 DEF Current
<1>9. Shaped(u0)' /\ Shaped(u1)' /\ GivenAt(u1, t)'
  BY <1>2, <1>3, <1>4, <1>5
<1>10. DataAt(Current, Now)'
  BY <1>2, <1>4, <1>7, <1>8, <1>9 DEF DataAt
<1> QED
  BY <1>2, <1>3, <1>4, <1>6, <1>9, <1>10 DEF SysInv, SysTyped, DataCurrent

(* Every step keeps the invariant.                                         *)
LEMMA SysStep == ASSUME SysInv, [SysNext]_allSysVars PROVE SysInv'
<1>1. CASE SysBuildMesh
  BY <1>1, MeshStepKeeps
<1>2. CASE (\E s \in Systems(cfg) : ConstructSystem(s)) \/ AssembleOperator \/ NextOperator
  BY <1>2, ConstructionKeeps
<1>3. CASE ConstructMembers \/ Initialize
  BY <1>3, BuffersKeep
<1>4. CASE FirstBoundary
  BY <1>4, FirstBoundaryKeeps
<1>5. CASE Write
  BY <1>5, WriteKeeps
<1>6. CASE ComputeRhs \/ Advance
  BY <1>6, AdvanceKeeps
<1>7. CASE StepBoundary
  BY <1>7, StepBoundaryKeeps
<1>8. CASE UNCHANGED allSysVars
  <2>1. /\ vars' = vars /\ sys' = sys /\ pc' = pc /\ step' = step
        /\ u0' = u0 /\ u1' = u1 /\ nu' = nu
    BY <1>8 DEF allSysVars, allVars, sysVars
  <2>2. MeshInv'
    BY <2>1, MeshLeft DEF SysInv
  <2>3. /\ \A f : OnEveryPoint(f)' <=> OnEveryPoint(f)
        /\ \A w : Shaped(w)' <=> Shaped(w)
        /\ \A w, t : GivenAt(w, t)' <=> GivenAt(w, t)
        /\ \A v, t : SlopedAt(v, t)' <=> SlopedAt(v, t)
    BY <2>1, SystemKept
  <2>4. SysTyped'
    BY <2>1, <2>3 DEF SysInv, SysTyped
  <2>5. Now' = Now /\ Current' = Current
    BY <2>1 DEF Now, Current
  <2>6. DataCurrent'
    BY <2>1, <2>3, <2>5 DEF SysInv, DataCurrent, DataAt
  <2> QED
    BY <2>2, <2>4, <2>6 DEF SysInv
<1> QED
  BY <1>1, <1>2, <1>3, <1>4, <1>5, <1>6, <1>7, <1>8 DEF SysNext

(* BoundaryCurrent: when rhs of heat or scalar_wave is called, the solution *)
(* at the points that Dirichlet conditions give and the slopes across       *)
(* Neumann faces are those of the time it is called for, on every mesh,     *)
(* with every solution, as long as the cycle calls update_boundary in the   *)
(* order it does.                                                           *)
THEOREM BoundaryStaysCurrent == SysSpec => []BoundaryCurrent
<1>1. SysInit => SysInv
  BY SysStart
<1>2. SysInv /\ [SysNext]_allSysVars => SysInv'
  BY SysStep
<1>3. SysInv => BoundaryCurrent
  BY DEF SysInv, DataCurrent, DataAt, GivenAt, GivenBy, SlopedAt, BoundaryCurrent
<1> QED
  BY <1>1, <1>2, <1>3, PTL DEF SysSpec

-----------------------------------------------------------------------------
(* The rows of a line, on the pieces that MeshLines_proofs divides it into *)

(* A step along a direction is a stride of the flat index. *)
LEMMA FlatSteps ==
  ASSUME cfg \in Configs, NEW d \in Dirs, NEW r \in Int, NEW f \in Int, NEW i \in Int
  PROVE  Flat(At(d, r, f + i)) = Flat(At(d, r, f)) + (i * Stride(d))
<1>1. PICK a \in Nat \ {0}, b \in Nat \ {0}, c \in Nat \ {0} : a = n[0] /\ b = n[1] /\ c = n[2]
  BY ConfigFacts DEF Dirs
<1>2. PICK p, q : p = At(d, r, f + i) /\ q = At(d, r, f)
  OBVIOUS
<1>3. /\ p \in [Dirs -> Int] /\ q \in [Dirs -> Int] /\ p[d] = f + i /\ q[d] = f
      /\ \A e \in Dirs \ {d} : p[e] = q[e]
  <2>1. f + i \in Int
    OBVIOUS
  <2>2. p \in [Dirs -> Int] /\ p[d] = f + i /\ \A e \in Dirs \ {d} : p[e] = Origin(d, r)[e]
    BY <1>2, <2>1, OriginIs
  <2>3. q \in [Dirs -> Int] /\ q[d] = f /\ \A e \in Dirs \ {d} : q[e] = Origin(d, r)[e]
    BY <1>2, OriginIs
  <2> QED
    BY <2>2, <2>3
<1>4. PICK x \in Int, y \in Int, z \in Int : x = q[0] /\ y = q[1] /\ z = q[2]
  BY <1>3 DEF Dirs
<1>5. Flat(q) = ((x * b) * c) + (y * c) + z
  BY <1>1, <1>4 DEF Flat
<1>6. CASE d = 0
  <2>1. p[0] = x + i /\ p[1] = y /\ p[2] = z
    BY <1>3, <1>4, <1>6 DEF Dirs
  <2>2. Flat(p) = (((x + i) * b) * c) + (y * c) + z
    BY <1>1, <2>1 DEF Flat
  <2>3. ((x + i) * b) * c = ((x * b) * c) + (i * (b * c))
    BY SMT
  <2>4. Stride(d) = b * c
    BY <1>1, <1>6 DEF Stride
  <2>5. PICK u \in Int, v \in Int, w \in Int, t \in Int :
          u = ((x + i) * b) * c /\ v = (x * b) * c /\ w = i * (b * c) /\ t = y * c
    OBVIOUS
  <2>6. Flat(p) = u + t + z /\ Flat(q) = v + t + z /\ u = v + w
    BY <1>5, <2>2, <2>3, <2>5
  <2>7. Flat(p) = Flat(q) + w
    BY <2>6
  <2> QED
    BY <1>2, <2>4, <2>5, <2>7
<1>7. CASE d = 1
  <2>1. p[0] = x /\ p[1] = y + i /\ p[2] = z
    BY <1>3, <1>4, <1>7 DEF Dirs
  <2>2. Flat(p) = ((x * b) * c) + ((y + i) * c) + z
    BY <1>1, <2>1 DEF Flat
  <2>3. (y + i) * c = (y * c) + (i * c)
    OBVIOUS
  <2>4. Stride(d) = c
    BY <1>1, <1>7 DEF Stride
  <2>5. PICK u \in Int, v \in Int, w \in Int, t \in Int :
          u = (y + i) * c /\ v = y * c /\ w = i * c /\ t = (x * b) * c
    OBVIOUS
  <2>6. Flat(p) = t + u + z /\ Flat(q) = t + v + z /\ u = v + w
    BY <1>5, <2>2, <2>3, <2>5
  <2>7. Flat(p) = Flat(q) + w
    BY <2>6
  <2> QED
    BY <1>2, <2>4, <2>5, <2>7
<1>8. CASE d = 2
  <2>1. p[0] = x /\ p[1] = y /\ p[2] = z + i
    BY <1>3, <1>4, <1>8 DEF Dirs
  <2>2. Flat(p) = ((x * b) * c) + (y * c) + (z + i)
    BY <1>1, <2>1 DEF Flat
  <2>3. Stride(d) = 1 /\ i * 1 = i
    BY <1>8 DEF Stride
  <2>4. PICK u \in Int, v \in Int : u = (x * b) * c /\ v = y * c
    OBVIOUS
  <2>5. Flat(p) = u + v + (z + i) /\ Flat(q) = u + v + z
    BY <1>5, <2>2, <2>4
  <2>6. Flat(p) = Flat(q) + i
    BY <2>5
  <2> QED
    BY <1>2, <2>3, <2>6
<1> QED
  BY <1>6, <1>7, <1>8 DEF Dirs

(* So is one along a ray. *)
LEMMA FlatAfter ==
  ASSUME cfg \in Configs, NEW d \in Dirs, NEW r \in 0 .. Rays(d) - 1, NEW f \in Int,
         NEW i \in Int
  PROVE  Flat(At(d, r, f + i)) = Flat(At(d, r, f)) + (i * Stride(d))
<1>1. PICK g \in Int : g = r
  OBVIOUS
<1>2. Flat(At(d, g, f + i)) = Flat(At(d, g, f)) + (i * Stride(d))
  BY FlatSteps
<1> QED
  BY <1>1, <1>2

(* The points of a ray are points of the mesh. *)
LEMMA AtPoint ==
  ASSUME cfg \in Configs, NEW d \in Dirs, NEW r \in 0 .. Rays(d) - 1, NEW j \in 0 .. n[d] - 1
  PROVE  At(d, r, j) \in Points /\ RayOf(d, At(d, r, j)) = r /\ At(d, r, j)[d] = j
<1>1. PICK s \in Dirs, t \in Dirs : /\ s = Slow(d) /\ t = Fast(d) /\ Dirs = {s, t, d}
                                    /\ s # d /\ t # d /\ s # t
  BY Across
<1>2. PICK a \in Nat \ {0}, b \in Nat \ {0}, c \in Nat \ {0} : a = n[s] /\ b = n[t] /\ c = n[d]
  BY ConfigFacts
<1>3. r \in 0 .. (a * b) - 1 /\ r \in Int /\ j \in Int
  BY <1>1, <1>2 DEF Rays
<1>4. PICK x \in 0 .. a - 1, y \in 0 .. b - 1 : x = r \div b /\ y = r % b /\ r = b * x + y
  <2>1. r \div b \in 0 .. a - 1
    BY <1>3, QuotientBelow
  <2>2. r % b \in 0 .. b - 1 /\ r = b * (r \div b) + (r % b)
    BY <1>3, Divides
  <2> QED
    BY <2>1, <2>2
<1>5. PICK p : p = At(d, r, j)
  OBVIOUS
<1>6. p \in [Dirs -> Int] /\ p[d] = j /\ p[s] = x /\ p[t] = y
  <2>0. PICK g \in Int, i \in Int : g = r /\ i = j
    BY <1>3
  <2>1. p \in [Dirs -> Int] /\ p[d] = j /\ \A e \in Dirs \ {d} : p[e] = Origin(d, r)[e]
    <3>1. p = At(d, g, i)
      BY <1>5, <2>0
    <3>2. /\ \A m \in Int : At(d, g, m) \in [Dirs -> Int] /\ At(d, g, m)[d] = m
          /\ \A m \in Int : \A e \in Dirs \ {d} : At(d, g, m)[e] = Origin(d, g)[e]
      BY OriginIs
    <3> QED
      BY <2>0, <3>1, <3>2
  <2>2. Origin(d, r)[s] = x /\ Origin(d, r)[t] = y
    BY <1>1, <1>2, <1>4 DEF Origin
  <2> QED
    BY <1>1, <2>1, <2>2
<1>7. RayOf(d, p) = r
  <2>1. RayOf(d, p) = (x * b) + y
    BY <1>1, <1>2, <1>6 DEF RayOf
  <2>2. x * b = b * x
    OBVIOUS
  <2> QED
    BY <1>4, <2>1, <2>2
<1>8. \A e \in Dirs : p[e] \in 0 .. n[e] - 1
  BY <1>1, <1>2, <1>4, <1>6
<1>9. p = [e \in Dirs |-> <<p[0], p[1], p[2]>>[e + 1]]
  BY <1>6 DEF Dirs
<1>10. p \in Points
  BY <1>8, <1>9 DEF Points, Dirs
<1> QED
  BY <1>5, <1>6, <1>7, <1>10

(* No two points have the same index. *)
LEMMA FlatOnce ==
  ASSUME cfg \in Configs, NEW p \in Points, NEW q \in Points, Flat(p) = Flat(q)
  PROVE  p = q
<1>1. PICK a \in Nat \ {0}, b \in Nat \ {0}, c \in Nat \ {0} : a = n[0] /\ b = n[1] /\ c = n[2]
  BY ConfigFacts DEF Dirs
<1>2. /\ p \in [Dirs -> Nat] /\ \A e \in Dirs : p[e] \in 0 .. n[e] - 1
      /\ q \in [Dirs -> Nat] /\ \A e \in Dirs : q[e] \in 0 .. n[e] - 1
  <2>1. 0 \in Dirs
    BY DEF Dirs
  <2> QED
    BY <2>1, PointOnRay
<1>3. PICK x \in Nat, y \in 0 .. b - 1, z \in 0 .. c - 1 : x = p[0] /\ y = p[1] /\ z = p[2]
  BY <1>1, <1>2 DEF Dirs
<1>4. PICK u \in Nat, v \in 0 .. b - 1, w \in 0 .. c - 1 : u = q[0] /\ v = q[1] /\ w = q[2]
  BY <1>1, <1>2 DEF Dirs
<1>5. PICK s \in Int, t \in Int : s = b * x + y /\ t = b * u + v
  OBVIOUS
<1>6. Flat(p) = c * s + z /\ Flat(q) = c * t + w
  <2>1. Flat(p) = ((x * b) * c) + (y * c) + z /\ Flat(q) = ((u * b) * c) + (v * c) + w
    BY <1>1, <1>3, <1>4 DEF Flat
  <2>2. c * s = ((x * b) * c) + (y * c)
    BY <1>5, SMT
  <2>3. c * t = ((u * b) * c) + (v * c)
    BY <1>5, SMT
  <2> QED
    BY <2>1, <2>2, <2>3
<1>7. s = t /\ z = w
  <2>1. (c * s + z) \div c = s /\ (c * s + z) % c = z
    BY DividesOnly
  <2>2. (c * t + w) \div c = t /\ (c * t + w) % c = w
    BY DividesOnly
  <2> QED
    BY <1>6, <2>1, <2>2
<1>8. x = u /\ y = v
  <2>1. (b * x + y) \div b = x /\ (b * x + y) % b = y
    BY DividesOnly
  <2>2. (b * u + v) \div b = u /\ (b * u + v) % b = v
    BY DividesOnly
  <2> QED
    BY <1>5, <1>7, <2>1, <2>2
<1>9. p[0] = q[0] /\ p[1] = q[1] /\ p[2] = q[2]
  BY <1>3, <1>4, <1>7, <1>8
<1>10. \A e \in Dirs : p[e] = q[e]
  BY <1>9 DEF Dirs
<1> QED
  BY <1>2, <1>10

(* A point has one of the rows that begin at place f of a ray if it is on  *)
(* that ray and among their places.                                        *)
LEMMA RowsOnRay ==
  ASSUME cfg \in Configs, NEW d \in Dirs, NEW pt \in Points, NEW r \in 0 .. Rays(d) - 1,
         NEW f \in Int, NEW w \in Int, 0 <= f, f + w <= n[d],
         NEW x, x = Flat(pt) - Flat(At(d, r, f))
  PROVE  (x % Stride(d) = 0 /\ x \div Stride(d) \in 0 .. w - 1) <=>
           (RayOf(d, pt) = r /\ f <= pt[d] /\ pt[d] < f + w)
<1>1. PICK s \in Nat \ {0}, base \in Int, top \in Int :
        s = Stride(d) /\ base = Flat(At(d, r, f)) /\ top = Flat(pt)
  <2>1. r \in Int
    OBVIOUS
  <2>2. Flat(At(d, r, f)) \in Int /\ Stride(d) \in Nat \ {0}
    BY <2>1, FlatIs
  <2>3. PICK j \in 0 .. n[d] - 1, y \in 0 .. Rays(d) - 1 : j = pt[d] /\ y = RayOf(d, pt)
    BY PointOnRay
  <2>4. Flat(pt) \in Int
    <3>1. pt[0] \in Nat /\ pt[1] \in Nat /\ pt[2] \in Nat
      BY PointOnRay DEF Dirs
    <3>2. n[1] \in Nat /\ n[2] \in Nat
      BY ConfigFacts DEF Dirs
    <3> QED
      BY <3>1, <3>2 DEF Flat
  <2> QED
    BY <2>2, <2>4
<1>2. PICK m \in Nat, j \in Nat : m = n[d] /\ j = pt[d] /\ j < m
  <2>1. pt[d] \in 0 .. n[d] - 1 /\ n[d] \in Nat \ {0}
    BY PointOnRay, ConfigFacts
  <2> QED
    BY <2>1
<1>3. ASSUME x % s = 0, x \div s \in 0 .. w - 1
      PROVE  RayOf(d, pt) = r /\ f <= j /\ j < f + w
  <2>1. PICK i \in 0 .. w - 1 : i = x \div s
    BY <1>3
  <2>2. x = s * i
    <3>1. x \in Int
      BY <1>1
    <3>2. x = s * (x \div s) + (x % s)
      BY <3>1, Divides
    <3> QED
      BY <1>3, <2>1, <3>2
  <2>3. PICK g \in 0 .. m - 1 : g = f + i
    BY <1>2
  <2>4. Flat(At(d, r, g)) = base + i * s
    <3>0. i \in Int
      OBVIOUS
    <3>1. Flat(At(d, r, f + i)) = Flat(At(d, r, f)) + (i * Stride(d))
      BY <3>0, FlatAfter, Zenon
    <3> QED
      BY <1>1, <2>3, <3>1
  <2>5. Flat(At(d, r, g)) = top
    <3>1. i * s = s * i /\ i * s \in Int
      OBVIOUS
    <3> QED
      BY <1>1, <2>2, <2>4, <3>1
  <2>6. /\ At(d, r, g) \in Points /\ RayOf(d, At(d, r, g)) = r /\ At(d, r, g)[d] = g
    BY <1>2, <2>3, AtPoint
  <2>7. At(d, r, g) = pt
    BY <1>1, <2>5, <2>6, FlatOnce
  <2> QED
    BY <1>2, <2>3, <2>6, <2>7
<1>4. ASSUME RayOf(d, pt) = r, f <= j, j < f + w
      PROVE  x % s = 0 /\ x \div s \in 0 .. w - 1
  <2>1. PICK i \in 0 .. w - 1 : i = j - f /\ f + i = j
    BY <1>4
  <2>2. At(d, r, j) = pt
    <3>1. pt \in Segment(d, r, j, j)
      BY <1>2, <1>4, InSegment
    <3> QED
      BY <3>1 DEF Segment
  <2>3. top = base + i * s
    <3>0. i \in Int
      OBVIOUS
    <3>1. Flat(At(d, r, f + i)) = Flat(At(d, r, f)) + (i * Stride(d))
      BY <3>0, FlatAfter, Zenon
    <3> QED
      BY <1>1, <2>1, <2>2, <3>1
  <2>4. x = s * i + 0
    <3>1. i * s = s * i /\ i * s \in Int
      OBVIOUS
    <3> QED
      BY <1>1, <2>3, <3>1
  <2>5. (s * i + 0) \div s = i /\ (s * i + 0) % s = 0
    BY DividesOnly
  <2> QED
    BY <2>4, <2>5
<1> QED
  BY <1>1, <1>2, <1>3, <1>4

(* Where a line of direction d lies on its ray.                            *)
OnMeshRay(d, l) ==
  /\ l.ray \in 0 .. Rays(d) - 1 /\ l.start.at \in Int /\ l.end.at \in Int
  /\ IF l.start.object = Wall THEN l.start.at = 0 ELSE IsObject(l.start) /\ 0 <= l.start.at
  /\ IF l.end.object = Wall THEN l.end.at = n[d] - 1 ELSE IsObject(l.end) /\ l.end.at <= n[d] - 1

(* The lines of a finished mesh. *)
LEMMA LineOnRay ==
  ASSUME PiecesInv, Regular, Apart, phase = "done", NEW d \in Active, NEW i \in 1 .. Len(lines[d])
  PROVE  OnMeshRay(d, lines[d][i])
<1>0. MeshInv /\ d \in Dirs /\ cfg \in Configs /\ FoundInv /\ phase # "cast"
  BY DEF PiecesInv, FoundInv, MeshInv, MeshTyped, Active
<1>1. PICK q : q = lines[d] /\ q = LinesOf(d) /\ q \in Seq(Pieced(d)) /\ i \in 1 .. Len(q)
  <2>1. lines[d] = LinesOf(d)
    BY DEF PiecesInv, Lined
  <2>2. LinesOf(d) \in Seq(Pieced(d))
    BY <1>0, LinesTyped
  <2> QED
    BY <2>1, <2>2
<1>2. PICK l \in Pieced(d) : l = q[i]
  BY <1>1
<1>3. /\ l.start.at \in Int /\ l.end.at \in Int
      /\ l.start.object \in Ends(d) /\ l.end.object \in Ends(d)
  BY DEF Pieced
<1>4. PICK r, J : PieceHere(d, i, r, J)
  BY <1>0, <1>1, LineSomewhere
<1>5. PICK h : h = HitsOn(d, r) /\ Enumerates(h, d, r)
  BY <1>0, HitsOnIs
<1>6. PICK c : c = IF J > Len(h) THEN Wall ELSE h[J]
  OBVIOUS
<1>7. /\ r \in 0 .. Rays(d) - 1 /\ J \in 1 .. Len(h) + 1 /\ l.ray = r
      /\ l.start = Boundary(d, Left(d, h, J), 0) /\ l.end = Boundary(d, c, n[d] - 1)
  <2>1. l = PieceAt(d, r, h, J) /\ r \in 0 .. Rays(d) - 1 /\ J \in 1 .. Len(h) + 1
    BY <1>1, <1>2, <1>4, <1>5 DEF PieceHere
  <2> QED
    BY <1>6, <2>1 DEF PieceAt
<1>8. l.end.object = c /\ (c = Wall \/ c \in 1 .. Len(R[d]))
  <2>1. J > Len(h) \/ J \in 1 .. Len(h)
    BY <1>5, <1>7 DEF Enumerates
  <2> QED
    BY <1>5, <1>6, <1>7, <2>1 DEF Boundary, Enumerates
<1>9. l.start.object # Nobody
  <2>1. i \in DOMAIN LinesOf(d)
    BY <1>1
  <2> QED
    BY <1>0, <1>1, <1>2, <2>1, LinesStarted
<1>10. \A o \in 1 .. Len(R[d]) : R[d][o].at \in 0 .. n[d] - 1
  <2>1. HitsBracketed
    BY <1>0, InvBrackets
  <2>2. DOMAIN R[d] = 1 .. Len(R[d])
    BY <1>0 DEF MeshInv, MeshTyped
  <2>3. \A o \in DOMAIN R[d] : R[d][o].at \in 0 .. n[d] - 1
    BY <2>1 DEF HitsBracketed
  <2> QED
    BY <2>2, <2>3
<1>11. n[d] \in Nat
  BY <1>0, ConfigFacts
<1>12. IF l.start.object = Wall THEN l.start.at = 0 ELSE IsObject(l.start) /\ 0 <= l.start.at
  <2>1. PICK o : o = l.start.object /\ l.start = Boundary(d, o, 0)
    <3>1. PICK o : o = Left(d, h, J)
      OBVIOUS
    <3>2. l.start = Boundary(d, o, 0)
      BY <1>7, <3>1
    <3>3. l.start.object = o
      BY <3>2 DEF Boundary
    <3> QED
      BY <3>2, <3>3
  <2>2. CASE o = Wall
    BY <2>1, <2>2 DEF Boundary
  <2>3. CASE o # Wall
    <3>1. o \in 1 .. Len(R[d])
      BY <1>3, <1>9, <2>1, <2>3 DEF Ends
    <3>2. l.start.at = R[d][o].at
      BY <2>1, <2>3, <1>9 DEF Boundary
    <3>3. IsObject(l.start)
      BY <2>1, <3>1 DEF IsObject, Wall
    <3> QED
      BY <1>10, <1>11, <2>1, <2>3, <3>1, <3>2, <3>3
  <2> QED
    BY <2>2, <2>3
<1>13. IF l.end.object = Wall THEN l.end.at = n[d] - 1 ELSE IsObject(l.end) /\ l.end.at <= n[d] - 1
  <2>2. CASE c = Wall
    BY <1>7, <1>8, <2>2 DEF Boundary
  <2>3. CASE c # Wall
    <3>1. c \in 1 .. Len(R[d])
      BY <1>8, <2>3
    <3>2. l.end.at = R[d][c].at
      BY <1>7, <2>3, <3>1 DEF Boundary, Nobody
    <3>3. IsObject(l.end)
      BY <1>8, <3>1 DEF IsObject, Wall
    <3> QED
      BY <1>8, <1>10, <1>11, <2>3, <3>1, <3>2, <3>3
  <2> QED
    BY <2>2, <2>3
<1> QED
  BY <1>1, <1>2, <1>3, <1>7, <1>12, <1>13 DEF OnMeshRay

(* Whether a point is given by a wall of the direction itself.             *)
GivenAcross(pt) ==
  \/ op.grid[op.d].left = "Dirichlet" /\ pt[op.d] = 0
  \/ op.grid[op.d].right = "Dirichlet" /\ pt[op.d] = n[op.d] - 1

(* A block has the row of a point.                                         *)
RowFor(b, x) == (x - b.row) % b.stride = 0 /\ LocalRow(b, x) \in RowsOf(b)

(* A block has the rows of the fluid points of its line, but for the ends  *)
(* given by a Dirichlet wall.                                              *)
LEMMA RowsOfLine ==
  ASSUME cfg \in Configs, op.d \in Dirs, NEW l, OnMeshRay(op.d, l), NEW left, NEW right,
         left.rows \in Int, right.rows \in Int, NEW b, b = InnerBlock(l, left, right),
         NEW pt \in Points
  PROVE  RowFor(b, Flat(pt)) <=>
           RayOf(op.d, pt) = l.ray /\ pt[op.d] \in Fluid(l) /\ ~GivenAcross(pt)
<1>1. PICK d \in Dirs : d = op.d
  OBVIOUS
<1>2. PICK m \in Nat, r \in 0 .. Rays(d) - 1, y \in Int, z \in Int :
        m = n[d] /\ r = l.ray /\ y = l.start.at /\ z = l.end.at
  BY <1>1, ConfigFacts DEF OnMeshRay
<1>3. PICK u \in {0, 1}, v \in {0, 1} : /\ u = IF RowRemoved(l.start, FALSE) THEN 1 ELSE 0
                                        /\ v = IF RowRemoved(l.end, TRUE) THEN 1 ELSE 0
  OBVIOUS
<1>4. 0 <= y + u /\ z - v <= m - 1
  <2>1. /\ IF l.start.object = Wall THEN y = 0 ELSE 0 <= y
        /\ IF l.end.object = Wall THEN z = m - 1 ELSE z <= m - 1
    BY <1>1, <1>2 DEF OnMeshRay
  <2>2. 0 <= y /\ z <= m - 1
    BY <2>1
  <2> QED
    BY <2>2
<1>5. PICK f \in Int, w \in Int : f = y + u /\ w = ((z - y + 1) - u) - v
  BY <1>2
<1>6. 0 <= f /\ f + w <= m /\ f + w = (z - v) + 1
  BY <1>4, <1>5
<1>7. PICK s \in Nat \ {0}, base \in Int : s = Stride(d) /\ base = Flat(At(d, r, y))
  <2>1. PICK g \in Int : g = r
    OBVIOUS
  <2> QED
    BY <2>1, FlatIs
<1>8. b.stride = s /\ b.row = Flat(At(d, r, f))
  <2>1. u \in Int
    OBVIOUS
  <2>2. Flat(At(d, r, y + u)) = Flat(At(d, r, y)) + (u * Stride(d))
    BY <2>1, FlatAfter, Zenon
  <2>3. Flat(At(d, r, f)) = base + (u * s)
    BY <1>5, <1>7, <2>2
  <2>4. b.stride = s /\ b.row = base + s * u
    BY <1>1, <1>2, <1>3, <1>7 DEF InnerBlock
  <2>5. u * s = s * u
    OBVIOUS
  <2> QED
    BY <2>3, <2>4, <2>5
<1>9. RowsOf(b) = 0 .. w - 1
  <2>1. PICK p \in Int, q \in Int : p = left.rows /\ q = right.rows
    OBVIOUS
  <2>2. b.left.rows = p /\ b.right.rows = q /\ b.interior = (w - p) - q
    BY <1>2, <1>3, <1>5, <2>1 DEF InnerBlock
  <2>3. b.left.rows + b.interior + b.right.rows = w
    BY <2>2
  <2>4. RowsOf(b) = 0 .. (b.left.rows + b.interior + (b.right.rows - 1))
    BY Zenon DEF RowsOf
  <2>5. b.left.rows + b.interior + (b.right.rows - 1) = w - 1
    BY <2>2
  <2> QED
    BY <2>4, <2>5, Zenon
<1>10. PICK x : x = Flat(pt) - Flat(At(d, r, f))
  OBVIOUS
<1>11. RowFor(b, Flat(pt)) <=> (x % Stride(d) = 0 /\ x \div Stride(d) \in 0 .. w - 1)
  BY <1>7, <1>8, <1>9, <1>10 DEF RowFor, LocalRow
<1>12. RowFor(b, Flat(pt)) <=> (RayOf(d, pt) = r /\ f <= pt[d] /\ pt[d] < f + w)
  BY <1>2, <1>5, <1>6, <1>10, <1>11, RowsOnRay
<1>13. PICK j \in Nat : j = pt[d] /\ j < m
  <2>1. pt[d] \in 0 .. n[d] - 1 /\ n[d] \in Nat \ {0}
    BY PointOnRay, ConfigFacts
  <2> QED
    BY <1>2, <2>1
<1>14. (f <= j /\ j < f + w) <=> (j \in Fluid(l) /\ ~GivenAcross(pt))
  <2>1. PICK gl \in BOOLEAN, gr \in BOOLEAN :
          gl = (op.grid[d].left = "Dirichlet") /\ gr = (op.grid[d].right = "Dirichlet")
    OBVIOUS
  <2>2. GivenAcross(pt) <=> (gl /\ j = 0) \/ (gr /\ j = m - 1)
    BY <1>1, <1>2, <1>13, <2>1 DEF GivenAcross
  <2>3. PICK a \in Int, c \in Int : /\ a = y + IF l.start.object = Wall THEN 0 ELSE 1
                                    /\ c = z - IF l.end.object = Wall THEN 0 ELSE 1
                                    /\ (j \in Fluid(l) <=> a <= j /\ j <= c)
    BY <1>2 DEF Fluid
  <2>4. /\ (l.start.object # Wall => f = a /\ 1 <= a)
        /\ (l.start.object = Wall => a = 0 /\ f = IF gl THEN 1 ELSE 0)
    <3>1. CASE l.start.object # Wall
      <4>1. IsObject(l.start) /\ 0 <= y
        BY <1>1, <1>2, <3>1 DEF OnMeshRay
      <4>2. u = 1
        BY <1>3, <4>1 DEF RowRemoved
      <4> QED
        BY <1>5, <2>3, <3>1, <4>1, <4>2
    <3>2. CASE l.start.object = Wall
      <4>1. ~IsObject(l.start) /\ y = 0
        BY <1>1, <1>2, <3>2 DEF OnMeshRay, IsObject, Wall
      <4>2. u = IF gl THEN 1 ELSE 0
        BY <1>1, <1>3, <2>1, <4>1 DEF RowRemoved, EndBC, WallBC
      <4> QED
        BY <1>5, <2>3, <3>2, <4>1, <4>2
    <3> QED
      BY <3>1, <3>2
  <2>5. /\ (l.end.object # Wall => f + w = c + 1 /\ c <= m - 2)
        /\ (l.end.object = Wall => c = m - 1 /\ f + w = m - IF gr THEN 1 ELSE 0)
    <3>1. CASE l.end.object # Wall
      <4>1. IsObject(l.end) /\ z <= m - 1
        BY <1>1, <1>2, <3>1 DEF OnMeshRay
      <4>2. v = 1
        BY <1>3, <4>1 DEF RowRemoved
      <4> QED
        BY <1>6, <2>3, <3>1, <4>1, <4>2
    <3>2. CASE l.end.object = Wall
      <4>1. ~IsObject(l.end) /\ z = m - 1
        BY <1>1, <1>2, <3>2 DEF OnMeshRay, IsObject, Wall
      <4>2. v = IF gr THEN 1 ELSE 0
        BY <1>1, <1>3, <2>1, <4>1 DEF RowRemoved, EndBC, WallBC
      <4> QED
        BY <1>6, <2>3, <3>2, <4>1, <4>2
    <3> QED
      BY <3>1, <3>2
  <2>6. PICK fw \in Int : fw = f + w
    OBVIOUS
  <2>7. f <= j <=> (a <= j /\ ~(gl /\ j = 0))
    BY <2>4
  <2>8. j < fw <=> (j <= c /\ ~(gr /\ j = m - 1))
    BY <1>13, <2>5, <2>6
  <2> QED
    BY <2>2, <2>3, <2>6, <2>7, <2>8
<1> QED
  BY <1>1, <1>2, <1>12, <1>13, <1>14

(* A line that no block is made for. *)
LineGiven(l) == DirichletLine(At(op.d, l.ray, l.start.at))

(* A block has the rows that are due to a line.                            *)
HasRowsOf(b, l) ==
  \A pt \in Points :
    RowFor(b, Flat(pt)) <=> RayOf(op.d, pt) = l.ray /\ pt[op.d] \in Fluid(l) /\ ~GivenAcross(pt)

(* The lines q of the blocks: those of the first m that are not given.     *)
MadeFrom(q, m) ==
  /\ q \in [1 .. Len(O) -> 1 .. m]
  /\ \A x, y \in 1 .. Len(O) : q[x] = q[y] => x = y
  /\ \A x \in 1 .. Len(O) : ~LineGiven(lines[op.d][q[x]]) /\ HasRowsOf(O[x], lines[op.d][q[x]])
  /\ \A j \in 1 .. m : LineGiven(lines[op.d][j]) \/ \E x \in 1 .. Len(O) : q[x] = j

(* The lines that have been discretized. *)
Passed == IF stage = "domain" THEN next - 1 ELSE Len(lines[op.d])

(* Blocks are made line after line. *)
LineByLine ==
  /\ stage = "mesh" => O = <<>>
  /\ stage = "domain" => op.d \in Active /\ next <= Len(lines[op.d]) + 1
  /\ Regular /\ Apart /\ stage # "mesh" /\ op.d \in Active => \E q : MadeFrom(q, Passed)

(* What holds of the mesh, of the assembly and of its blocks. *)
RowsInv == AsmInv /\ PiecesInv /\ LineByLine

(* Whether a line is given does not depend on where along it one looks.    *)
LEMMA GivenAlong ==
  ASSUME cfg \in Configs, op.d \in Dirs, NEW l, l.start.at \in Int, NEW pt \in Points,
         RayOf(op.d, pt) = l.ray
  PROVE  LineGiven(l) <=> DirichletLine(pt)
<1>0. PICK r : r = l.ray
  OBVIOUS
<1>1. PICK d \in Dirs, y \in Int : d = op.d /\ r = l.ray /\ y = l.start.at
  BY <1>0
<1>2. r \in 0 .. Rays(d) - 1 /\ \A e \in Dirs \ {d} : Origin(d, r)[e] = pt[e]
  BY <1>1, PointOnRay
<1>3. PICK g \in Int : g = r
  BY <1>2
<1>4. \A x \in Int : \A e \in Dirs \ {d} : At(d, g, x)[e] = Origin(d, g)[e]
  BY OriginIs
<1>5. \A e \in Dirs \ {d} : At(d, r, y)[e] = pt[e]
  BY <1>2, <1>3, <1>4
<1>6. PICK p : p = At(d, r, y)
  OBVIOUS
<1>7. DirichletLine(p) <=> DirichletLine(pt)
  BY <1>1, <1>5, <1>6 DEF DirichletLine
<1> QED
  BY <1>1, <1>6, <1>7 DEF LineGiven

(* A point is given by its line or by one of the line's ends. *)
LEMMA GivenIs ==
  ASSUME op.d \in Dirs, NEW pt
  PROVE  GivenByWall(pt) <=> DirichletLine(pt) \/ GivenAcross(pt)
BY DEF GivenByWall, DirichletLine, GivenAcross

(* The invariant has the property. *)
LEMMA InvRows == ASSUME RowsInv, Regular, Apart PROVE RowsOnce
<1> SUFFICES ASSUME stage = "built", op.d \in Active, NEW pt \in Points
             PROVE  Cardinality(Writers(Flat(pt))) = IF Free(pt) THEN 1 ELSE 0
  BY DEF RowsOnce, Assembled
<1>1. PICK d \in Active : d = op.d
  OBVIOUS
<1>2. phase = "done" /\ cfg \in Configs /\ FoundInv /\ d \in Dirs
  BY DEF RowsInv, AsmInv, OnMesh, PiecesInv, FoundInv, MeshInv, MeshTyped, Active
<1>3. PICK q : MadeFrom(q, Len(lines[d]))
  BY <1>1 DEF RowsInv, LineByLine, Passed
<1>4. /\ lines[d] = LinesOf(d)
      /\ \A i \in 1 .. Len(lines[d]) : OnMeshRay(d, lines[d][i])
  <2>1. lines[d] = LinesOf(d)
    BY <1>2 DEF RowsInv, PiecesInv, Lined
  <2> QED
    BY <1>2, <2>1, LineOnRay DEF RowsInv
<1>5. DOMAIN lines[d] = 1 .. Len(lines[d])
  <2>1. lines[d] \in Seq(Pieced(d))
    BY <1>2 DEF RowsInv, AsmInv, Divided
  <2> QED
    BY <2>1
<1>6. DOMAIN O = 1 .. Len(O)
  BY DEF RowsInv, AsmInv, BlocksOK, Filled
<1>7. PICK h, r : r = RayOf(d, pt) /\ h = HitsOn(d, r)
  OBVIOUS
<1>8. PICK J : Slot(Len(h), EndsOn(d, h), 64 * pt[d], J)
  BY <1>2, <1>7, PointInSlot
<1>9. \A x \in 1 .. Len(O) : x \in Writers(Flat(pt)) <=> q[x] \in PiecesWith(d, pt) /\ ~GivenAcross(pt)
  <2> SUFFICES ASSUME NEW x \in 1 .. Len(O)
               PROVE  x \in Writers(Flat(pt)) <=> q[x] \in PiecesWith(d, pt) /\ ~GivenAcross(pt)
    OBVIOUS
  <2>1. q[x] \in 1 .. Len(lines[d]) /\ HasRowsOf(O[x], lines[d][q[x]])
    BY <1>1, <1>3 DEF MadeFrom
  <2>2. x \in Writers(Flat(pt)) <=> RowFor(O[x], Flat(pt))
    BY <1>6 DEF Writers, WritersOf, RowFor
  <2>3. PICK l : l = lines[d][q[x]]
    OBVIOUS
  <2>4. RowFor(O[x], Flat(pt)) <=>
          RayOf(d, pt) = l.ray /\ pt[d] \in Fluid(l) /\ ~GivenAcross(pt)
    BY <1>1, <2>1, <2>3 DEF HasRowsOf
  <2>5. q[x] \in PiecesWith(d, pt) <=> RayOf(d, pt) = l.ray /\ pt[d] \in Fluid(l)
    BY <1>5, <2>1, <2>3 DEF PiecesWith
  <2> QED
    BY <2>2, <2>4, <2>5
<1>10. Writers(Flat(pt)) \subseteq 1 .. Len(O)
  BY <1>6 DEF Writers, WritersOf
<1>11. PICK W : W = Writers(Flat(pt))
  OBVIOUS
<1>12. CASE PiecesWith(d, pt) = {}
  <2>1. ~Free(pt)
    BY <1>1, <1>12 DEF Free
  <2>2. W = {}
    BY <1>9, <1>10, <1>11, <1>12
  <2> QED
    BY <1>11, <2>1, <2>2, FS_EmptySet
<1>13. CASE \E i : PiecesWith(d, pt) = {i}
  <2>1. PICK i : PiecesWith(d, pt) = {i}
    BY <1>13
  <2>2. i \in 1 .. Len(lines[d]) /\ lines[d][i].ray = RayOf(d, pt)
    BY <1>5, <2>1 DEF PiecesWith
  <2>3. PICK l : l = lines[d][i]
    OBVIOUS
  <2>4. LineGiven(l) <=> DirichletLine(pt)
    <3>1. l.start.at \in Int
      BY <1>4, <2>2, <2>3 DEF OnMeshRay
    <3> QED
      BY <1>1, <1>2, <2>2, <2>3, <3>1, GivenAlong
  <2>5. Free(pt) <=> ~LineGiven(l) /\ ~GivenAcross(pt)
    BY <1>1, <1>2, <2>1, <2>4, GivenIs DEF Free
  <2>6. \A x \in 1 .. Len(O) : x \in W <=> q[x] = i /\ ~GivenAcross(pt)
    BY <1>9, <1>11, <2>1
  <2>7. CASE Free(pt)
    <3>1. PICK x \in 1 .. Len(O) : q[x] = i
      BY <1>1, <1>3, <2>2, <2>3, <2>5, <2>7 DEF MadeFrom
    <3>2. W = {x}
      <4>1. x \in W
        BY <2>5, <2>6, <2>7, <3>1
      <4>2. \A y \in W : y = x
        BY <1>3, <1>10, <1>11, <2>6, <3>1 DEF MadeFrom
      <4> QED
        BY <4>1, <4>2
    <3> QED
      BY <1>11, <2>7, <3>2, FS_Singleton
  <2>8. CASE ~Free(pt)
    <3>1. W = {}
      <4>1. ASSUME NEW x \in W PROVE FALSE
        <5>1. x \in 1 .. Len(O) /\ q[x] = i /\ ~GivenAcross(pt)
          BY <1>10, <1>11, <2>6, <4>1
        <5>2. ~LineGiven(l)
          BY <1>1, <1>3, <2>3, <5>1 DEF MadeFrom
        <5> QED
          BY <2>5, <2>8, <5>1, <5>2
      <4> QED
        BY <4>1
    <3> QED
      BY <1>11, <2>8, <3>1, FS_EmptySet
  <2> QED
    BY <2>7, <2>8
<1>14. PiecesWith(d, pt) = {} \/ \E i : PiecesWith(d, pt) = {i}
  <2>1. phase # "cast"
    BY <1>2
  <2>2. Closes(d, h, J) => \E i : PiecesWith(d, pt) = {i}
    <3>1. SUFFICES ASSUME Closes(d, h, J) PROVE \E i : PiecesWith(d, pt) = {i}
      OBVIOUS
    <3> QED
      BY <1>2, <1>4, <1>7, <1>8, <2>1, <3>1, OnlyPiece
  <2>3. ~Closes(d, h, J) => PiecesWith(d, pt) = {}
    <3>1. SUFFICES ASSUME ~Closes(d, h, J) PROVE PiecesWith(d, pt) = {}
      OBVIOUS
    <3> QED
      BY <1>2, <1>4, <1>7, <1>8, <2>1, <3>1, OnlyPiece
  <2> QED
    BY <2>2, <2>3
<1> QED
  BY <1>12, <1>13, <1>14

(* Which lines are given and which rows are due depends on the operator    *)
(* and on the mesh.                                                        *)
LEMMA DueKept ==
  ASSUME op' = op, cfg' = cfg
  PROVE  /\ \A l : LineGiven(l)' <=> LineGiven(l)
         /\ \A b, l : HasRowsOf(b, l)' <=> HasRowsOf(b, l)
         /\ (Regular' = Regular) /\ (Apart' = Apart) /\ Active' = Active
<1>1. n' = n
  BY DEF n
<1>2. \A l : LineGiven(l)' <=> LineGiven(l)
  BY <1>1, SMTT(20) DEF LineGiven, DirichletLine, At, Origin, Slow, Fast
<1>3. Points' = Points
  BY <1>1 DEF Points
<1>4. \A pt : GivenAcross(pt)' <=> GivenAcross(pt)
  BY <1>1 DEF GivenAcross
<1>5. \A d, pt : RayOf(d, pt)' = RayOf(d, pt)
  BY <1>1 DEF RayOf
<1>6. \A pt : Flat(pt)' = Flat(pt)
  BY <1>1 DEF Flat
<1>7. \A b, l : HasRowsOf(b, l)' <=> HasRowsOf(b, l)
  <2> SUFFICES ASSUME NEW b, NEW l PROVE HasRowsOf(b, l)' <=> HasRowsOf(b, l)
    OBVIOUS
  <2>1. \A x : RowFor(b, x)' <=> RowFor(b, x)
    OBVIOUS
  <2> QED
    BY <1>3, <1>4, <1>5, <1>6, <2>1 DEF HasRowsOf
<1>8. Active' = Active
  BY <1>1 DEF Active
<1>9. (Regular' = Regular) /\ (Apart' = Apart)
  BY ConfigKept, HitsKept
<1> QED
  BY <1>2, <1>7, <1>8, <1>9

(* Nor do the lines of the blocks change. *)
LEMMA MadeKept ==
  ASSUME op' = op, cfg' = cfg, lines' = lines, O' = O, NEW q, NEW m
  PROVE  MadeFrom(q, m)' <=> MadeFrom(q, m)
BY DueKept DEF MadeFrom

(* At first there are no blocks. *)
LEMMA RowsStart == AsmInit => RowsInv
<1> SUFFICES ASSUME AsmInit PROVE RowsInv
  OBVIOUS
<1>1. AsmInv
  BY AsmStart
<1>2. PiecesInv
  BY PiecesStart DEF AsmInit
<1>3. LineByLine
  BY DEF AsmInit, LineByLine
<1> QED
  BY <1>1, <1>2, <1>3 DEF RowsInv

(* The mesh is built by steps of its own. *)
LEMMA MeshSteps == ASSUME [AsmNext]_allVars PROVE [Next]_vars
BY DEF AsmNext, BuildMesh, Construct, DiscretizeLine, FinishDomain, DiscretizeCuts, Apply, Next,
       allVars

(* Nothing is made when an operator is begun. *)
LEMMA LinesBegun == ASSUME RowsInv, AsmInv', Construct PROVE LineByLine'
<1>1. /\ phase' = "done" /\ cfg' = cfg /\ lines' = lines /\ O' = O /\ next' = 1
      /\ stage' = IF n[op'.d] < 2 THEN "built" ELSE "domain"
  BY DEF Construct, vars
<1>2. O' = <<>>
  BY <1>1 DEF Construct, RowsInv, LineByLine
<1>3. PICK d \in Dirs : d = op'.d
  BY ClosureAssumption DEF Construct, RowsInv, AsmInv, MeshInv, MeshTyped
<1>4. n' = n /\ n[d] \in Nat
  BY <1>1, ConfigFacts DEF RowsInv, AsmInv, MeshInv, MeshTyped, n
<1>5. Len(lines'[d]) \in Nat
  <2>1. lines'[d] \in Seq(Pieced(d)')
    BY <1>1 DEF AsmInv, Divided
  <2> QED
    BY <2>1
<1>6. stage' = "domain" <=> d \in Active'
  BY <1>1, <1>3, <1>4 DEF Active
<1>7. stage' = "domain" => \E q : MadeFrom(q, Passed)'
  <2>1. SUFFICES ASSUME stage' = "domain" PROVE \E q : MadeFrom(q, Passed)'
    OBVIOUS
  <2>2. Passed' = 0 /\ Len(O') = 0
    BY <1>1, <1>2, <2>1 DEF Passed
  <2>3. MadeFrom([x \in 1 .. 0 |-> x], Passed)'
    BY <2>2 DEF MadeFrom
  <2> QED
    BY <2>3
<1>8. stage' # "mesh"
  BY <1>1
<1> QED
  BY <1>1, <1>3, <1>5, <1>6, <1>7, <1>8 DEF LineByLine

(* The lines of the blocks when the next one is given. *)
LEMMA LinePassed ==
  ASSUME op' = op, cfg' = cfg, lines' = lines, O' = O, NEW m \in Nat, NEW q, MadeFrom(q, m),
         LineGiven(lines[op.d][m + 1])
  PROVE  MadeFrom(q, m + 1)'
<1>1. MadeFrom(q, m + 1)
  <2>1. q \in [1 .. Len(O) -> 1 .. m + 1]
    BY DEF MadeFrom
  <2>2. ASSUME NEW j \in 1 .. m + 1
        PROVE  LineGiven(lines[op.d][j]) \/ \E x \in 1 .. Len(O) : q[x] = j
    <3>1. j = m + 1 \/ j \in 1 .. m
      OBVIOUS
    <3> QED
      BY <3>1 DEF MadeFrom
  <2> QED
    BY <2>1, <2>2 DEF MadeFrom
<1> QED
  BY <1>1, MadeKept

(* Their lines when a block is made for it. *)
LEMMA LineAdded ==
  ASSUME op' = op, cfg' = cfg, lines' = lines, NEW m \in Nat, NEW q, MadeFrom(q, m),
         NEW b, NEW w \in Nat, w = Len(O), Len(O') = w + 1, O'[w + 1] = b,
         \A x \in 1 .. w : O'[x] = O[x],
         ~LineGiven(lines[op.d][m + 1]), HasRowsOf(b, lines[op.d][m + 1])
  PROVE  \E p : MadeFrom(p, m + 1)'
<1>1. PICK p : p = [x \in 1 .. w + 1 |-> IF x = w + 1 THEN m + 1 ELSE q[x]]
  OBVIOUS
<1>2. \A x \in 1 .. w : x \in 1 .. w + 1 /\ x # w + 1 /\ p[x] = q[x] /\ q[x] \in 1 .. m
  BY <1>1 DEF MadeFrom
<1>3. p[w + 1] = m + 1 /\ \A x \in 1 .. w + 1 : x = w + 1 \/ x \in 1 .. w
  BY <1>1
<1>4. p \in [1 .. w + 1 -> 1 .. m + 1]
  <2> SUFFICES ASSUME NEW x \in 1 .. w + 1 PROVE p[x] \in 1 .. m + 1
    BY <1>1
  <2>1. m + 1 \in 1 .. m + 1 /\ \A y \in 1 .. m : y \in 1 .. m + 1
    OBVIOUS
  <2> QED
    BY <1>2, <1>3, <2>1
<1>5. \A x, y \in 1 .. w + 1 : p[x] = p[y] => x = y
  <2> SUFFICES ASSUME NEW x \in 1 .. w + 1, NEW y \in 1 .. w + 1, p[x] = p[y] PROVE x = y
    OBVIOUS
  <2>1. CASE x \in 1 .. w /\ y \in 1 .. w
    BY <1>2, <2>1 DEF MadeFrom
  <2>2. CASE x = w + 1 /\ y \in 1 .. w
    BY <1>2, <1>3, <2>2
  <2>3. CASE x \in 1 .. w /\ y = w + 1
    BY <1>2, <1>3, <2>3
  <2> QED
    BY <1>3, <2>1, <2>2, <2>3
<1>6. \A x \in 1 .. w + 1 : ~LineGiven(lines[op.d][p[x]]) /\ HasRowsOf(O'[x], lines[op.d][p[x]])
  <2> SUFFICES ASSUME NEW x \in 1 .. w + 1
               PROVE  ~LineGiven(lines[op.d][p[x]]) /\ HasRowsOf(O'[x], lines[op.d][p[x]])
    OBVIOUS
  <2>1. CASE x = w + 1
    BY <1>3, <2>1
  <2>2. CASE x \in 1 .. w
    BY <1>2, <2>2 DEF MadeFrom
  <2> QED
    BY <1>3, <2>1, <2>2
<1>7. \A j \in 1 .. m + 1 : LineGiven(lines[op.d][j]) \/ \E x \in 1 .. w + 1 : p[x] = j
  <2> SUFFICES ASSUME NEW j \in 1 .. m + 1, ~LineGiven(lines[op.d][j])
               PROVE  \E x \in 1 .. w + 1 : p[x] = j
    OBVIOUS
  <2>1. CASE j = m + 1
    BY <1>3, <2>1
  <2>2. CASE j \in 1 .. m
    <3>1. PICK x \in 1 .. w : q[x] = j
      BY <2>2 DEF MadeFrom
    <3> QED
      BY <1>2, <3>1
  <2> QED
    BY <2>1, <2>2
<1>8. MadeFrom(p, m + 1)'
  BY <1>4, <1>5, <1>6, <1>7, DueKept DEF MadeFrom
<1> QED
  BY <1>8

(* A step along the lines of the direction. *)
LEMMA LinesGoOn == ASSUME RowsInv, AsmInv', DiscretizeLine PROVE LineByLine'
<1>1. /\ stage = "domain" /\ stage' = "domain" /\ op' = op /\ cfg' = cfg /\ lines' = lines
      /\ next' = next + 1 /\ next <= Len(lines[op.d])
  BY DEF DiscretizeLine, vars
<1>2. PICK d \in Active : d = op.d
  BY <1>1 DEF RowsInv, LineByLine
<1>3. /\ d \in Dirs /\ phase = "done" /\ op \in Derivatives(cfg) /\ MeshInv
      /\ next \in Nat \ {0} /\ cfg \in Configs
  BY <1>1, <1>2 DEF Active, RowsInv, AsmInv, OnMesh, MeshInv, MeshTyped
<1>4. PICK m \in Nat : m = next - 1 /\ next = m + 1
  BY <1>3
<1>5. lines[d] \in Seq(Pieced(d)) /\ Len(lines[d]) \in Nat /\ next \in 1 .. Len(lines[d])
  <2>1. lines[d] \in Seq(Pieced(d)) /\ Len(lines[d]) \in Nat
    BY <1>3 DEF RowsInv, AsmInv, Divided
  <2> QED
    BY <1>1, <1>2, <1>3, <2>1
<1>6. Passed = m /\ Passed' = m + 1
  BY <1>1, <1>3, <1>4 DEF Passed
<1>7. PICK l \in Pieced(d) : l = lines[d][next]
  BY <1>5
<1>8. op'.d \in Active' /\ next' <= Len(lines'[op'.d]) + 1
  <2>1. Active' = Active
    BY <1>1, DueKept
  <2> QED
    BY <1>1, <1>2, <1>3, <1>5, <2>1
<1>9. Regular' /\ Apart' => \E q : MadeFrom(q, Passed)'
  <2>1. SUFFICES ASSUME Regular', Apart' PROVE \E q : MadeFrom(q, m + 1)'
    BY <1>6
  <2>2. Regular /\ Apart
    BY <1>1, <2>1, DueKept
  <2>3. PICK q : MadeFrom(q, m)
    BY <1>1, <1>2, <1>6, <2>2 DEF RowsInv, LineByLine
  <2>4. CASE LineGiven(l)
    <3>1. O' = O
      BY <1>2, <1>7, <2>4 DEF DiscretizeLine, LineGiven
    <3> QED
      BY <1>1, <1>2, <1>4, <1>7, <2>3, <2>4, <3>1, LinePassed
  <2>5. CASE ~LineGiven(l)
    <3>1. PICK left, right, b :
            left = LeftEnd(l) /\ right = RightEnd(l) /\ b = InnerBlock(l, left, right)
      OBVIOUS
    <3>2. O' = Append(O, b)
      BY <1>2, <1>7, <2>5, <3>1 DEF DiscretizeLine, LineGiven
    <3>3. left.rows \in Int /\ right.rows \in Int
      <4>1. l.start.object \in Ends(op.d) /\ l.end.object \in Ends(op.d)
        BY <1>2 DEF Pieced
      <4>2. ClosureOK(l.start, ClosureAt(l.start, FALSE)) /\ ClosureOK(l.end, ClosureAt(l.end, TRUE))
        BY <1>3, <4>1, ClosureFacts
      <4>3. EndOK(left) /\ EndOK(right)
        BY <3>1, <4>2, LeftOK, RightOK, Zenon DEF LeftEnd, RightEnd
      <4> QED
        BY <4>3 DEF EndOK
    <3>4. OnMeshRay(op.d, l)
      BY <1>2, <1>3, <1>5, <1>7, <2>2, LineOnRay DEF RowsInv
    <3>5. HasRowsOf(b, l)
      <4> SUFFICES ASSUME NEW pt \in Points
                   PROVE  RowFor(b, Flat(pt)) <=>
                            RayOf(op.d, pt) = l.ray /\ pt[op.d] \in Fluid(l) /\ ~GivenAcross(pt)
        BY Zenon DEF HasRowsOf
      <4> QED
        BY <1>2, <1>3, <3>1, <3>3, <3>4, RowsOfLine
    <3>6. PICK T : O \in Seq(T)
      BY FilledIs DEF RowsInv, AsmInv, BlocksOK
    <3>7. PICK w \in Nat : w = Len(O)
      BY <3>6
    <3>8. Len(O') = w + 1 /\ O'[w + 1] = b /\ \A x \in 1 .. w : O'[x] = O[x]
      <4>1. PICK Sq : Sq = T \cup {b}
        OBVIOUS
      <4>2. O \in Seq(Sq) /\ b \in Sq
        BY <3>6, <4>1
      <4> QED
        BY <3>2, <3>7, <4>2, AppendProperties
    <3>9. ~LineGiven(lines[op.d][m + 1]) /\ HasRowsOf(b, lines[op.d][m + 1])
      BY <1>2, <1>4, <1>7, <2>5, <3>5
    <3> QED
      BY <1>1, <2>3, <3>7, <3>8, <3>9, LineAdded
  <2> QED
    BY <2>4, <2>5
<1> QED
  BY <1>1, <1>8, <1>9 DEF LineByLine

(* What follows the blocks leaves them. *)
LEMMA LinesStay ==
  ASSUME RowsInv, AsmInv, op' = op, cfg' = cfg, lines' = lines, O' = O, stage # "mesh",
         stage' # "mesh", stage' # "domain", stage = "domain" => next > Len(lines[op.d])
  PROVE  LineByLine'
<1>1. Regular' = Regular /\ (Apart' = Apart) /\ Active' = Active
  BY DueKept
<1>2. Passed' = Len(lines[op.d])
  BY DEF Passed
<1>3. op.d \in Active => Passed = Len(lines[op.d])
  <2>1. CASE stage = "domain"
    <3>1. op.d \in Dirs /\ next \in Nat /\ phase = "done" /\ next <= Len(lines[op.d]) + 1
      BY <2>1 DEF RowsInv, LineByLine, AsmInv, OnMesh, Active
    <3>2. Len(lines[op.d]) \in Nat
      BY <3>1 DEF AsmInv, Divided
    <3>3. next - 1 = Len(lines[op.d])
      BY <2>1, <3>1, <3>2
    <3> QED
      BY <2>1, <3>3 DEF Passed
  <2>2. CASE stage # "domain"
    BY <2>2 DEF Passed
  <2> QED
    BY <2>1, <2>2
<1>4. Regular' /\ Apart' /\ op'.d \in Active' => \E q : MadeFrom(q, Passed)'
  <2>1. SUFFICES ASSUME Regular', Apart', op'.d \in Active' PROVE \E q : MadeFrom(q, Passed)'
    OBVIOUS
  <2>2. PICK q : MadeFrom(q, Passed)
    BY <1>1, <2>1 DEF RowsInv, LineByLine
  <2>3. PICK m : m = Passed /\ m = Passed'
    BY <1>1, <1>2, <1>3, <2>1
  <2>4. MadeFrom(q, m)'
    BY <2>2, <2>3, MadeKept
  <2> QED
    BY <2>3, <2>4
<1> QED
  BY <1>4 DEF LineByLine

(* Every step keeps the invariant. *)
LEMMA RowsStep == ASSUME RowsInv, [AsmNext]_allVars PROVE RowsInv'
<1>1. AsmInv'
  BY AsmStep DEF RowsInv
<1>2. PiecesInv'
  BY MeshSteps, PiecesStep DEF RowsInv
<1>3. LineByLine'
  <2>1. CASE BuildMesh
    BY <2>1 DEF BuildMesh, asmVars, RowsInv, LineByLine
  <2>2. CASE Construct
    BY <1>1, <2>2, LinesBegun
  <2>3. CASE DiscretizeLine
    BY <1>1, <2>3, LinesGoOn
  <2>4. CASE FinishDomain \/ DiscretizeCuts \/ \E p \in Fields(op) : Apply(p)
    <3>1. /\ op' = op /\ cfg' = cfg /\ lines' = lines /\ O' = O /\ stage # "mesh"
          /\ stage' # "mesh" /\ stage' # "domain" /\ (stage = "domain" => next > Len(lines[op.d]))
      BY <2>4 DEF FinishDomain, DiscretizeCuts, Apply, vars
    <3> QED
      BY <3>1, LinesStay DEF RowsInv
  <2>5. CASE UNCHANGED allVars
    <3>1. /\ op' = op /\ cfg' = cfg /\ lines' = lines /\ O' = O /\ stage' = stage /\ next' = next
      BY <2>5 DEF allVars, asmVars, vars
    <3>2. Regular' = Regular /\ (Apart' = Apart) /\ Active' = Active /\ Passed' = Passed
      BY <3>1, DueKept DEF Passed
    <3>3. PICK m : m = Passed /\ m = Passed'
      BY <3>2
    <3>4. \A q : MadeFrom(q, m)' <=> MadeFrom(q, m)
      BY <3>1, MadeKept
    <3>5. (\E q : MadeFrom(q, Passed)') <=> \E q : MadeFrom(q, Passed)
      BY <3>3, <3>4
    <3> QED
      BY <3>1, <3>2, <3>5 DEF RowsInv, LineByLine
  <2> QED
    BY <2>1, <2>2, <2>3, <2>4, <2>5 DEF AsmNext
<1> QED
  BY <1>1, <1>2, <1>3 DEF RowsInv

(* On every mesh whose shapes are apart, for every stencil and whatever    *)
(* the conditions: each fluid point that no Dirichlet condition gives is   *)
(* written by one row of one block, and no other point is, so that blocks  *)
(* that are run concurrently do not write to the same point.               *)
THEOREM RowsAssembledOnce == AsmSpec => [](Regular /\ Apart => RowsOnce)
<1>1. AsmInit => RowsInv
  BY RowsStart
<1>2. RowsInv /\ [AsmNext]_allVars => RowsInv'
  BY RowsStep
<1>3. RowsInv => (Regular /\ Apart => RowsOnce)
  BY InvRows
<1> QED
  BY <1>1, <1>2, <1>3, PTL DEF AsmSpec
=============================================================================
