-------------------------- MODULE EigenvalueMatrix --------------------------
(***************************************************************************)
(* Dense matrix of a derivative on a line, as the eigenvalue visitor takes *)
(* it from the assembled operator: a first visit numbers the rows and the  *)
(* columns that occur, points given by Dirichlet conditions left out, a    *)
(* second one writes the coefficients.                                     *)
(***************************************************************************)
EXTENDS DerivativeAssembly

VARIABLES
  visitor,   \* "off", "numbering", "filling", "done", "lost"
  seen,      \* number of matrices visited
  rowsOut, colsOut,    \* index -> row and column of the dense matrix, or -1
  nrowsOut, ncolsOut,  \* how many there are
  dense,     \* index in the dense matrix, -1 before its first, -> coefficient
  stray      \* a coefficient was written before the first

eigVars == <<visitor, seen, rowsOut, colsOut, nrowsOut, ncolsOut, dense, stray>>

-----------------------------------------------------------------------------
(* The matrices in the order derivative::visit passes them on. *)

Csr(points, nrows, flags) ==
  [kind |-> "csr", points |-> points, rows |-> nrows, flags |-> flags]

Visited ==
  FlattenSeq([x \in DOMAIN O |-> <<DenseLeft(O[x]), Circulant(O[x]), DenseRight(O[x])>>])
    \o << Csr(B, Size, {SpaceFlag(op.d)}),
          Csr(cut[0].f, cut[0].rows, cut[0].fFlags), Csr(cut[0].r, cut[0].rows, cut[0].rFlags) >>

-----------------------------------------------------------------------------
(* First visit *)

(* Flags of a space: 1, 2, 4 for the points of a direction, 0 for the      *)
(* grid.  The points of R, here from 1, come after those of the grid.      *)
RowSpace(f) == (f \div 8) % 8
ColSpace(f) == f % 8
Base(space) ==
  CASE space = 0 -> 0
    [] space = 1 -> Size - 1
    [] space = 2 -> Size - 1 + Len(R[0])
    [] space = 4 -> Size - 1 + Len(R[0]) + Len(R[1])

(* Points of R given by a Dirichlet condition are skipped. *)
Skip(space, i) == space = 1 /\ ObjectBC(0, i) = "Dirichlet"

(* Indices that have no number yet are given the next ones in order. *)
Numbered(out, count, s) ==
  LET first(i) == out[s[i]] = -1 /\ \A j \in 1 .. i - 1 : s[j] # s[i]
      fresh == SelectSeq([i \in DOMAIN s |-> i], first)
      new == [i \in DOMAIN fresh |-> s[fresh[i]]]
  IN  [out |-> [x \in DOMAIN out |->
                  IF \E i \in DOMAIN new : new[i] = x
                  THEN count + (CHOOSE i \in DOMAIN new : new[i] = x) - 1 ELSE out[x]],
       count |-> count + Len(new)]

FromTo(first, last) == [i \in 1 .. last - first |-> first + i - 1]

(* Fault: the columns of Dirichlet points are numbered. *)
DenseColumns_All(a) == FromTo(a.col, a.col + a.cols)

(* The column of a Dirichlet point at a wall is left out. *)
DenseColumns(a) ==
  FromTo(a.col + IF a.flag = "ldd" THEN 1 ELSE 0, a.col + a.cols - IF a.flag = "rdd" THEN 1 ELSE 0)

Number(rows, cols) ==
  LET r == Numbered(rowsOut, nrowsOut, rows)
      c == Numbered(colsOut, ncolsOut, cols)
  IN  /\ rowsOut' = r.out /\ nrowsOut' = r.count
      /\ colsOut' = c.out /\ ncolsOut' = c.count

NumberDense(a) == Number(FromTo(a.row, a.row + a.rows), DenseColumns(a))
NumberCirculant(a) == Number(FromTo(a.row, a.row + a.rows), FromTo(a.col, a.col + a.cols))

(* Columns row by row, then the rows that have any. *)
NumberCsr(a, flags) ==
  LET rs == RowSpace(flags)
      cs == ColSpace(flags)
      kept == SelectSeq(a.points, LAMBDA p : ~Skip(rs, p.row) /\ ~Skip(cs, p.col))
  IN  Number([i \in DOMAIN kept |-> kept[i].row + Base(rs)],
             [i \in DOMAIN kept |-> kept[i].col + Base(cs)])

-----------------------------------------------------------------------------
(* Second visit *)

Place(row, col) ==
  IF rowsOut[row] = -1 \/ colsOut[col] = -1 THEN -1 ELSE rowsOut[row] * ncolsOut + colsOut[col]

(* Entries are pairs of a place and a coefficient, no place but -1 twice. *)
Store(entries) ==
  /\ dense' = [x \in DOMAIN dense |->
                 IF \E e \in entries : e[1] = x /\ x # -1
                 THEN (CHOOSE e \in entries : e[1] = x)[2] ELSE dense[x]]
  /\ stray' = (stray \/ \E e \in entries : e[1] = -1)

FillDense(a) ==
  LET from == IF a.flag = "ldd" THEN 1 ELSE 0
      to == a.cols - 1 - IF a.flag = "rdd" THEN 1 ELSE 0
  IN  Store({<<Place(a.row + i, a.col + j), Row(a.c, a.cols, i)[j + 1]>> :
               i \in 0 .. a.rows - 1, j \in from .. to})

FillCirculant(a) ==
  Store({<<Place(a.row + i, a.col + i + j), a.c[j + 1]>> :
           i \in 0 .. a.rows - 1, j \in 0 .. Len(a.c) - 1})

(* Fault: columns of the points on objects are taken for grid points. *)
FillCsr_NoBase(a, flags) ==
  LET place(p) == Place(p.row + Base(RowSpace(flags)), p.col) IN
  Store({<<place(a.points[i]), a.points[i].v>> : i \in {i \in DOMAIN a.points : place(a.points[i]) # -1}})

(* Points without a place are passed over. *)
FillCsr(a, flags) ==
  LET place(p) == Place(p.row + Base(RowSpace(flags)), p.col + Base(ColSpace(flags))) IN
  Store({<<place(a.points[i]), a.points[i].v>> : i \in {i \in DOMAIN a.points : place(a.points[i]) # -1}})

-----------------------------------------------------------------------------
EigInit ==
  /\ AsmInit
  /\ visitor = "off" /\ seen = 0
  /\ rowsOut = <<>> /\ colsOut = <<>> /\ nrowsOut = 0 /\ ncolsOut = 0
  /\ dense = <<>> /\ stray = FALSE

Assemble ==
  /\ visitor = "off"
  /\ AsmNext
  /\ UNCHANGED eigVars

(* A visitor is made for the extents and the points of R. The problems     *)
(* that are analysed are those on a line.                                  *)
Unnumbered == [i \in 0 .. Size + Len(R[0]) - 1 |-> -1]
StartVisit ==
  /\ visitor = "off" /\ stage = "built" /\ Active = {0}
  /\ visitor' = "numbering" /\ seen' = 0
  /\ rowsOut' = Unnumbered /\ colsOut' = Unnumbered
  /\ UNCHANGED <<allVars, nrowsOut, ncolsOut, dense, stray>>

This == Visited[seen + 1]
Remaining == seen < Len(Visited)

VisitDense ==
  /\ visitor = "numbering" /\ Remaining /\ This.kind = "dense"
  /\ NumberDense(This)
  /\ seen' = seen + 1
  /\ UNCHANGED <<allVars, visitor, dense, stray>>

VisitCirculant ==
  /\ visitor = "numbering" /\ Remaining /\ This.kind = "circulant"
  /\ NumberCirculant(This)
  /\ seen' = seen + 1
  /\ UNCHANGED <<allVars, visitor, dense, stray>>

(* The flags of a matrix that was never built are whatever is in memory:   *)
(* its lookup by the flags of rows or columns may be out of bounds.        *)
VisitCsr ==
  /\ visitor = "numbering" /\ Remaining /\ This.kind = "csr"
  /\ \/ \E f \in This.flags : NumberCsr(This, f) /\ UNCHANGED visitor
     \/ /\ This.flags = {}
        /\ UNCHANGED <<rowsOut, colsOut, nrowsOut, ncolsOut>>
        /\ visitor' \in {"numbering", "lost"}
  /\ seen' = seen + 1
  /\ UNCHANGED <<allVars, dense, stray>>

StartFill ==
  /\ visitor = "numbering" /\ ~Remaining
  /\ visitor' = "filling" /\ seen' = 0
  /\ dense' = [x \in -1 .. nrowsOut * ncolsOut - 1 |-> 0]
  /\ UNCHANGED <<allVars, rowsOut, colsOut, nrowsOut, ncolsOut, stray>>

Fill ==
  /\ visitor = "filling" /\ Remaining
  /\ \/ This.kind = "dense" /\ FillDense(This)
     \/ This.kind = "circulant" /\ FillCirculant(This)
     \/ This.kind = "csr" /\ \E f \in This.flags : FillCsr(This, f)
     \/ This.kind = "csr" /\ This.flags = {} /\ UNCHANGED <<dense, stray>>
  /\ seen' = seen + 1
  /\ visitor' = IF seen' = Len(Visited) THEN "done" ELSE visitor
  /\ UNCHANGED <<allVars, rowsOut, colsOut, nrowsOut, ncolsOut>>

EigNext ==
  \/ Assemble
  \/ StartVisit \/ VisitDense \/ VisitCirculant \/ VisitCsr
  \/ StartFill \/ Fill

EigSpec == EigInit /\ [][EigNext]_<<allVars, eigVars>>

-----------------------------------------------------------------------------
(* The unknowns of the semi-discrete problem: fluid points and points on   *)
(* objects that no Dirichlet condition gives.                              *)
Unknowns ==
  {Flat(pt) : pt \in {pt \in Points : Free(pt)}}
    \cup {Size - 1 + i : i \in {i \in DOMAIN R[0] : FreeCut(0, i)}}

(* Coefficient with which unknown j enters the derivative at unknown i. *)
Coefficient(i, j) ==
  LET unit == [x \in 0 .. Size - 1 |-> IF x = j THEN 1 ELSE 0]
      unitR == [x \in DOMAIN R[0] |-> IF Size - 1 + x = j THEN 1 ELSE 0]
      blocks == SetToSeq(Writers(i))
  IN  IF i < Size
      THEN FieldSum([w \in DOMAIN blocks |-> Dot(O[blocks[w]], i, unit)]) ++ RowTimes(B, i, unitR)
      ELSE RowTimes(cut[0].f, i - Size + 1, unit) ++ RowTimes(cut[0].r, i - Size + 1, unitR)

(* On a line too short for the closures of its two ends rows are missing.  *)
LinesLongEnough == \A x \in DOMAIN O : O[x].interior >= 0

(* The matrix is square and its rows and columns are those of the unknowns *)
(* in one order: otherwise its eigenvalues are not those of the operator.  *)
(* Each coefficient has a place in it.                                     *)
NumberedAlike ==
  visitor \in {"filling", "done"} /\ LinesLongEnough =>
    /\ \A x \in DOMAIN rowsOut :
         /\ rowsOut[x] = colsOut[x]
         /\ rowsOut[x] # -1 <=> x \in Unknowns
    /\ ~stray

(* The matrix is the operator on the unknowns. *)
MatrixIsOperator ==
  visitor = "done" /\ LinesLongEnough =>
    \A i, j \in Unknowns : dense[rowsOut[i] * ncolsOut + colsOut[j]] = Coefficient(i, j)
=============================================================================
