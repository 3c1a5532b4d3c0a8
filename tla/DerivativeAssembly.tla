------------------------- MODULE DerivativeAssembly -------------------------
(***************************************************************************)
(* Assembly of a derivative operator from a mesh, a stencil and boundary   *)
(* conditions: a block of rows for each line of the mesh, sparse points    *)
(* for what objects and Neumann data contribute to these rows, and sparse  *)
(* rows for the points where objects cut the grid lines.  The operator is  *)
(* then applied to a polynomial.                                           *)
(*                                                                         *)
(* Lengths are MeshLines', values are elements of StencilField.  A stencil *)
(* is known by what its handle answers.                                    *)
(***************************************************************************)
EXTENDS MeshLines, StencilField

CONSTANTS
  QueryOf(_, _), InteriorOf(_, _), NbsOf(_, _, _, _, _), InterpOf(_, _), ExactnessOf(_),
                   \* the operations of a stencil handle, as in StencilHandle
  Derivatives(_),  \* the derivatives assembled on a mesh: direction, stencil
                   \* and the conditions at walls and on objects
  Spacing,         \* mesh spacing of each direction
  Fields(_)        \* the polynomials to differentiate, by their exponents

VARIABLES
  op,      \* the derivative being constructed
  stage,   \* "mesh", "domain", "cut", "built", "applied" or "aborted"
  next,    \* the line, then the direction of R, to come
  O,       \* inner blocks, a line each
  B, N,    \* points of the matrices for objects and for Neumann data
  cut,     \* direction of R -> the two matrices for its points
  poly,    \* the polynomial the operator was applied to
  du       \* what it wrote: to grid points and to the points of each R

(* The closure of a wall has the rows and columns that the stencil says;   *)
(* that of an object has a row to leave to the cut rows and a column for   *)
(* the object itself.                                                      *)
ASSUME ClosureAssumption ==
  \A c \in Configs : \A o \in Derivatives(c) :
    /\ o.d \in Dirs /\ DOMAIN o.obj = DOMAIN c.shapes
    /\ \A right \in BOOLEAN :
         LET bc == IF right THEN o.grid[o.d].right ELSE o.grid[o.d].left
             info == QueryOf(o.st, bc)
             closure == NbsOf(o.st, Spacing[o.d], bc, PerCell, right).c
         IN  /\ info.r \in Nat /\ info.t \in Nat
             /\ closure \in Seq(Int) /\ Len(closure) = info.r * info.t
    /\ \A i \in DOMAIN o.obj :
         LET info == QueryOf(o.st, o.obj[i]) IN info.r \in Nat \ {0} /\ info.t \in Nat \ {0}
    /\ InteriorOf(o.st, Spacing[o.d]) \in Seq(Int)

asmVars == <<op, stage, next, O, B, N, cut, poly, du>>
allVars == <<vars, asmVars>>

-----------------------------------------------------------------------------
(* Sparse matrices: points of a row, a column and a value. *)
Pt(row, col, v) == [row |-> row, col |-> col, v |-> v]

Before(a, b) == a.row < b.row \/ (a.row = b.row /\ a.col < b.col)

(* csr::builder::to_csr: points are sorted by row and taken up to nrows;   *)
(* a negative row would be in the way of all others.                       *)
ToCsr(points, nrows) ==
  IF \E i \in DOMAIN points : points[i].row < 0 THEN <<>>
  ELSE SelectSeq(SortSeq(points, Before), LAMBDA p : p.row < nrows)

Size == n[0] * n[1] * n[2]
Stride(d) == <<n[1] * n[2], n[2], 1>>[d + 1]

(* The count elements of s after its first at. *)
Window(s, at, count) == [j \in 1 .. count |-> s[at + j]]

(* Row i, counted from 0, of a closure with t columns. *)
Row(c, t, i) == Window(c, i * t, t)

(* The pieces f(0), ..., f(m - 1) one after the other. *)
Joined(m, f(_)) == FlattenSeq([i \in 1 .. m |-> f(i - 1)])

IsObject(b) == b.object > Wall
ObjectBC(d, i) == op.obj[R[d][i].shape]
WallBC(right) == IF right THEN op.grid[op.d].right ELSE op.grid[op.d].left
EndBC(b, right) == IF IsObject(b) THEN ObjectBC(op.d, b.object) ELSE WallBC(right)
EndPsi(b) == IF IsObject(b) THEN R[op.d][b.object].psi ELSE PerCell

(* A wall of another direction is given by its Dirichlet condition. *)
DirichletLine(pt) ==
  \E e \in Dirs \ {op.d} :
    \/ op.grid[e].left = "Dirichlet" /\ pt[e] = 0
    \/ op.grid[e].right = "Dirichlet" /\ pt[e] = n[e] - 1

(***************************************************************************)
(* domain_discretization, one end of a line: the dense rows, how many      *)
(* points the line loses to it, and the points for B and N.  The row of an *)
(* object that is no Dirichlet point is left to the cut rows; the column   *)
(* of an object is not a grid point and goes to B.                         *)
(***************************************************************************)

(* The rows of a closure that are left to the cut rows. *)
Skipped(b, right) == IF IsObject(b) /\ EndBC(b, right) # "Dirichlet" THEN 1 ELSE 0

(* Fault: the rows of Dirichlet walls stay. *)
RowRemoved_ObjectsOnly(b, right) == IsObject(b)

(* Whether the first, or the last, point of the line has no row. *)
RowRemoved(b, right) == IsObject(b) \/ EndBC(b, right) = "Dirichlet"

(* The condition at an end, the size of its closure and the closure. *)
ClosureAt(b, right) ==
  [bc |-> EndBC(b, right), info |-> QueryOf(op.st, EndBC(b, right)),
   nbs |-> NbsOf(op.st, Spacing[op.d], EndBC(b, right), EndPsi(b), right)]

LeftRows(l, a) ==
  LET b == l.start
      s == Skipped(b, FALSE)
      rows == a.info.r - s
      lc(i) == Row(a.nbs.c, a.info.t, i + s)
      first == Flat(At(op.d, l.ray, b.at)) + IF RowRemoved(b, FALSE) THEN Stride(op.d) ELSE 0
      row(i) == first + i * Stride(op.d)
  IN  IF IsObject(b)
      THEN [rows |-> rows, cols |-> a.info.t - 1, flag |-> "none",
            c |-> Joined(rows, LAMBDA i : Tail(lc(i))),
            B |-> [i \in 1 .. rows |-> Pt(row(i - 1), b.object, Head(lc(i - 1)))], N |-> <<>>]
      ELSE [rows |-> rows, cols |-> a.info.t, flag |-> IF a.bc = "Dirichlet" THEN "ldd" ELSE "none",
            c |-> a.nbs.c, B |-> <<>>,
            N |-> IF a.bc # "Neumann" THEN <<>>
                  ELSE [i \in 1 .. a.info.x |-> Pt(row(i - 1), row(0), a.nbs.x[i])]]
LeftEnd(l) == LeftRows(l, ClosureAt(l.start, FALSE))

(* The point of row i of the `rows' at the right end of a line that lies   *)
(* before an object.                                                       *)
RightRow(l, rows, i) ==
  Flat(At(op.d, l.ray, l.end.at)) + (i - rows) * Stride(op.d)

RightRows(l, a) ==
  LET b == l.end
      rows == a.info.r - Skipped(b, TRUE)
      rc(i) == Row(a.nbs.c, a.info.t, i)
      last == Flat(At(op.d, l.ray, b.at))
  IN  IF IsObject(b)
      THEN [rows |-> rows, cols |-> a.info.t - 1, flag |-> "none",
            c |-> Joined(rows, LAMBDA i : Front(rc(i))),
            B |-> [i \in 1 .. rows |-> Pt(RightRow(l, rows, i - 1), b.object, Last(rc(i - 1)))],
            N |-> <<>>]
      ELSE [rows |-> rows, cols |-> a.info.t, flag |-> IF a.bc = "Dirichlet" THEN "rdd" ELSE "none",
            c |-> a.nbs.c, B |-> <<>>,
            N |-> IF a.bc # "Neumann" THEN <<>>
                  ELSE [i \in 1 .. a.info.x |->
                          Pt(last + (i - a.info.x) * Stride(op.d), last, a.nbs.x[i])]]
RightEnd(l) == RightRows(l, ClosureAt(l.end, TRUE))

(* Fault: the column of an object is not taken off. *)
RightColumn_NoLeft(l, t) ==
  Flat(At(op.d, l.ray, l.end.at)) - (t - 1) * Stride(op.d)

(* Where the t columns of the right end begin: columns are lost to objects *)
(* only.                                                                   *)
RightColumn(l, t) ==
  Flat(At(op.d, l.ray, l.end.at))
    - (t - 1 + IF IsObject(l.end) THEN 1 ELSE 0) * Stride(op.d)

(* The inner block of a line. *)
InnerBlock(l, left, right) ==
  LET st == Stride(op.d)
      start == Flat(At(op.d, l.ray, l.start.at))
      length == l.end.at - l.start.at + 1
      one(c) == IF c THEN 1 ELSE 0
      rows == length - one(RowRemoved(l.start, FALSE)) - one(RowRemoved(l.end, TRUE))
      rowOffset == start + st * one(RowRemoved(l.start, FALSE))
      colOffset == start + st * one(IsObject(l.start))
  IN  [line |-> l, row |-> rowOffset, col |-> colOffset, stride |-> st,
       left |-> left, interior |-> rows - left.rows - right.rows,
       inner |-> InteriorOf(op.st, Spacing[op.d]), right |-> right,
       rightCol |-> RightColumn(l, right.cols)]

(***************************************************************************)
(* cut_discretization: rows for the points where objects cut the lines of  *)
(* direction r.                                                            *)
(***************************************************************************)
(* The solid grid point next to an intersection. *)
SolidPoint(r, m) == At(r, m.ray, m.at)

Sign(x) == IF x < 0 THEN -1 ELSE IF x > 0 THEN 1 ELSE 0

(* The sign of the object's normal along d. *)
Normal(r, m, d) ==
  LET s == cfg.shapes[m.shape] IN
  IF s.kind = "sphere" THEN Sign(4 * SolidPoint(r, m)[d] - s.c[d]) ELSE 0

(* Along r itself the row of the closure is used as it is. *)
CutRow(r, i) ==
  LET m == R[r][i]
      info == QueryOf(op.st, ObjectBC(r, i))
      step == IF m.outside THEN -Stride(r) ELSE Stride(r)
      points(row) ==
        [r |-> <<Pt(i, i, row[1])>>,
         f |-> [j \in 1 .. info.t - 1 |->
                  Pt(i, Flat(SolidPoint(r, m)) + j * step, row[j + 1])]]
      ordered(row) == IF m.outside THEN Reverse(row) ELSE row
  IN  points(ordered(Row(NbsOf(op.st, Spacing[r], ObjectBC(r, i), m.psi, m.outside).c, info.t,
                         IF m.outside THEN info.r - 1 ELSE 0)))

(* interp_deriv_coefficients: the row of a closure or of the interior with *)
(* which to differentiate along op.d at an intersection along r, and the   *)
(* shift of its first coefficient.                                         *)
Line(r, i) ==
  LET m == R[r][i]
      bc == ObjectBC(r, i)
      info == QueryOf(op.st, bc)
      h == Spacing[op.d]
      normal == Normal(r, m, op.d)
      toLeft == SolidPoint(r, m)[op.d]
      toRight == n[op.d] - 1 - toLeft
      row(right, q) == Row(NbsOf(op.st, h, bc, PerCell, right).c, info.t, q)
      onLeft(q) == [c |-> row(FALSE, q), shift |-> -q]
      onRight(q) == [c |-> row(TRUE, info.r - 1 - q), shift |-> 1 + q - info.t]
  IN  CASE normal < 0 -> onRight(0)
        [] normal > 0 -> onLeft(0)
        [] normal = 0 /\ toLeft >= info.p /\ toRight >= info.p ->
             [c |-> InteriorOf(op.st, h), shift |-> -info.p]
        [] normal = 0 /\ (toLeft < info.p \/ toRight < info.p) ->
             IF toRight < toLeft THEN onRight(toRight) ELSE onLeft(toLeft)

NearFluid(m) == m.psi <= PerCell \div 2

(* Fault: always from the solid point. *)
Closest_Solid(r, m) == SolidPoint(r, m)

(* The grid point closest to an intersection, the solid or the fluid one,  *)
(* and the distance of the intersection from it.                           *)
Closest(r, m) ==
  [SolidPoint(r, m) EXCEPT ![r] = @ + IF ~NearFluid(m) THEN 0 ELSE IF m.outside THEN -1 ELSE 1]

Offset(m) ==
  (IF m.outside THEN 1 ELSE -1) * (IF NearFluid(m) THEN m.psi ELSE m.psi - PerCell)

(* What interpolation is told of an end of a line along r. *)
EndOf(r, b) == [at |-> b.at, object |-> IsObject(b),
                psi |-> IF IsObject(b) THEN R[r][b.object].psi ELSE 0]

(* The points of row i for coefficients a along line l of direction r,     *)
(* each times v: those on objects, and those on the grid points of the     *)
(* line through cp.                                                        *)
InterpPoints(r, i, v, cp, l, a) ==
  LET here == [j \in DOMAIN a.c |-> j]
      isObject(j) == (j = 1 /\ a.l) \/ (j = Len(a.c) /\ a.r)
      object(j) == IF j = 1 /\ a.l THEN l.start.object ELSE l.end.object
      onObject == SelectSeq(here, isObject)
      onGrid == SelectSeq(here, LAMBDA j : ~isObject(j))
  IN  [r |-> [x \in DOMAIN onObject |-> Pt(i, object(onObject[x]), v ** a.c[onObject[x]])],
       f |-> [x \in DOMAIN onGrid |->
                Pt(i, Flat([cp EXCEPT ![r] = a.from + onGrid[x] - 1]), v ** a.c[onGrid[x]])]]

(* Coefficient v times the value interpolated, along r, from near cp. *)
InterpRow(r, i, v, cp, y) ==
  LET l == InterpLine(r, cp)
      ends == [l |-> EndOf(r, l.start), r |-> EndOf(r, l.end), ic |-> cp[r], y |-> y]
  IN  InterpPoints(r, i, v, cp, l, InterpOf(op.st, ends))

(* Sequences of points for the two matrices, joined. *)
Gathered(rows) ==
  [r |-> FlattenSeq([j \in DOMAIN rows |-> rows[j].r]),
   f |-> FlattenSeq([j \in DOMAIN rows |-> rows[j].f])]

(* Row i along the line of coefficients `line': on the line of the         *)
(* intersection it reads the point itself, elsewhere a value interpolated. *)
LineRows(r, i, m, line) ==
  LET cp(j) == [Closest(r, m) EXCEPT ![op.d] = @ + line.shift + j - 1]
      add(j) == IF cp(j)[op.d] = SolidPoint(r, m)[op.d]
                THEN [r |-> <<Pt(i, i, line.c[j])>>, f |-> <<>>]
                ELSE InterpRow(r, i, line.c[j], cp(j), Offset(m))
  IN  Gathered([j \in DOMAIN line.c |-> add(j)])

InterpRows(r, i) == LineRows(r, i, R[r][i], Line(r, i))

(* The matrices of one direction, from the grid points (f) and from R (r), *)
(* with the flags of their row and column spaces; without any row the      *)
(* default constructed matrices stay, whose flags have no value.           *)
NoMatrix == [rows |-> 0, f |-> <<>>, r |-> <<>>, fFlags |-> {}, rFlags |-> {}]
SpaceFlag(r) == <<1, 2, 4>>[r + 1]
CutMatrices(r, rows) ==
  LET rowspace == 8 * SpaceFlag(r)
  IN  [rows |-> Len(R[r]),
       f |-> ToCsr(rows.f, Len(R[r]) + 1), r |-> ToCsr(rows.r, Len(R[r]) + 1),
       fFlags |-> {rowspace}, rFlags |-> {rowspace + SpaceFlag(r)}]
Cut(r) ==
  LET free == SelectSeq([i \in DOMAIN R[r] |-> i], LAMBDA i : ObjectBC(r, i) # "Dirichlet")
      row(i) == IF r = op.d THEN CutRow(r, i) ELSE InterpRows(r, i)
  IN  IF R[r] = <<>> \/ \A s \in DOMAIN op.obj : op.obj[s] = "Dirichlet" THEN NoMatrix
      ELSE CutMatrices(r, Gathered([j \in DOMAIN free |-> row(free[j])]))

-----------------------------------------------------------------------------
(* Application to a polynomial.  poly[e] is its exponent along e. *)

Pow(x, e) == Power[x % Prime, e]
ValueAt(p, pos) == pos[0] ** pos[1] ** pos[2]
Monomial(p, pos) == ValueAt(p, [e \in Dirs |-> Pow(pos[e], p[e])])

GridPosition(pt) == [e \in Dirs |-> Spacing[e] ** pt[e]]
RPosition(r, m) ==
  [e \in Dirs |-> Spacing[e] **
     IF e # r THEN At(r, m.ray, 0)[e]
     ELSE IF m.outside THEN (Residue(m.at) -- 1) ++ Cells(m.psi)
     ELSE (Residue(m.at) ++ 1) -- Cells(m.psi)]

PointAt(x) == [d \in Dirs |-> (x \div Stride(d)) % n[d]]
InFluid == {fluid[i] : i \in DOMAIN fluid}

(* The field holds values at the fluid points and nothing of use elsewhere. *)
OnGrid(p) ==
  [x \in 0 .. Size - 1 |->
     Monomial(p, GridPosition(PointAt(x))) ++ (IF x \in InFluid THEN 0 ELSE 1)]
OnR(p, r) == [i \in DOMAIN R[r] |-> Monomial(p, RPosition(r, R[r][i]))]

(* The derivative of order k of the polynomial along d. *)
Slope(p, d, order, pos) ==
  IF p[d] < order THEN 0
  ELSE (IF order = 1 THEN Residue(p[d]) ELSE p[d] ** (p[d] - 1))
         ** Monomial([p EXCEPT ![d] = @ - order], pos)

(* matvec_functor: the coefficients of row i of a block and the first      *)
(* point they apply to.  On a short line the rows of the left end come     *)
(* first, and as many of the right end are left out.                       *)
BlockRow(b, i) ==
  LET j == i - b.left.rows - b.interior
  IN  CASE i < b.left.rows ->
             [from |-> b.col, c |-> Row(b.left.c, b.left.cols, i)]
        [] i >= b.left.rows /\ j < 0 ->
             [from |-> b.row + (i - Len(b.inner) \div 2) * b.stride, c |-> b.inner]
        [] i >= b.left.rows /\ j >= 0 ->
             [from |-> b.rightCol, c |-> Row(b.right.c, b.right.cols, j)]

(* build_device_arrays: the coefficients of all blocks one after another,  *)
(* and where those of block x begin.                                       *)
Coeffs(blocks) ==
  FlattenSeq([x \in DOMAIN blocks |->
                blocks[x].left.c \o blocks[x].inner \o blocks[x].right.c])
Metadata(blocks, x) ==
  LET before == Len(Coeffs(SubSeq(blocks, 1, x - 1)))
      inner == before + blocks[x].left.rows * blocks[x].left.cols
  IN  [left |-> before, interior |-> inner, right |-> inner + Len(blocks[x].inner)]

(* matvec_functor again: the coefficients that it finds for row i of block *)
(* b where the metadata m point to.                                        *)
KernelCoeffs(b, m, coeffs, i) ==
  LET j == i - b.left.rows - b.interior
  IN  CASE i < b.left.rows           -> Window(coeffs, m.left + i * b.left.cols, b.left.cols)
        [] i >= b.left.rows /\ j < 0  -> Window(coeffs, m.interior, Len(b.inner))
        [] i >= b.left.rows /\ j >= 0 -> Window(coeffs, m.right + j * b.right.cols, b.right.cols)

(* The three matrices of a block. *)
DenseLeft(b) ==
  [kind |-> "dense", row |-> b.row, rows |-> b.left.rows, col |-> b.col,
   cols |-> b.left.cols, c |-> b.left.c, flag |-> b.left.flag]
DenseRight(b) ==
  [kind |-> "dense", row |-> b.row + (b.left.rows + b.interior) * b.stride, rows |-> b.right.rows,
   col |-> b.rightCol, cols |-> b.right.cols, c |-> b.right.c, flag |-> b.right.flag]
Circulant(b) ==
  [kind |-> "circulant", row |-> b.row + b.left.rows * b.stride, rows |-> b.interior,
   col |-> b.row + (b.left.rows - Len(b.inner) \div 2) * b.stride,
   cols |-> b.interior + Len(b.inner) - 1, c |-> b.inner]

(* Fault: the points read are a stride of one apart. *)
HostRow_UnitStride(b, i) ==
  LET here(a) == a.row <= b.row + i * b.stride /\ b.row + i * b.stride < a.row + a.rows * b.stride
      a == CHOOSE a \in {DenseLeft(b), Circulant(b), DenseRight(b)} : here(a)
      j == (b.row + i * b.stride - a.row) \div b.stride
  IN  IF a.kind = "dense" THEN [from |-> a.col, c |-> Row(a.c, a.cols, j)]
      ELSE [from |-> a.row + j * b.stride - Len(a.c) \div 2, c |-> a.c]

(* inner_block::operator(): each of the three matrices on the host, with   *)
(* the point its row i reads first.                                        *)
HostRow(b, i) ==
  LET here(a) == a.row <= b.row + i * b.stride /\ b.row + i * b.stride < a.row + a.rows * b.stride
      a == CHOOSE a \in {DenseLeft(b), Circulant(b), DenseRight(b)} : here(a)
      j == (b.row + i * b.stride - a.row) \div b.stride
  IN  IF a.kind = "dense" THEN [from |-> a.col, c |-> Row(a.c, a.cols, j)]
      ELSE [from |-> a.row + (j - Len(a.c) \div 2) * b.stride, c |-> a.c]

RowsOf(b) == 0 .. b.left.rows + b.interior + b.right.rows - 1
Reads(b, row) == {row.from + (j - 1) * b.stride : j \in DOMAIN row.c}

(* The blocks with a row for point i, and the number of that row. *)
LocalRow(b, i) == (i - b.row) \div b.stride
WritersOf(blocks, i) ==
  {x \in DOMAIN blocks : /\ (i - blocks[x].row) % blocks[x].stride = 0
                         /\ LocalRow(blocks[x], i) \in RowsOf(blocks[x])}
Writers(i) == WritersOf(O, i)

Dot(b, i, x) ==
  LET row == BlockRow(b, LocalRow(b, i)) IN
  FieldSum([j \in DOMAIN row.c |-> row.c[j] ** x[row.from + (j - 1) * b.stride]])

RowTimes(points, row, x) ==
  LET mine == SelectSeq(points, LAMBDA p : p.row = row)
  IN  FieldSum([i \in DOMAIN mine |-> mine[i].v ** x[mine[i].col]])

(* operator(): derivative a of the values x at the grid points and xR at   *)
(* the points of each R, with Neumann data nu, on a du that is zero:       *)
(* blocks write, sparse matrices add.                                      *)
Derivative(a, x, xR, nu) ==
  LET block(i) == SetToSeq(WritersOf(a.O, i))
      blocks(i) == FieldSum([w \in DOMAIN block(i) |-> Dot(a.O[block(i)[w]], i, x)])
  IN  [D |-> [i \in 0 .. Size - 1 |->
                blocks(i) ++ RowTimes(a.B, i, xR[a.d]) ++ RowTimes(a.N, i, nu)],
       R |-> [r \in Dirs |-> [i \in DOMAIN R[r] |->
                RowTimes(a.cut[r].f, i, x) ++ RowTimes(a.cut[r].r, i, xR[r])]]]

Matrices == [d |-> op.d, O |-> O, B |-> B, N |-> N, cut |-> cut]

(* The Neumann data of a polynomial are its slope. *)
Applied(p) ==
  LET slope == [i \in 0 .. Size - 1 |-> Slope(p, op.d, 1, GridPosition(PointAt(i)))]
      x == OnGrid(p)
      xR == [r \in Dirs |-> OnR(p, r)]
  IN  Derivative(Matrices, x, xR, slope)

-----------------------------------------------------------------------------
NoOp == [d |-> 0]
AsmInit ==
  /\ Init
  /\ op = NoOp /\ stage = "mesh" /\ next = 0
  /\ O = <<>> /\ B = <<>> /\ N = <<>> /\ cut = [r \in Dirs |-> NoMatrix]
  /\ poly = <<>> /\ du = <<>>

BuildMesh ==
  /\ stage = "mesh"
  /\ Hit \/ NextRay \/ InitSolid \/ InitLines \/ InitFluid
  /\ UNCHANGED asmVars

(* The constructor does nothing in a direction without extent. *)
Construct ==
  /\ stage = "mesh" /\ phase = "done"
  /\ op' \in Derivatives(cfg)
  /\ stage' = IF n[op'.d] < 2 THEN "built" ELSE "domain"
  /\ next' = 1
  /\ UNCHANGED <<vars, O, B, N, cut, poly, du>>

DiscretizeLine ==
  /\ stage = "domain" /\ next <= Len(lines[op.d])
  /\ LET l == lines[op.d][next]
         left == LeftEnd(l)
         right == RightEnd(l)
     IN  IF DirichletLine(At(op.d, l.ray, l.start.at)) THEN UNCHANGED <<O, B, N>>
         ELSE /\ O' = Append(O, InnerBlock(l, left, right))
              /\ B' = B \o left.B \o right.B
              /\ N' = N \o left.N \o right.N
  /\ next' = next + 1
  /\ UNCHANGED <<vars, op, stage, cut, poly, du>>

(* block::builder::to_block: a line is taken to fill the whole range from  *)
(* its first row to its last, also where its stride leaves room for more.  *)
RangesDisjoint ==
  LET end(b) == b.row + (b.left.rows + b.interior + b.right.rows) * b.stride
      apart(b, c) == end(b) <= c.row \/ end(c) <= b.row
  IN  \A x, y \in DOMAIN O : x < y => apart(O[x], O[y])

(* A build with assertions ends the program when row ranges overlap; one   *)
(* without (RelWithDebInfo, Release) does not look.                        *)
FinishDomain ==
  /\ stage = "domain" /\ next > Len(lines[op.d])
  /\ B' = ToCsr(B, Size) /\ N' = ToCsr(N, Size)
  /\ stage' \in IF RangesDisjoint THEN {"cut"} ELSE {"cut", "aborted"}
  /\ next' = 0
  /\ UNCHANGED <<vars, op, O, cut, poly, du>>

DiscretizeCuts ==
  /\ stage = "cut"
  /\ cut' = [cut EXCEPT ![next] = Cut(next)]
  /\ next' = next + 1
  /\ stage' = IF next = 2 THEN "built" ELSE "cut"
  /\ UNCHANGED <<vars, op, O, B, N, poly, du>>

Apply(p) ==
  /\ stage = "built"
  /\ poly' = p /\ du' = Applied(p)
  /\ stage' = "applied"
  /\ UNCHANGED <<vars, op, next, O, B, N, cut>>

AsmNext ==
  \/ BuildMesh \/ Construct \/ DiscretizeLine \/ FinishDomain \/ DiscretizeCuts
  \/ stage = "built" /\ \E p \in Fields(op) : Apply(p)

AsmSpec == AsmInit /\ [][AsmNext]_allVars

-----------------------------------------------------------------------------
(* Points that the operator is to differentiate at: fluid, not given by a  *)
(* Dirichlet condition of any wall.                                        *)
GivenByWall(pt) ==
  \E e \in Dirs : \/ op.grid[e].left = "Dirichlet" /\ pt[e] = 0
                  \/ op.grid[e].right = "Dirichlet" /\ pt[e] = n[e] - 1
Free(pt) == op.d \in Active /\ PiecesWith(op.d, pt) # {} /\ ~GivenByWall(pt)
FreeCut(r, i) == ObjectBC(r, i) # "Dirichlet"

Assembled == stage = "built" /\ op.d \in Active

(* The blocks are run concurrently and without atomics: each fluid point   *)
(* that no Dirichlet condition gives is written by exactly one row of one  *)
(* block, and no other point by any.  This is of the rows themselves; the  *)
(* ranges that block.hpp asserts to be disjoint, see BlockRangesDisjoint,  *)
(* overlap for lines with a stride although their rows interleave.         *)
RowsOnce ==
  Assembled =>
    \A pt \in Points : Cardinality(Writers(Flat(pt))) = IF Free(pt) THEN 1 ELSE 0

(* What block::builder::to_block asserts of the blocks of every operator:  *)
(* no "block inner_blocks have overlapping output row ranges".  Lines      *)
(* along any but the last active direction have a stride and interleave,   *)
(* so that the assertion fails for meshes that are in order.               *)
BlockRangesDisjoint == stage # "aborted"

(* A row reads fluid points of its own piece of the line only: neither     *)
(* beyond a wall nor from the solid or from behind it.  The rows of the    *)
(* points on objects read fluid points, along their own and along the      *)
(* lines they are interpolated from.                                       *)
ReadsInPiece ==
  Assembled =>
    /\ \A x \in DOMAIN O : \A i \in RowsOf(O[x]) :
         Reads(O[x], BlockRow(O[x], i))
           \subseteq {Flat(At(op.d, O[x].line.ray, j)) : j \in Fluid(O[x].line)}
    /\ \A r \in Dirs : \A x \in DOMAIN cut[r].f : cut[r].f[x].col \in InFluid

(* A line on which the closures of the two ends overlap: rows of the right *)
(* one are dropped, but what B adds to them for an object is not.          *)
Overlaps(pt) ==
  \E x \in DOMAIN O : /\ O[x].interior < 0 /\ IsObject(O[x].line.end)
                      /\ O[x].line.ray = RayOf(op.d, pt) /\ pt[op.d] \in Fluid(O[x].line)

ExactOn(r) ==
  \A i \in DOMAIN R[r] : FreeCut(r, i) /\ op.d \in Active =>
    du.R[r][i] = Slope(poly, op.d, op.order, RPosition(r, R[r][i]))

(* Fluid points are given the derivative of any polynomial that the        *)
(* stencil is exact for, whatever the conditions at the ends of their      *)
(* line, its length and the distance of its objects.  Lines that are too   *)
(* short for the closure of an object at their end are left out.  So are   *)
(* the points where a line of any direction enters or leaves an object     *)
(* without a Dirichlet condition, for polynomials that also the            *)
(* interpolation between the lines is exact for.                           *)
DerivativeExact ==
  stage = "applied" =>
    /\ \A pt \in Points : Free(pt) /\ ~Overlaps(pt) =>
         du.D[Flat(pt)] = Slope(poly, op.d, op.order, GridPosition(pt))
    /\ (\A e \in Dirs \ {op.d} : poly[e] <= ExactnessOf(op.st).interp) =>
         \A r \in Dirs : ExactOn(r)

(* The kernel, which finds the rows of all blocks in one array by offsets, *)
(* applies to each row the coefficients of its own block; and these are    *)
(* the rows that the block has when it is applied on the host, matrix by   *)
(* matrix.                                                                 *)
KernelIsBlock ==
  Assembled =>
    LET coeffs == Coeffs(O) IN
    \A x \in DOMAIN O :
      LET m == Metadata(O, x) IN
      \A i \in RowsOf(O[x]) :
        /\ KernelCoeffs(O[x], m, coeffs, i) = BlockRow(O[x], i).c
        /\ O[x].interior >= 0 => BlockRow(O[x], i) = HostRow(O[x], i)
=============================================================================
