------------------------------ MODULE Stencils ------------------------------
(***************************************************************************)
(* The calls that the operators make on a stencil: a scheme is chosen from *)
(* a lua table and gives coefficients for a wall or an object at the end   *)
(* of a line, for the interior, and for a point between grid points.       *)
(***************************************************************************)
EXTENDS StencilHandle

CONSTANTS
  Tables,       \* lua tables: [scheme, order, type] and the parameters they give
  Psis,         \* distances to a boundary, in 64ths of a cell
  Spacings,     \* mesh spacings
  Lines         \* pieces of a line, and a point of it to interpolate at

VARIABLES
  table,  \* the table read last
  st,     \* the stencil, or NoStencil
  out     \* the answer of the last call
callVars == <<table, st, out>>

(***************************************************************************)
(* The operations                                                          *)
(***************************************************************************)
CallInit ==
  /\ table \in Tables
  /\ st = NoStencil
  /\ out = [call |-> "none"]

ReadTable ==
  /\ out.call = "none"
  /\ UNCHANGED table
  /\ IF Throws(table)
     THEN st' = NoStencil /\ out' = [call |-> "throw"]
     ELSE st' = FromLua(table) /\ out' = [call |-> "table"]

(* The methods are const: a call depends on no earlier one, so that one    *)
(* call after the table shows all answers.                                 *)
Ready == st # NoStencil /\ out.call = "table"

CloseWall(bc, h, k, right) ==
  /\ Ready
  /\ LET c == Nbs(st, h, bc, k, right)
     IN out' = [call |-> "nbs", bc |-> bc, h |-> h, k |-> k, right |-> right,
                c |-> c.c, x |-> c.x]
  /\ UNCHANGED <<table, st>>

InteriorAt(h) ==
  /\ Ready
  /\ out' = [call |-> "interior", h |-> h, c |-> Interior(st, h)]
  /\ UNCHANGED <<table, st>>

InterpolateAt(line) ==
  /\ Ready
  /\ LET i == Interp(st, line)
     IN out' = [call |-> "interp", line |-> line, i |-> i]
  /\ UNCHANGED <<table, st>>

CallNext ==
  \/ ReadTable
  \/ \E bc \in BCs, h \in Spacings, k \in Psis, right \in BOOLEAN : CloseWall(bc, h, k, right)
  \/ \E h \in Spacings : InteriorAt(h)
  \/ \E line \in Lines : InterpolateAt(line)

CallSpec == CallInit /\ [][CallNext]_callVars

-----------------------------------------------------------------------------
(***************************************************************************)
(* Properties                                                              *)
(***************************************************************************)
(* The schemes whose closures do not depend on psi have the wall at a grid *)
(* point; E4_1 keeps psi off 0 and 1.                                      *)
PsiOf(s, k) ==
  CASE s.scheme \in {"E4u_1", "E6u_1", "E8u_1", "rbf"} -> 1
    [] s.scheme = "E4_1" -> D1E4!Clamped(k)
    [] OTHER             -> Cells(k)

(* Coordinates of the points of a closure, the wall first. *)
Point(s, k, j) == IF j = 0 THEN -PsiOf(s, k) ELSE Residue(j - 1)

(* The order-th derivative of z^m. *)
DerivativeOf(order, z, m) ==
  CASE m < order -> 0
    [] order = 1 -> m ** Power[z, m - 1]
    [] OTHER     -> m ** (m - 1) ** Power[z, m - 2]

(* Row i of a closure, seen from the wall, takes a polynomial of degree m  *)
(* to its derivative at `point', the one at the wall being known if there  *)
(* are extra coefficients.                                                 *)
RowExact(s, o, info, i, point, m) ==
  LET f == IF o.right THEN -1 ELSE 1
      row == IF o.right THEN info.r - 1 - i ELSE i
      column(j) == row * info.t + (IF o.right THEN info.t - j ELSE j + 1)
      z(j) == f ** o.h ** Point(s, o.k, j)
      sum == FieldSum([j \in 1 .. info.t |-> o.c[column(j - 1)] ** Power[z(j - 1), m]])
      extra == IF i < info.x THEN o.x[row - (IF o.right THEN info.r - info.x ELSE 0) + 1]
                                    ** DerivativeOf(1, z(0), m)
               ELSE 0
  IN  sum ++ extra = DerivativeOf(table.order, z(point), m)

ClosureExactAt(s, o, shift) ==
  LET info == Query(s, o.bc)
      first == IF o.bc = "Dirichlet" THEN 1 ELSE 0
  IN  \A i \in 0 .. info.r - 1 :
         \A m \in 0 .. (IF i = info.r - 1 THEN Exactness(s).last ELSE Exactness(s).wall) :
           RowExact(s, o, info, i, i + first + shift, m)

(* Parts of OperatorExact.  The rows of a closure, on either side: without *)
(* a wall row under a Dirichlet condition, with the derivative at the wall *)
(* under a Neumann one.  The rows of the cut-cell first-derivative scheme  *)
(* E4_1 are the derivative one point further from the wall.                *)
ClosureExact ==
  out.call = "nbs" => ClosureExactAt(st, out, IF st.scheme = "E4_1" THEN 1 ELSE 0)

(* The row away from the walls, for polynomials of a higher degree.        *)
InteriorExact ==
  out.call = "interior" =>
    LET p == Query(st, "Floating").p
        x(j) == Residue(out.h * (j - p - 1))
    IN  \A m \in 0 .. Exactness(st).inside :
          FieldSum([j \in 1 .. 2 * p + 1 |-> out.c[j] ** Power[x(j), m]])
            = DerivativeOf(table.order, 0, m)

(* Every row that a scheme gives out approximates the derivative that the  *)
(* table asks for, for every psi and spacing and all parameters, at the    *)
(* point the operator stores the row to; a row of E4_1 does so at the      *)
(* point after it (nbs and interior of each scheme).                       *)
OperatorExact == ClosureExact /\ InteriorExact

(* Column j of the weighted sum of all rows of a half line with a floating *)
(* wall: the rows of the closure weigh w, the interior rows one.           *)
ColumnSum(w, closure, inner, info, j) ==
  FieldSum([i \in 1 .. info.r |-> w[i] ** closure[(i - 1) * info.t + j + 1]])
    ++ FieldSum([i \in 1 .. 2 * info.p + 1 |->
                   LET row == j + info.p + 1 - i
                   IN  IF row >= info.r THEN inner[i] ELSE 0])

(* The weights that leave only the value at the wall in the first columns. *)
Weights(closure, inner, info) ==
  LET zero == [i \in 1 .. info.r |-> 0]
      wanted(j) == IF j = 0 THEN -1 ELSE 0
      row(j) == [i \in 1 .. info.r |-> closure[(i - 1) * info.t + j + 1]]
  IN  Uniform!Solve([j \in 1 .. info.r |->
         row(j - 1) \o <<wanted(j - 1) -- ColumnSum(zero, closure, inner, info, j - 1)>>])

(* The uniform first-derivative schemes conserve: some weighted sum of the *)
(* rows at a floating wall cancels every value but the one at the wall,    *)
(* whatever the parameters.  There are more columns than weights.          *)
Conserves ==
  (/\ out.call = "nbs" /\ out.bc = "Floating" /\ ~out.right
   /\ st.scheme \in {"E4u_1", "E6u_1", "E8u_1"}) =>
    LET info == Query(st, "Floating")
        closure == Scaled(out.h, out.c)
        inner == Scaled(out.h, Interior(st, out.h))
        solved == Weights(closure, inner, info)
        w == [i \in 1 .. info.r |-> solved[i][1]]
    IN  \A j \in 0 .. info.t - 1 :
          ColumnSum(w, closure, inner, info, j) = Residue(IF j = 0 THEN -1 ELSE 0)

(* Coordinate of a point that an interpolation reads, counted in cells.    *)
ReadPoint(line, i, at) ==
  IF at = i.from /\ i.l THEN Residue(at) ++ 1 -- Cells(line.l.psi)
  ELSE IF at = i.to /\ i.r THEN (Residue(at) -- 1) ++ Cells(line.r.psi)
  ELSE Residue(at)

Interpolates == out.call = "interp" /\ QueryInterp(st).t > 0

(* An interpolation reads points of its own piece of the line, as many as  *)
(* it has weights, and never the solid: the object's own point, not the    *)
(* solid grid point it is stored at, is interpolated from.  The value is   *)
(* exact for polynomials, wherever the point lies between the ends of the  *)
(* line, objects or walls.                                                 *)
InterpExact ==
  Interpolates =>
    LET line == out.line
        x == Residue(line.ic) ++ Cells(line.y)
    IN  /\ out.i.from >= line.l.at + IF line.l.object /\ ~out.i.l THEN 1 ELSE 0
        /\ out.i.to <= line.r.at - IF line.r.object /\ ~out.i.r THEN 1 ELSE 0
        /\ Len(out.i.c) = out.i.to - out.i.from + 1
        /\ \A m \in 0 .. Exactness(st).interp :
             FieldSum([j \in DOMAIN out.i.c |->
                         out.i.c[j] ** Power[ReadPoint(line, out.i, out.i.from + j - 1), m]])
               = Power[x, m]
=============================================================================
