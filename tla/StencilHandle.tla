---------------------------- MODULE StencilHandle ----------------------------
(***************************************************************************)
(* The stencil handle: calls go to the scheme it holds, a point between    *)
(* grid points is interpolated by the interior or by an end of its line,   *)
(* and a lua table chooses the scheme.                                     *)
(***************************************************************************)
EXTENDS StencilField

CONSTANT E      \* the field element that stands for exp(-1)

D2E2 == INSTANCE StencilE2_2
D2E4 == INSTANCE StencilE4_2
D1E2 == INSTANCE StencilE2_1
D1E4 == INSTANCE StencilE4_1
Uniform == INSTANCE StencilUniform

BCs == {"Dirichlet", "Neumann", "Floating"}
NoStencil == [scheme |-> "none", a |-> <<>>]

(***************************************************************************)
(* Calls through the handle go to the scheme it holds.                     *)
(***************************************************************************)
Query(s, bc) ==
  CASE s.scheme = "E2_2"     -> D2E2!Query(bc)
    [] s.scheme = "E4_2"     -> D2E4!Query(bc)
    [] s.scheme = "E2_1"     -> D1E2!Query(bc)
    [] s.scheme = "E4_1"     -> D1E4!Query(bc)
    [] s.scheme = "polyE2_1" -> D1E2!PolyQuery(bc)
    [] s.scheme = "E4u_1"    -> Uniform!E4uQuery(bc)
    [] s.scheme = "E6u_1"    -> Uniform!E6uQuery(bc)
    [] s.scheme = "E8u_1"    -> Uniform!E8uQuery(bc)
    [] s.scheme = "rbf"      -> Uniform!RbfQuery(bc)

QueryInterp(s) ==
  CASE s.scheme = "E2_2"     -> D2E2!QueryInterp
    [] s.scheme = "E4_2"     -> D2E4!QueryInterp
    [] s.scheme = "E2_1"     -> D1E2!QueryInterp
    [] s.scheme = "polyE2_1" -> D1E2!PolyQueryInterp
    [] OTHER                 -> InterpInfo(0, 0)

Interior(s, h) ==
  CASE s.scheme = "E2_2"     -> D2E2!Interior(h)
    [] s.scheme = "E4_2"     -> D2E4!Interior(h)
    [] s.scheme = "E2_1"     -> D1E2!Interior(h)
    [] s.scheme = "E4_1"     -> D1E4!Interior(h)
    [] s.scheme = "polyE2_1" -> D1E2!PolyInterior(h)
    [] s.scheme = "E4u_1"    -> Uniform!E4uInterior(h)
    [] s.scheme = "E6u_1"    -> Uniform!E6uInterior(h)
    [] s.scheme = "E8u_1"    -> Uniform!E8uInterior(h)
    [] s.scheme = "rbf"      -> Uniform!RbfInterior(h)

Nbs(s, h, bc, k, right) ==
  LET psi == Cells(k)
  IN  CASE s.scheme = "E2_2"     -> D2E2!Nbs(h, bc, psi, right)
        [] s.scheme = "E4_2"     -> D2E4!Nbs(h, bc, psi, right)
        [] s.scheme = "E2_1"     -> D1E2!Nbs(s.a, h, bc, psi, right)
        [] s.scheme = "E4_1"     -> D1E4!Nbs(s.a, h, bc, k, right)
        [] s.scheme = "polyE2_1" -> D1E2!PolyNbs(s.a, h, bc, psi, right)
        [] s.scheme = "E4u_1"    -> Uniform!E4uNbs(s.a, h, bc, right)
        [] s.scheme = "E6u_1"    -> Uniform!E6uNbs(s.a, h, bc, right)
        [] s.scheme = "E8u_1"    -> Uniform!E8uNbs(s.a, h, bc, right)
        [] s.scheme = "rbf"      -> Uniform!RbfNbs(s.a, h, bc, right)

(* The schemes without an interpolant hand back the buffer they are given. *)
InterpInterior(s, y) ==
  CASE s.scheme = "E2_2"     -> D2E2!InterpInterior(y)
    [] s.scheme = "E4_2"     -> D2E4!InterpInterior(y)
    [] s.scheme = "E2_1"     -> D1E2!InterpInterior(y)
    [] s.scheme = "polyE2_1" -> D1E2!PolyInterpInterior(y)
    [] OTHER                 -> <<>>

InterpWall(s, i, y, psi, right) ==
  CASE s.scheme = "E2_2"     -> D2E2!InterpWall(i, y, psi, right)
    [] s.scheme = "E4_2"     -> D2E4!InterpWall(i, y, psi, right)
    [] s.scheme = "E2_1"     -> D1E2!InterpWall(i, y, psi, right)
    [] s.scheme = "polyE2_1" -> D1E2!PolyInterpWall(s.a, i, y, psi, right)
    [] OTHER                 -> <<>>

(***************************************************************************)
(* stencil::interp.  A line has a left and a right end, [at, object, psi]: *)
(* the coordinate of the wall or of the solid point, whether it is an      *)
(* object and its psi.  The point is y, in 64ths, from coordinate ic.  The *)
(* weights are those of the consecutive points from `from' on, where the   *)
(* first or the last one may be an object.                                 *)
(***************************************************************************)
(* C++ division: toward zero, also for a scheme without interpolant. *)
Half(k) == IF k < 0 THEN -((-k) \div 2) ELSE k \div 2

(* How far the interior interpolant reaches to the left and to the right. *)
Reach(p, y) ==
  LET st1 == Half(IF p % 2 = 1 THEN p - 1 ELSE p)
      st2 == Half(p - 1)
  IN  IF y > 0 THEN [l |-> st2, r |-> st1] ELSE [l |-> st1, r |-> st2]

IsInside(line, s) ==
  LET n == Reach(QueryInterp(s).p, line.y)
      before == line.ic - line.l.at
      after == line.r.at - line.ic
  IN  /\ before > n.l \/ (before = n.l /\ ~line.l.object)
      /\ after > n.r \/ (after = n.r /\ ~line.r.object)

WallPsi(end) == IF end.object THEN Cells(end.psi) ELSE 1

(* Fault: the distance is left as it is. *)
LeftY_Raw(line) == line.y

(* A point closest to the solid point of an object is measured from the    *)
(* object.                                                                 *)
LeftY(line) ==
  IF line.l.object /\ line.l.at = line.ic THEN line.y + line.l.psi - PerCell ELSE line.y

RightY(line) ==
  IF line.r.object /\ line.r.at = line.ic THEN line.y + PerCell - line.r.psi ELSE line.y

(* Which ends of what is read are objects is part of the answer. *)
Interp(s, line) ==
  LET t == QueryInterp(s).t
      n == Reach(QueryInterp(s).p, line.y)
      before == line.ic - line.l.at
      after == line.r.at - line.ic
  IN  IF IsInside(line, s)
      THEN [from |-> line.ic - n.l, to |-> line.ic + n.r, l |-> FALSE, r |-> FALSE,
            c |-> InterpInterior(s, line.y)]
      ELSE IF before < after
      THEN [from |-> line.l.at, to |-> line.l.at + t - 1, l |-> line.l.object, r |-> FALSE,
            c |-> InterpWall(s, before, Cells(LeftY(line)), WallPsi(line.l), FALSE)]
      ELSE [from |-> line.r.at - (t - 1), to |-> line.r.at, l |-> FALSE, r |-> line.r.object,
            c |-> InterpWall(s, after, Cells(RightY(line)), WallPsi(line.r), TRUE)]

(***************************************************************************)
(* stencil::from_lua                                                       *)
(***************************************************************************)
Scheme(name, a) == [scheme |-> name, a |-> a]

(* A field that the table may leave out. *)
Given(t, f) == IF f \in DOMAIN t THEN t[f] ELSE <<>>
GetOr(t, f, default) == IF f \in DOMAIN t THEN t[f] ELSE default

(* Elements first + 1 to first + count, as far as there are any: a scheme  *)
(* copies no more than it has parameters for.                              *)
Subspan(s, first, count) ==
  SubSeq(s, first + 1, IF Len(s) < first + count THEN Len(s) ELSE first + count)

(* One array holds the parameters of three, or they are given apart. *)
PolyE2(t) ==
  LET alpha == Given(t, "alpha")
  IN  IF Len(alpha) > 0
      THEN D1E2!PolyParameters(Subspan(alpha, 0, 6), Subspan(alpha, 6, 9), Subspan(alpha, 9, 13))
      ELSE D1E2!PolyParameters(Given(t, "floating_alpha"), Given(t, "dirichlet_alpha"),
                             Given(t, "interpolant_alpha"))

SecondOrder(t) ==
  CASE t.type = "E2" -> Scheme("E2_2", <<>>)
    [] t.type = "E4" -> Scheme("E4_2", <<>>)
    [] OTHER         -> NoStencil

FirstOrder(t) ==
  LET alpha == Given(t, "alpha")
  IN  CASE t.type = "E2"      -> Scheme("E2_1", D1E2!Parameters(alpha))
        [] t.type = "E4"      -> Scheme("E4_1", D1E4!Parameters(alpha))
        [] t.type = "E4u"     -> Scheme("E4u_1", Uniform!E4uParameters(alpha))
        [] t.type = "E6u"     -> Scheme("E6u_1", Uniform!E6uParameters(alpha))
        [] t.type = "E8u"     -> Scheme("E8u_1", Uniform!E8uParameters(alpha))
        [] t.type = "tension_E4u" ->
             Scheme("rbf", Uniform!TensionRows(GetOr(t, "sigma", 3)))
        [] t.type = "gaussian_E4u" -> Scheme("rbf", Uniform!GaussianRows(t.epsilon))
        [] t.type = "multiquadric_E4u" ->
             Scheme("rbf", Uniform!MultiquadricRows(t.epsilon))
        [] t.type = "E2-poly" -> Scheme("polyE2_1", PolyE2(t))
        [] OTHER              -> NoStencil

(* The constructor of E4_1 throws. *)
Throws(t) == t.scheme /\ t.order = 1 /\ t.type = "E4" /\ ~D1E4!Accepted(Given(t, "alpha"))

FromLua(t) ==
  CASE ~t.scheme   -> NoStencil
    [] t.order = 2 -> SecondOrder(t)
    [] t.order = 1 -> FirstOrder(t)
    [] OTHER       -> NoStencil

(* What the boundary closures and the interior of a scheme are exact for:  *)
(* polynomials up to this degree; `last' is the degree of the last row of  *)
(* a closure, where it is another.                                         *)
Exactness(s) ==
  CASE s.scheme = "E2_2"     -> [inside |-> 3, wall |-> 2, last |-> 2, interp |-> 1]
    [] s.scheme = "E4_2"     -> [inside |-> 5, wall |-> 3, last |-> 3, interp |-> 3]
    [] s.scheme = "E2_1"     -> [inside |-> 2, wall |-> 1, last |-> 1, interp |-> 1]
    [] s.scheme = "E4_1"     -> [inside |-> 4, wall |-> 3, last |-> 3, interp |-> 0]
    [] s.scheme = "polyE2_1" -> [inside |-> 2, wall |-> 1, last |-> 1, interp |-> 1]
    [] s.scheme = "E4u_1"    -> [inside |-> 4, wall |-> 3, last |-> 3, interp |-> 0]
    [] s.scheme = "E6u_1"    -> [inside |-> 6, wall |-> 5, last |-> 5, interp |-> 0]
    [] s.scheme = "E8u_1"    -> [inside |-> 8, wall |-> 7, last |-> 7, interp |-> 0]
    [] s.scheme = "rbf"      -> [inside |-> 4, wall |-> 3, last |-> 4, interp |-> 0]
=============================================================================
