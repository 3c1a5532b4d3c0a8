---------------------------- MODULE MCOperators ----------------------------
(***************************************************************************)
(* The operators of space: calls of the stencils (Stencils), derivatives   *)
(* assembled on a mesh and the dense matrices taken from them              *)
(* (DerivativeAssembly, EigenvalueMatrix), and the scalar systems that are *)
(* built on them (ScalarSystem).  Each behaviour is one of a program that  *)
(* makes calls, that analyses a derivative, or that runs a system.         *)
(***************************************************************************)
EXTENDS Stencils, EigenvalueMatrix, ScalarSystem

VARIABLE program   \* "calls", "matrix" or "system"

Alpha == <<1 // 3, 2 // 7, -3 // 5, 4 // 9, 5 // 11, -6 // 13, 7 // 10,
           8 // 17, -9 // 19, 1 // 23, 3 // 29, -5 // 31, 6 // 37>>

-----------------------------------------------------------------------------
(* Calls: tables, distances and lines.  A line is listed when the point    *)
(* lies on it, between its ends.                                           *)

Order(order, type) == [scheme |-> TRUE, order |-> order, type |-> type]
WithAlpha(order, type, count) ==
  [scheme |-> TRUE, order |-> order, type |-> type, alpha |-> SubSeq(Alpha, 1, count)]
E4Alpha(order, a, b) ==
  [scheme |-> TRUE, order |-> order, type |-> "E4", alpha |-> <<a, b>>]

MCTables ==
  {Order(2, "E2"), Order(2, "E4"), WithAlpha(1, "E2", 4), WithAlpha(1, "E4u", 2),
   WithAlpha(1, "E4u", 1), WithAlpha(1, "E6u", 5), WithAlpha(1, "E8u", 7),
   WithAlpha(1, "E2-poly", 13), E4Alpha(1, 1 // 5, 211), E4Alpha(1, 0, 197),
   E4Alpha(1, 1 // 5, 196), Order(1, "E4"), Order(3, "E2"), Order(1, "E5"),
   Order(2, "E4u"), Order(1, "tension_E4u"),
   [scheme |-> FALSE, order |-> 1, type |-> "E2"],
   [scheme |-> TRUE, order |-> 1, type |-> "gaussian_E4u", epsilon |-> 1],
   [scheme |-> TRUE, order |-> 1, type |-> "tension_E4u", sigma |-> 1],
   [scheme |-> TRUE, order |-> 1, type |-> "multiquadric_E4u", epsilon |-> 13],
   [scheme |-> TRUE, order |-> 1, type |-> "E2-poly",
    floating_alpha |-> SubSeq(Alpha, 1, 6), dirichlet_alpha |-> SubSeq(Alpha, 7, 9),
    interpolant_alpha |-> SubSeq(Alpha, 10, 12)]}

MCPsis == {0, 7, 32, 45, 64}

LineEnd(at, object, psi) == [at |-> at, object |-> object, psi |-> psi]
LineEnds(at) == {LineEnd(at, FALSE, 0)} \cup {LineEnd(at, TRUE, psi) : psi \in {3, 32, 61}}

(* In 64ths, where the line starts and where it stops. *)
Start(line) == PerCell * line.l.at + IF line.l.object THEN PerCell - line.l.psi ELSE 0
Stop(line) == PerCell * line.r.at - IF line.r.object THEN PerCell - line.r.psi ELSE 0

MCLines ==
  {line \in [l : LineEnds(2), r : UNION {LineEnds(at) : at \in 7 .. 9}, ic : 2 .. 9,
             y : {-32, -5, 0, 11, 31}] :
     LET x == PerCell * line.ic + line.y IN Start(line) <= x /\ x <= Stop(line)}

-----------------------------------------------------------------------------
(* Meshes, schemes and conditions of derivatives and systems. *)

Mesh(n0, n1, n2, shapes) ==
  [n |-> [d \in Dirs |-> <<n0, n1, n2>>[d + 1]], shapes |-> shapes, err |-> [d \in Dirs |-> 0]]
Sphere(x, y, z, r2) == [kind |-> "sphere", c |-> [d \in Dirs |-> <<x, y, z>>[d + 1]], r2 |-> r2]

E2 == Scheme("E2_2", <<>>)
E4 == Scheme("E4_2", <<>>)
First == FirstOrder([type |-> "E2", alpha |-> SubSeq(Alpha, 1, 4)])
Poly1 == FirstOrder([type |-> "E2-poly", alpha |-> Alpha])
OrderOf(s) == IF s.scheme \in {"E2_2", "E4_2"} THEN 2 ELSE 1

MCSpacing == [d \in Dirs |-> <<3, 5, 7>>[d + 1]]

D == "Dirichlet"
F == "Floating"
N_ == "Neumann"
W(l, r) == [left |-> l, right |-> r]
FF == W(F, F)
Op(d, s, x, y, z, obj) ==
  [d |-> d, st |-> s, order |-> OrderOf(s),
   grid |-> [e \in Dirs |-> <<x, y, z>>[e + 1]], obj |-> obj]

(* First derivatives know no Neumann condition. *)
WallPairs(s) == LET bc == IF OrderOf(s) = 2 THEN {D, F, N_} ELSE {D, F} IN
                {W(l, r) : l \in bc, r \in bc}

(* On a line: a short one and a longer one without objects, a sphere, a    *)
(* rectangle at either end.  In the plane and in space: a sphere that      *)
(* leaves the stencils enough points on either side.                       *)
Short == Mesh(5, 1, 1, <<>>)
Plain == Mesh(8, 1, 1, <<>>)
OneSphere == Mesh(12, 1, 1, <<Sphere(22, 0, 0, 20)>>)
Rects == Mesh(9, 1, 1, <<YzRect(9, 16, 1), YzRect(9, 60, -1)>>)
Plane == Mesh(11, 10, 1, <<Sphere(21, 17, 0, 17)>>)
WidePlane == Mesh(13, 12, 1, <<Sphere(22, 21, 0, 12)>>)
Space == Mesh(10, 10, 9, <<Sphere(17, 18, 16, 14)>>)

(* Segments to take matrices from: with no object, with two rectangles,    *)
(* and with one and two spheres.                                           *)
Segments ==
  {Mesh(9, 1, 1, <<>>), Mesh(12, 1, 1, <<>>),
   Mesh(10, 1, 1, <<YzRect(10, 16, 1), YzRect(10, 60, -1)>>),
   Mesh(16, 1, 1, <<Sphere(30, 0, 0, 20)>>),
   Mesh(24, 1, 1, <<Sphere(26, 0, 0, 20), Sphere(62, 0, 0, 20)>>),
   Mesh(32, 1, 1, <<Sphere(34, 0, 0, 20), Sphere(86, 0, 0, 20)>>)}

MatrixMeshes == Segments \cup {Short, Plain, OneSphere, Rects, Plane, WidePlane, Space}

MCDerivatives(c) ==
  LET objs == [DOMAIN c.shapes -> {D, F}]
      onLine(sch) == {Op(0, sch, w, FF, FF, o) : w \in WallPairs(sch), o \in objs}
      analysed(sch) == {Op(0, sch, W(l, r), FF, FF, o) : l \in {D, F}, r \in {D, F}, o \in objs}
      inPlane(sch, x, y) == {Op(d, sch, x, y, FF, <<o>>) : d \in {0, 1}, o \in {D, F}}
  IN  CASE c = Short -> onLine(E2) \cup onLine(E4) \cup onLine(First)
        [] c = Plain -> onLine(E4) \cup onLine(Poly1) \cup {Op(1, E2, FF, FF, FF, <<>>)}
        [] c = OneSphere -> onLine(E2) \cup onLine(Poly1)
        [] c = Rects -> onLine(E2) \cup onLine(Poly1)
        [] c = Plane -> inPlane(E2, W(N_, D), W(F, N_)) \cup inPlane(Poly1, W(D, F), FF)
        [] c = WidePlane -> {Op(0, E4, W(D, N_), FF, FF, <<F>>), Op(1, E4, FF, W(F, N_), FF, <<F>>)}
        [] c = Space -> {Op(d, E2, FF, W(F, D), W(N_, F), <<F>>) : d \in Dirs}
        [] c \in Segments -> analysed(Poly1) \cup analysed(First)
             \cup (IF Len(c.shapes) < 2 THEN analysed(E2) \cup analysed(E4) ELSE {})
        [] OTHER -> {}

MCFields(o) ==
  {p \in [Dirs -> 0 .. 3] :
     /\ p[o.d] <= Exactness(o.st).wall
     /\ \A e \in Dirs \ {o.d} : p[e] <= Exactness(o.st).interp}

-----------------------------------------------------------------------------
(* Systems, each with a solution within what its stencil is exact for. *)

Walls(x, y, z) == [e \in Dirs |-> <<x, y, z>>[e + 1]]

(* A monomial with a coefficient that is linear in time. *)
T(c, ct, px, py, pz) == [c |-> c, ct |-> ct, p |-> [e \in Dirs |-> <<px, py, pz>>[e + 1]]]
Linear == <<T(4, 7, 0, 0, 0), T(2, 3, 1, 0, 0), T(5, 1, 0, 1, 0), T(6, 2, 0, 0, 1), T(3, 4, 1, 1, 1)>>
Quadratic == Linear \o <<T(1, 5, 2, 0, 0), T(3, 2, 0, 2, 0), T(2, 1, 1, 2, 0)>>
InSpace == Linear \o <<T(3, 2, 0, 2, 0), T(7, 3, 0, 1, 2)>>
OnLine == <<T(4, 7, 0, 0, 0), T(2, 3, 1, 0, 0), T(1, 5, 2, 0, 0)>>
Cubic == <<T(4, 7, 0, 0, 0), T(2, 3, 3, 1, 0), T(1, 5, 2, 3, 0), T(3, 2, 0, 3, 0)>>

Heat(s, grid, obj, terms) ==
  [kind |-> "heat", st |-> s, order |-> 2, grid |-> grid, obj |-> obj, k |-> 3 // 4, dt |-> 1 // 8,
   terms |-> terms, exact |-> TRUE]
Wave(grid, obj, distance, exact) ==
  [kind |-> "scalar_wave", st |-> First, order |-> 1, grid |-> grid, obj |-> obj, dt |-> 1 // 8,
   center |-> [d \in Dirs |-> -2], radius |-> 5, distance |-> distance, exact |-> exact]

Sum(s, f(_)) == FieldSum([i \in DOMAIN s.terms |-> f(s.terms[i])])
At_(e, t) == e.c ++ (e.ct ** t)
MCValue(s, t, pos) == Sum(s, LAMBDA e : At_(e, t) ** Monomial(e.p, pos))
MCDdt(s, t, pos) == Sum(s, LAMBDA e : e.ct ** Monomial(e.p, pos))
MCGradient(s, t, pos) ==
  [d \in Dirs |-> Sum(s, LAMBDA e : At_(e, t) ** Slope(e.p, d, 1, pos))]
MCLaplacian(s, t, pos) ==
  FieldSum([d \in 1 .. 3 |-> Sum(s, LAMBDA e : At_(e, t) ** Slope(e.p, d - 1, 2, pos))])

(* The distance along a line from a centre left of it is x - c.  In the    *)
(* plane and in space a linear function stands for it, and another for the *)
(* profile of the wave.                                                    *)
MCDistance(s, pos) == FieldSum([d \in 1 .. 3 |-> s.distance[d] ** (pos[d - 1] -- s.center[d - 1])])
MCProfile(x) == (3 ** x) ++ 5
MCEquation(s, t, pos) ==
  IF s.kind = "heat" THEN MCDdt(s, t, pos)
  ELSE FieldSum([d \in 1 .. 3 |->
         (IF n[d - 1] > 1 THEN 3 ** s.distance[d] ELSE 0)
           ** ((-(pos[d - 1] - s.center[d - 1])) // MCDistance(s, pos))])

Segment1 == Mesh(11, 1, 1, <<>>)
Ball == Mesh(22, 1, 1, <<Sphere(42, 0, 0, 20)>>)
Upright == Mesh(1, 9, 1, <<>>)
Corner == Mesh(12, 13, 1, <<Sphere(0, 0, 0, 22)>>)
AtWall == Mesh(9, 10, 1, <<Sphere(1, 18, 0, 22)>>)
Box == Mesh(6, 5, 7, <<>>)
Crossing == Mesh(6, 5, 1, <<>>)

SystemMeshes == {Segment1, Ball, Upright, Plane, Corner, AtWall, WidePlane, Space, Box}

MCSystems(c) ==
  CASE c = Segment1 -> {Heat(E2, Walls(x, FF, FF), <<>>, OnLine) : x \in {W(N_, D), W(F, N_), W(D, F)}}
         \cup {Wave(Walls(W(D, F), FF, FF), <<>>, <<1, 0, 0>>, TRUE)}
    [] c = Ball -> {Heat(E2, Walls(W(D, N_), FF, FF), <<o>>, OnLine) : o \in {D, F}}
         \cup {Wave(Walls(W(D, F), FF, FF), <<o>>, <<1, 0, 0>>, TRUE) : o \in {D, F}}
    [] c = Upright -> {Heat(E2, Walls(FF, W(N_, D), FF), <<>>, <<T(2, 1, 0, 2, 0), T(3, 4, 0, 1, 0)>>)}
    [] c = Plane -> {Heat(E2, Walls(W(N_, D), W(D, F), FF), <<D>>, Quadratic),
                     Heat(E2, Walls(W(D, F), W(N_, N_), FF), <<F>>, Linear),
                     Heat(E2, Walls(FF, FF, FF), <<D>>, Linear)}
    [] c = Corner -> {Wave(Walls(W(F, D), FF, FF), <<F>>, <<1, 2, 0>>, FALSE),
                      Wave(Walls(FF, W(F, D), FF), <<D>>, <<3, 1, 0>>, FALSE)}
    [] c = AtWall -> {Heat(E2, Walls(W(D, D), W(F, N_), FF), <<D>>, Quadratic)}
    [] c = WidePlane -> {Heat(E4, Walls(W(D, N_), W(F, D), FF), <<F>>, Cubic)}
    [] c = Space -> {Heat(E2, Walls(W(F, D), FF, W(N_, D)), <<F>>, Linear)}
    [] c = Box -> {Heat(E2, Walls(FF, W(D, F), W(D, N_)), <<>>, InSpace),
                   Wave(Walls(FF, W(D, F), W(F, D)), <<>>, <<1, 2, 5>>, FALSE)}
    [] c = Crossing -> {Heat(E2, Walls(W(D, N_), W(D, N_), FF), <<>>, Quadratic)}
    [] OTHER -> {}

MCConfigs == MatrixMeshes \cup SystemMeshes

(* Neumann faces of two directions, which meet. *)
MCCrossing == {Crossing}
MCNoTables == {}

-----------------------------------------------------------------------------
(* What is not part of the program keeps its initial state. *)

Idle == table = <<>> /\ st = NoStencil /\ out = [call |-> "none"]
MCInit ==
  /\ EigInit /\ SysInit
  /\ \/ program = "calls" /\ CallInit /\ cfg = Short
     \/ program = "matrix" /\ Idle /\ cfg \in MatrixMeshes
     \/ program = "system" /\ Idle /\ Systems(cfg) # {}

MCNext ==
  /\ UNCHANGED program
  /\ \/ program = "calls" /\ CallNext /\ UNCHANGED <<allVars, eigVars, sysVars>>
     \/ program = "matrix" /\ EigNext /\ UNCHANGED <<callVars, sysVars>>
     \/ program = "system" /\ SysNext /\ UNCHANGED <<callVars, eigVars>>

MCSpec == MCInit /\ [][MCNext]_<<program, callVars, allVars, eigVars, sysVars>>
=============================================================================
