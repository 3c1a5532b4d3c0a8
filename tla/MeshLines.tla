----------------------------- MODULE MeshLines -----------------------------
(***************************************************************************)
(* Construction of a mesh with cut cells (object_geometry and mesh): rays  *)
(* along every grid line are intersected with the shapes, grid points next *)
(* to an intersection become solid, each line of points is divided into    *)
(* the pieces between walls and objects, and the pieces of the highest     *)
(* active direction give the fluid points.                                 *)
(*                                                                         *)
(* Lengths are even integers, Cell to a grid cell; nextafter adds 1.  A    *)
(* sphere has its centre on quarters of a cell and any squared radius: the *)
(* root of a number that is no square lies strictly between two quarters   *)
(* and is taken as their midpoint, which keeps it on its side of every     *)
(* grid point.  cfg.err is the rounding of a computed distance, one value  *)
(* for the rays of each direction and no more than the code's snap_tol.    *)
(* Rectangles have their default corners, beyond the domain.  A direction  *)
(* of extent 1 has no length.  MaxHits is two hits to a shape or more, as   *)
(* many as a search that ends can find on a ray.                           *)
(***************************************************************************)
EXTENDS Integers, Sequences, FiniteSets, SequencesExt

CONSTANTS
  Configs,    \* the meshes to build
  MaxHits     \* bound on the intersections kept of one ray

Dirs == 0 .. 2
Cell == 64
Quarter == 16
SnapTol == 2
NaN == -1      \* no length: the comparisons of the code are all false on it

ASSUME MeshLinesAssumption ==
  /\ \A c \in Configs :
       /\ DOMAIN c = {"n", "shapes", "err"}
       /\ c.n \in [Dirs -> Nat \ {0}]
       /\ DOMAIN c.shapes = 1 .. Len(c.shapes) /\ Len(c.shapes) \in Nat
       /\ \A i \in 1 .. Len(c.shapes) :
            \/ c.shapes[i].kind = "yz_rect" /\ c.shapes[i].x \in Nat
               /\ c.shapes[i].normal \in {-1, 1}
            \/ c.shapes[i].kind = "sphere" /\ c.shapes[i].r2 \in Nat \ {0}
               /\ c.shapes[i].c \in [Dirs -> Int]
       /\ c.err \in [Dirs -> {-SnapTol, 0, SnapTol}]
       /\ 2 * Len(c.shapes) <= MaxHits
  /\ MaxHits \in Nat

VARIABLES
  cfg,      \* extents, shapes and rounding, fixed at the start
  phase,    \* "cast", "solid", "lines", "fluid", "done"
  dir, k,   \* direction and number of the ray being cast
  tmin,     \* where the search for its next intersection starts
  R,        \* direction -> intersections, ray by ray
  S,        \* direction -> solid points
  lines,    \* direction -> pieces of lines
  fluid,    \* the fluid selection, flat indices in order
  failed    \* assertions that failed and optionals dereferenced empty

vars == <<cfg, phase, dir, k, tmin, R, S, lines, fluid, failed>>

-----------------------------------------------------------------------------
(* Index space *)

n == cfg.n
Slow(d) == <<1, 0, 0>>[d + 1]
Fast(d) == <<2, 2, 1>>[d + 1]
Rays(d) == n[Slow(d)] * n[Fast(d)]

Points == {[d \in Dirs |-> <<i, j, l>>[d + 1]] :
             i \in 0 .. n[0] - 1, j \in 0 .. n[1] - 1, l \in 0 .. n[2] - 1}
Active == {d \in Dirs : n[d] > 1}

(* The first point of the r-th ray along d; slow before fast. *)
Origin(d, r) ==
  [e \in Dirs |-> CASE e = Slow(d) -> r \div n[Fast(d)]
                    [] e = Fast(d) -> r % n[Fast(d)]
                    [] e = d       -> 0]
RayOf(d, pt) == pt[Slow(d)] * n[Fast(d)] + pt[Fast(d)]
At(d, r, i) == [Origin(d, r) EXCEPT ![d] = i]

(* index_extents::operator(), the flat index of a point. *)
Flat(pt) == pt[0] * n[1] * n[2] + pt[1] * n[2] + pt[2]

-----------------------------------------------------------------------------
(* Intersections *)

Abs(x) == IF x < 0 THEN -x ELSE x
Square(x) == x * x
Root(q) == CHOOSE m \in 0 .. q : Square(m) <= q /\ q < Square(m + 1)

(* Half the chord that a ray at squared distance r2 - q cuts out. *)
HalfChord(q) ==
  Quarter * Root(q) + IF Square(Root(q)) = q THEN 0 ELSE Quarter \div 2

(* from_lua: where a rectangle given by psi is, on a mesh of nx points.    *)
YzRect(nx, psi, normal) ==
  [kind |-> "yz_rect", normal |-> normal,
   x |-> IF normal > 0 THEN Cell - psi ELSE Cell * (nx - 1) - (Cell - psi)]

(* The discriminant of a sphere and the ray through pt along d. *)
Discriminant(s, d, pt) ==
  s.r2 - Square(4 * pt[Slow(d)] - s.c[Slow(d)]) - Square(4 * pt[Fast(d)] - s.c[Fast(d)])

(* The candidates of a shape's hit, in the order it tries them.  A ray in  *)
(* the plane of a rectangle divides zero by zero.                          *)
Candidates(s, d, pt) ==
  LET q    == Discriminant(s, d, pt)
      t(x) == x + cfg.err[d]
  IN
  CASE s.kind = "sphere" /\ q > 0 ->
         <<[t |-> t(Quarter * s.c[d] - HalfChord(q)), outside |-> TRUE],
           [t |-> t(Quarter * s.c[d] + HalfChord(q)), outside |-> FALSE]>>
    [] s.kind = "yz_rect" /\ d = 0 ->
         <<[t |-> s.x, outside |-> s.normal < 0]>>
    [] s.kind = "yz_rect" /\ d # 0 /\ s.x = Cell * pt[0] ->
         <<[t |-> NaN, outside |-> FALSE]>>
    [] OTHER -> <<>>

Less(x, y) == x # NaN /\ y # NaN /\ x < y

(* sphere::hit takes what is strictly between the limits, rect::hit        *)
(* leaves out what is strictly outside them.                               *)
Within(s, t, lo, hi) ==
  IF s.kind = "sphere" THEN Less(lo, t) /\ Less(t, hi)
                       ELSE ~Less(t, lo) /\ ~Less(hi, t)

(* What shape i answers: its first candidate between the limits, if any. *)
HitOf(i, d, pt, lo, hi) ==
  LET tried  == Candidates(cfg.shapes[i], d, pt)
      within == {x \in DOMAIN tried : Within(cfg.shapes[i], tried[x].t, lo, hi)}
  IN  {[t |-> tried[x].t, outside |-> tried[x].outside, shape |-> i] :
         x \in {y \in within : \A z \in within : y <= z}}

(* Fault: the limit is not lowered. *)
ClosestHit_LastShape(d, pt, lo, hi) ==
  LET try(best, i) ==
        LET h == HitOf(i, d, pt, lo, hi) IN IF h = {} THEN best ELSE h
  IN  FoldLeft(try, {}, [i \in DOMAIN cfg.shapes |-> i])

(* closest_hit: the limit is lowered to the best hit so far. *)
ClosestHit(d, pt, lo, hi) ==
  LET limit(best) == IF best = {} THEN hi ELSE (CHOOSE b \in best : TRUE).t
      found[i \in 0 .. Len(cfg.shapes)] ==   \* after the first i shapes
        IF i = 0 THEN {}
        ELSE LET h == HitOf(i, d, pt, lo, limit(found[i - 1]))
             IN  IF h = {} THEN found[i - 1] ELSE h
  IN  found[Len(cfg.shapes)]

(* Fault: always truncate. *)
CellOf_Truncate(t) == t \div Cell

(* The cell a distance falls in; one within SnapTol of a grid point counts *)
(* as on it.                                                               *)
CellOf(t) ==
  LET nearest == (t + Cell \div 2) \div Cell
  IN  IF Abs(t - nearest * Cell) <= SnapTol THEN nearest ELSE t \div Cell

Clamp(x, lo, hi) == IF x < lo THEN lo ELSE IF x > hi THEN hi ELSE x

(* What is recorded of a hit: the solid point next to it and the distance  *)
(* psi of the fluid point on its other side, kept off 0 and 1.             *)
Intersection(d, r, h) ==
  LET off == IF h.outside THEN -1 ELSE 1
      at  == IF h.t = NaN THEN NaN ELSE CellOf(h.t) + IF h.outside THEN 1 ELSE 0
  IN
  [ray |-> r, t |-> h.t, outside |-> h.outside, shape |-> h.shape, at |-> at,
   psi |-> IF h.t = NaN THEN NaN
           ELSE Clamp(off * (Cell * (at + off) - h.t), SnapTol, Cell - SnapTol)]

(* Fault: the search goes on from the hit itself. *)
NextAfter_Same(t, hi) == t

NextAfter(t, hi) == IF Less(t, hi) THEN t + 1 ELSE t

Length(d) == Cell * (n[d] - 1)

-----------------------------------------------------------------------------
(* Lines *)

HitsOn(d, r) ==
  FlattenSeq([i \in DOMAIN R[d] |-> IF R[d][i].ray = r THEN <<i>> ELSE <<>>])

Wall == 0          \* a boundary that is no object; objects are indices of R
Nobody == -1       \* an empty optional

(* left_boundary of init_line before the j-th intersection of a ray.       *)
Left(d, h, j) ==
  IF j = 1 THEN Wall
  ELSE IF R[d][h[j - 1]].outside THEN Nobody ELSE h[j - 1]

Boundary(d, object, wall) ==
  [at |-> IF object = Wall \/ object = Nobody THEN wall ELSE R[d][object].at,
   object |-> object]

(* The pieces of a ray: one is closed by each entry, and the last one by   *)
(* the wall unless an entry was the last intersection.                     *)
Pieces(d, r) ==
  LET h == HitsOn(d, r)
      closed(j) == IF j > Len(h) THEN Left(d, h, j) # Nobody ELSE R[d][h[j]].outside
      ends == FlattenSeq([j \in 1 .. Len(h) + 1 |-> IF closed(j) THEN <<j>> ELSE <<>>])
      end(j) == IF j > Len(h) THEN Wall ELSE h[j]
  IN  [i \in DOMAIN ends |->
         [ray |-> r,
          start |-> Boundary(d, Left(d, h, ends[i]), 0),
          end   |-> Boundary(d, end(ends[i]), n[d] - 1)]]

LinesOf(d) ==
  IF n[d] = 1 THEN <<>> ELSE FlattenSeq([r \in 1 .. Rays(d) |-> Pieces(d, r - 1)])

(* Flat indices [first, last) of the fluid points of a piece. *)
Slice(d, l) ==
  <<Flat(At(d, l.ray, l.start.at)) + IF l.start.object = Wall THEN 0 ELSE 1,
    Flat(At(d, l.ray, l.end.at)) + IF l.end.object = Wall THEN 1 ELSE 0>>

(* init_slices: a piece that begins where the one before ended extends its *)
(* slice.                                                                  *)
Slices(d) ==
  LET s(i) == Slice(d, lines[d][i])
      begins == FlattenSeq([i \in DOMAIN lines[d] |->
                              IF i = 1 \/ s(i - 1)[2] # s(i)[1] THEN <<i>> ELSE <<>>])
      last(j) == IF j = Len(begins) THEN Len(lines[d]) ELSE begins[j + 1] - 1
  IN  [j \in DOMAIN begins |-> <<s(begins[j])[1], s(last(j))[2]>>]

Gather(slices) ==
  FlattenSeq([i \in DOMAIN slices |->
                [j \in 1 .. slices[i][2] - slices[i][1] |-> slices[i][1] + j - 1]])

HighestDir == IF n[2] > 1 THEN 2 ELSE IF n[1] > 1 THEN 1 ELSE 0

-----------------------------------------------------------------------------
(* Solid points *)

(* append_solid_points, a ray's points from first to last. *)
Segment(d, r, first, last) == {At(d, r, i) : i \in first .. last}

(* Fault: nothing is solid behind the last entry of a line. *)
SolidAt_NoTail(d, i) ==
  LET m == R[d][i]
      same == i > 1 /\ R[d][i - 1].ray = m.ray
  IN  IF m.outside THEN {} ELSE Segment(d, m.ray, IF same THEN R[d][i - 1].at ELSE 0, m.at)

(* init_solid, one intersection.  The very first one, if it is an exit,    *)
(* is taken to be on the line through the origin.                          *)
SolidAt(d, i) ==
  LET m == R[d][i]
      same(j) == j \in DOMAIN R[d] /\ R[d][j].ray = m.ray
  IN
  CASE m.outside /\ ~same(i + 1) -> Segment(d, m.ray, m.at, n[d] - 1)
    [] m.outside /\ same(i + 1)  -> {}
    [] ~m.outside /\ i = 1       -> Segment(d, 0, 0, m.at)
    [] ~m.outside /\ i > 1 /\ same(i - 1)  -> Segment(d, m.ray, R[d][i - 1].at, m.at)
    [] ~m.outside /\ i > 1 /\ ~same(i - 1) -> Segment(d, m.ray, 0, m.at)

SolidOf(d) == UNION {SolidAt(d, i) : i \in DOMAIN R[d]}

SolidAssertionFails(d) ==
  R[d] # <<>> /\ ~R[d][1].outside /\ R[d][1].ray # 0

-----------------------------------------------------------------------------
(* interp_line: the piece of the line along d through pt.  Intersections   *)
(* are scanned in order; the normal of an entry points against the ray.    *)

(* Fault: any later entry replaces the end. *)
Narrow_LastEntry(d, pt, b, i) ==
  LET m == R[d][i] IN
  IF m.ray # RayOf(d, pt) THEN b
  ELSE IF ~m.outside /\ b.start.at <= m.at /\ m.at <= pt[d]
  THEN [b EXCEPT !.start = [at |-> m.at, object |-> i]]
  ELSE IF m.outside /\ pt[d] <= m.at
  THEN [b EXCEPT !.end = [at |-> m.at, object |-> i]]
  ELSE b

(* The i-th intersection brings a bound of the piece closer to pt. *)
Narrow(d, pt, b, i) ==
  LET m == R[d][i] IN
  IF m.ray # RayOf(d, pt) THEN b
  ELSE IF ~m.outside /\ b.start.at <= m.at /\ m.at <= pt[d]
  THEN [b EXCEPT !.start = [at |-> m.at, object |-> i]]
  ELSE IF m.outside /\ pt[d] <= m.at /\ m.at <= b.end.at
  THEN [b EXCEPT !.end = [at |-> m.at, object |-> i]]
  ELSE b

InterpLine(d, pt) ==
  LET narrowed[i \in 0 .. Len(R[d])] ==   \* after the first i intersections
        IF i = 0 THEN [ray |-> RayOf(d, pt), start |-> [at |-> 0, object |-> Wall],
                       end |-> [at |-> n[d] - 1, object |-> Wall]]
        ELSE Narrow(d, pt, narrowed[i - 1], i)
  IN  narrowed[Len(R[d])]

-----------------------------------------------------------------------------
Init ==
  /\ cfg \in Configs
  /\ phase = "cast" /\ dir = 0 /\ k = 0 /\ tmin = 0
  /\ R = [d \in Dirs |-> <<>>] /\ S = [d \in Dirs |-> {}]
  /\ lines = [d \in Dirs |-> <<>>] /\ fluid = <<>> /\ failed = {}

Found == ClosestHit(dir, Origin(dir, k), tmin, Length(dir))

OnRay == Cardinality({i \in DOMAIN R[dir] : R[dir][i].ray = k})

(* One trip of the while loop of object_geometry's init_line.  Of a ray    *)
(* whose loop goes on for ever, MaxHits intersections are kept.            *)
Hit ==
  /\ phase = "cast"
  /\ \E h \in Found :
       /\ R' = IF OnRay < MaxHits THEN [R EXCEPT ![dir] = Append(@, Intersection(dir, k, h))]
               ELSE R
       /\ tmin' = NextAfter(h.t, Length(dir))
  /\ UNCHANGED <<cfg, phase, dir, k, S, lines, fluid, failed>>

(* The next ray, of the next direction after the last one. *)
NextRay ==
  /\ phase = "cast" /\ Found = {}
  /\ tmin' = 0
  /\ IF k + 1 < Rays(dir) THEN k' = k + 1 /\ UNCHANGED <<dir, phase>>
     ELSE IF dir < 2 THEN k' = 0 /\ dir' = dir + 1 /\ UNCHANGED phase
     ELSE phase' = "solid" /\ UNCHANGED <<k, dir>>
  /\ UNCHANGED <<cfg, R, S, lines, fluid, failed>>

InitSolid ==
  /\ phase = "solid"
  /\ S' = [d \in Dirs |-> SolidOf(d)]
  /\ failed' = IF \E d \in Dirs : SolidAssertionFails(d)
               THEN failed \cup {"solid line"} ELSE failed
  /\ phase' = "lines"
  /\ UNCHANGED <<cfg, dir, k, tmin, R, lines, fluid>>

InitLines ==
  /\ phase = "lines"
  /\ lines' = [d \in Dirs |-> LinesOf(d)]
  /\ failed' = IF \E d \in Dirs : \E i \in DOMAIN lines'[d] :
                    lines'[d][i].start.object = Nobody
               THEN failed \cup {"left boundary"} ELSE failed
  /\ phase' = "fluid"
  /\ UNCHANGED <<cfg, dir, k, tmin, R, S, fluid>>

InitFluid ==
  /\ phase = "fluid"
  /\ fluid' = Gather(Slices(HighestDir))
  /\ phase' = "done"
  /\ UNCHANGED <<cfg, dir, k, tmin, R, S, lines, failed>>

Built == phase = "done" /\ UNCHANGED vars

Next == Hit \/ NextRay \/ InitSolid \/ InitLines \/ InitFluid \/ Built

Spec == Init /\ [][Next]_vars
LiveSpec == Spec /\ WF_vars(Next)

-----------------------------------------------------------------------------
(* What the shapes mean. *)
InsideOf(s, pt) ==
  IF s.kind = "sphere"
  THEN Square(4 * pt[0] - s.c[0]) + Square(4 * pt[1] - s.c[1]) + Square(4 * pt[2] - s.c[2]) < s.r2
  ELSE s.normal * (Cell * pt[0] - s.x) < 0
SurfaceOf(s, pt) ==
  IF s.kind = "sphere"
  THEN Square(4 * pt[0] - s.c[0]) + Square(4 * pt[1] - s.c[1]) + Square(4 * pt[2] - s.c[2]) = s.r2
  ELSE Cell * pt[0] = s.x
Inside(pt) == \E i \in DOMAIN cfg.shapes : InsideOf(cfg.shapes[i], pt)
OnSurface(pt) == \E i \in DOMAIN cfg.shapes : SurfaceOf(cfg.shapes[i], pt)

(* The fluid points of a piece, by their coordinate along it. *)
Fluid(l) == (l.start.at + IF l.start.object = Wall THEN 0 ELSE 1)
            .. (l.end.at - IF l.end.object = Wall THEN 0 ELSE 1)
PiecesWith(d, pt) ==
  {i \in DOMAIN lines[d] : lines[d][i].ray = RayOf(d, pt) /\ pt[d] \in Fluid(lines[d][i])}

(* Nothing is decided by rounding alone: rectangles stand off the grid by  *)
(* more than the tolerance, and where distances are rounded down no sphere *)
(* meets the last point of a ray: its cell, or the fluid point taken, would *)
(* be beyond the domain.                                                   *)
Regular ==
  \A i \in DOMAIN cfg.shapes :
    LET s == cfg.shapes[i] IN
    /\ s.kind = "yz_rect" => SnapTol < s.x % Cell /\ s.x % Cell < Cell - SnapTol
    /\ s.kind = "sphere" =>
         \A d \in Active : cfg.err[d] < 0 => \A r \in 0 .. Rays(d) - 1 :
           LET tried == Candidates(s, d, Origin(d, r)) IN
           \A x \in DOMAIN tried : tried[x].t - cfg.err[d] # Length(d)

(* On a regular mesh, the search along a ray finds successive              *)
(* intersections, each strictly beyond the one before it.  An intersection *)
(* is recorded in the cell of its exact position, whatever its rounding;   *)
(* the neighbour taken as fluid is not inside the shape that was hit, and  *)
(* psi is its distance from the intersection up to the tolerance.          *)
HitsBracketed ==
  Regular =>
    \A d \in Active : \A i \in DOMAIN R[d] :
      LET m == R[d][i]
          near == IF m.outside THEN m.at - 1 ELSE m.at + 1
          exact == m.t - IF cfg.shapes[m.shape].kind = "sphere" THEN cfg.err[d] ELSE 0
      IN  /\ i > 1 /\ R[d][i - 1].ray = m.ray => Less(R[d][i - 1].t, m.t)
          /\ m.at = (exact \div Cell) + IF m.outside THEN 1 ELSE 0
          /\ {m.at, near} \subseteq 0 .. n[d] - 1
          /\ ~InsideOf(cfg.shapes[m.shape], At(d, m.ray, near))
          /\ Abs(Abs(Cell * near - m.t) - m.psi) <= 2 * SnapTol
          /\ SnapTol <= m.psi /\ m.psi <= Cell - SnapTol

(* The pieces along each active direction divide the fluid: a point        *)
(* outside all shapes is on one piece, a point inside one on none; a point *)
(* on a surface is on at most one.  No piece is closed without having been *)
(* started (mesh.cpp:61).                                                  *)
PiecesDivideFluid ==
  /\ "left boundary" \notin failed
  /\ phase \in {"fluid", "done"} =>
       \A d \in Active : \A pt \in Points :
         LET c == Cardinality(PiecesWith(d, pt)) IN
         IF OnSurface(pt) THEN c <= 1 ELSE c = IF Inside(pt) THEN 0 ELSE 1

(* The fluid selection lists the points outside all shapes, each once and  *)
(* in increasing order; the solid marks are on exactly the points inside,  *)
(* unless the assertion of init_solid fails.                               *)
SelectionsMatchShapes ==
  /\ phase = "done" =>
       /\ \A i \in 2 .. Len(fluid) : fluid[i - 1] < fluid[i]
       /\ \A pt \in Points : ~OnSurface(pt) =>
            (Flat(pt) \in {fluid[i] : i \in DOMAIN fluid}) = ~Inside(pt)
  /\ phase \in {"lines", "fluid", "done"} /\ failed = {} =>
       \A d \in Active : \A pt \in Points : ~OnSurface(pt) => (pt \in S[d]) = Inside(pt)

(* interp_line finds the piece that init_line made for a fluid point, with *)
(* the same objects at its ends, unless the point is the solid point of an *)
(* intersection (mesh.cpp:202).                                            *)
InterpFindsPiece ==
  phase \in {"fluid", "done"} =>
    \A d \in Active : \A pt \in Points : \A i \in PiecesWith(d, pt) :
      (\A j \in DOMAIN R[d] : ~(R[d][j].ray = RayOf(d, pt) /\ R[d][j].at = pt[d]))
        => InterpLine(d, pt) = lines[d][i]

(* Building the mesh ends. *)
BuildEnds == <>(phase = "done")
=============================================================================
