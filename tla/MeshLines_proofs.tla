-------------------------- MODULE MeshLines_proofs --------------------------
(***************************************************************************)
(* Proofs about the mesh: the intersections recorded along its rays, the   *)
(* pieces of lines they make, the selections, and interp_line.  Induction  *)
(* over data goes by the least number of a set, which a library theorem    *)
(* gives.                                                                  *)
(***************************************************************************)
EXTENDS MeshLines, WellFoundedInduction, SequenceTheorems, FiniteSetTheorems, TLAPS

(* A set of naturals that is not empty has a least element. *)
LEMMA LeastNat ==
  ASSUME NEW T, T \subseteq Nat, T # {}
  PROVE  \E x \in T : \A y \in T : x <= y
<1> DEFINE Below == {p \in Nat \X Nat : p[1] < p[2]}
<1>1. IsWellFoundedOn(Below, Nat)
  <2>1. Below = OpToRel(<, Nat)
    BY DEF OpToRel
  <2> QED
    BY <2>1, NatLessThanWellFounded
<1> HIDE DEF Below
<1>2. PICK x \in T : \A y \in T : <<y, x>> \notin Below
  BY <1>1, WFMin
<1>3. ASSUME NEW y \in T PROVE x <= y
  <2>1. <<y, x>> \notin Below
    BY <1>2
  <2>2. <<y, x>> \in Nat \X Nat /\ <<y, x>>[1] = y /\ <<y, x>>[2] = x
    BY <1>2
  <2>3. ~(y < x)
    BY <2>1, <2>2 DEF Below
  <2> QED
    BY <1>2, <2>3
<1> QED
  BY <1>2, <1>3

(* Induction: a set with 0 and with every successor up to m has all        *)
(* numbers up to m.                                                        *)
LEMMA Induction ==
  ASSUME NEW m \in Nat, NEW T, 0 \in T, \A i \in 0 .. m - 1 : i \in T => i + 1 \in T
  PROVE  0 .. m \subseteq T
<1> SUFFICES ASSUME ~(0 .. m \subseteq T) PROVE FALSE
  OBVIOUS
<1> DEFINE Rest == (0 .. m) \ T
<1>0. Rest \subseteq Nat /\ Rest # {}
  OBVIOUS
<1>1. PICK x \in Rest : \A y \in Rest : x <= y
  <2> HIDE DEF Rest
  <2> QED
    BY <1>0, LeastNat
<1>2. x # 0 /\ x - 1 \in 0 .. m - 1 /\ x - 1 \in T
  BY <1>1
<1> QED
  BY <1>1, <1>2

-----------------------------------------------------------------------------
(* Arithmetic *)

(* Squares grow. *)
LEMMA SquareGrows ==
  ASSUME NEW x \in Int, NEW y \in Int, 0 <= x, x <= y
  PROVE  Square(x) <= Square(y)
BY DEF Square

(* A number has an integer root. *)
LEMMA RootIs ==
  ASSUME NEW q \in Nat
  PROVE  Root(q) \in Nat /\ Square(Root(q)) <= q /\ q < Square(Root(q) + 1)
<1> DEFINE Beyond == {m \in Nat : q < Square(m + 1)}
<1>1. q \in Beyond
  BY DEF Square
<1>2. PICK m \in Beyond : \A y \in Beyond : m <= y
  <2> HIDE DEF Beyond
  <2>1. Beyond \subseteq Nat /\ Beyond # {}
    BY <1>1 DEF Beyond
  <2> QED
    BY <2>1, LeastNat
<1>3. m \in Nat /\ q < Square(m + 1)
  BY <1>2
<1>4. Square(m) <= q
  <2>1. CASE m = 0
    BY <2>1 DEF Square
  <2>2. CASE m # 0
    <3>1. m - 1 \in Nat /\ m - 1 \notin Beyond /\ (m - 1) + 1 = m
      BY <1>2, <1>3, <2>2
    <3>2. ~(q < Square(m))
      BY <3>1
    <3> QED
      BY <1>3, <3>2 DEF Square
  <2> QED
    BY <2>1, <2>2
<1>5. m <= q
  <2>1. m <= Square(m)
    BY <1>3 DEF Square
  <2> QED
    BY <1>3, <1>4, <2>1 DEF Square
<1>6. m \in 0 .. q
  BY <1>3, <1>5
<1> QED
  BY <1>3, <1>4, <1>6 DEF Root

(* Half a chord is a multiple of 8, and no root of a smaller number. *)
LEMMA ChordIs ==
  ASSUME NEW q \in Nat \ {0}
  PROVE  /\ HalfChord(q) \in Nat /\ HalfChord(q) % 8 = 0
         /\ \A x \in Int : Quarter * x >= HalfChord(q) => Square(x) >= q
<1> DEFINE m == Root(q)
<1>1. m \in Nat /\ Square(m) <= q /\ q < Square(m + 1)
  BY RootIs
<1> HIDE DEF m
<1>2. HalfChord(q) = 16 * m + IF Square(m) = q THEN 0 ELSE 8
  BY DEF HalfChord, Quarter, m
<1>3. ASSUME NEW x \in Int, Quarter * x >= HalfChord(q) PROVE Square(x) >= q
  <2>1. CASE Square(m) = q
    <3>1. x >= m
      BY <1>1, <1>2, <1>3, <2>1 DEF Quarter
    <3> QED
      BY <1>1, <2>1, <3>1, SquareGrows
  <2>2. CASE Square(m) # q
    <3>1. x >= m + 1
      BY <1>1, <1>2, <1>3, <2>2 DEF Quarter
    <3>2. Square(m + 1) <= Square(x)
      BY <1>1, <3>1, SquareGrows
    <3> QED
      BY <1>1, <3>2 DEF Square
  <2> QED
    BY <2>1, <2>2
<1> QED
  BY <1>1, <1>2, <1>3

(* The cell of a distance that the computation has off by its rounding. *)
LEMMA CellOfRounded ==
  ASSUME NEW e \in Int, e % 8 = 0, NEW err \in {-SnapTol, 0, SnapTol}
  PROVE  CellOf(e + err) = e \div Cell
BY DEF CellOf, Abs, Cell, SnapTol

(* The cell of a distance off the grid. *)
LEMMA CellOfOffGrid ==
  ASSUME NEW t \in Int, SnapTol < t % Cell, t % Cell < Cell - SnapTol
  PROVE  CellOf(t) = t \div Cell
BY DEF CellOf, Abs, Cell, SnapTol

-----------------------------------------------------------------------------
(* Shapes and their candidates *)

(* What is assumed of a mesh. *)
LEMMA ConfigFacts ==
  ASSUME cfg \in Configs
  PROVE  /\ n \in [Dirs -> Nat \ {0}]
         /\ DOMAIN cfg.shapes = 1 .. Len(cfg.shapes) /\ Len(cfg.shapes) \in Nat
         /\ cfg.err \in [Dirs -> {-SnapTol, 0, SnapTol}]
         /\ \A i \in 1 .. Len(cfg.shapes) :
              \/ cfg.shapes[i].kind = "yz_rect" /\ cfg.shapes[i].x \in Nat
                 /\ cfg.shapes[i].normal \in {-1, 1}
              \/ cfg.shapes[i].kind = "sphere" /\ cfg.shapes[i].r2 \in Nat \ {0}
                 /\ cfg.shapes[i].c \in [Dirs -> Int]
BY MeshLinesAssumption DEF n

(* The two directions across a third one. *)
LEMMA Across ==
  ASSUME NEW d \in Dirs
  PROVE  /\ Slow(d) \in Dirs /\ Fast(d) \in Dirs
         /\ Dirs = {Slow(d), Fast(d), d}
         /\ Slow(d) # d /\ Fast(d) # d /\ Slow(d) # Fast(d)
BY DEF Dirs, Slow, Fast

(* The first point of a ray, and the others. *)
LEMMA OriginIs ==
  ASSUME cfg \in Configs, NEW d \in Dirs, NEW r \in Int
  PROVE  /\ Origin(d, r) \in [Dirs -> Int]
         /\ \A i \in Int : At(d, r, i) \in [Dirs -> Int] /\ At(d, r, i)[d] = i
         /\ \A i \in Int : \A e \in Dirs \ {d} : At(d, r, i)[e] = Origin(d, r)[e]
<1>1. n[Fast(d)] \in Nat \ {0}
  BY Across, ConfigFacts
<1>2. r \div n[Fast(d)] \in Int /\ r % n[Fast(d)] \in Int
  BY <1>1
<1>3. Origin(d, r) \in [Dirs -> Int]
  BY <1>2, Across DEF Origin
<1> QED
  BY <1>3 DEF At

(* The two candidates of a sphere. *)
SphereCandidate(s, d, pt, c) ==
  LET q == Discriminant(s, d, pt)
      middle == (Quarter * s.c[d]) + cfg.err[d]
  IN  /\ q \in Nat \ {0}
      /\ \/ c.t = middle - HalfChord(q) /\ c.outside = TRUE
         \/ c.t = middle + HalfChord(q) /\ c.outside = FALSE

(* What the candidates of a sphere are. *)
LEMMA SphereCandidates ==
  ASSUME cfg \in Configs, NEW s, s.kind = "sphere", s.r2 \in Nat \ {0}, s.c \in [Dirs -> Int],
         NEW d \in Dirs, NEW pt \in [Dirs -> Int], NEW x \in DOMAIN Candidates(s, d, pt)
  PROVE  /\ SphereCandidate(s, d, pt, Candidates(s, d, pt)[x])
         /\ x \in Nat
<1> DEFINE q == Discriminant(s, d, pt)
<1>1. q \in Int
  BY Across DEF Discriminant, Square
<1>2. s.c[d] \in Int /\ cfg.err[d] \in Int
  <2>1. cfg.err \in [Dirs -> {-SnapTol, 0, SnapTol}]
    BY ConfigFacts
  <2>2. cfg.err[d] \in {-SnapTol, 0, SnapTol}
    BY <2>1
  <2> QED
    BY <2>2 DEF SnapTol
<1> HIDE DEF q
<1>3. q > 0
  <2> SUFFICES ASSUME ~(q > 0) PROVE FALSE
    OBVIOUS
  <2>1. Candidates(s, d, pt) = <<>>
    BY DEF Candidates, q
  <2> QED
    BY <2>1
<1>4. q \in Nat \ {0} /\ HalfChord(q) \in Nat
  BY <1>1, <1>3, ChordIs
<1>5. Candidates(s, d, pt) =
        <<[t |-> (Quarter * s.c[d] - HalfChord(q)) + cfg.err[d], outside |-> TRUE],
          [t |-> (Quarter * s.c[d] + HalfChord(q)) + cfg.err[d], outside |-> FALSE]>>
  BY <1>3 DEF Candidates, q
<1>6. x \in 1 .. 2
  BY <1>5
<1> QED
  BY <1>2, <1>4, <1>5, <1>6 DEF SphereCandidate, q, Quarter

(* What the candidates of a rectangle are. *)
LEMMA RectCandidates ==
  ASSUME cfg \in Configs, NEW s, s.kind = "yz_rect", s.x \in Nat, s.normal \in {-1, 1},
         NEW d \in Dirs, NEW pt \in [Dirs -> Int], NEW x \in DOMAIN Candidates(s, d, pt)
  PROVE  /\ x \in Nat
         /\ Candidates(s, d, pt)[x] \in {[t |-> s.x, outside |-> s.normal < 0],
                                         [t |-> NaN, outside |-> FALSE]}
         /\ s.x % Cell # 0 =>
              d = 0 /\ Candidates(s, d, pt)[x] = [t |-> s.x, outside |-> s.normal < 0]
<1>1. CASE d = 0
  <2>1. Candidates(s, d, pt) = <<[t |-> s.x, outside |-> s.normal < 0]>>
    BY <1>1 DEF Candidates
  <2> QED
    BY <1>1, <2>1
<1>2. CASE d # 0 /\ s.x = Cell * pt[0]
  <2>1. Candidates(s, d, pt) = <<[t |-> NaN, outside |-> FALSE]>>
    BY <1>2 DEF Candidates
  <2>2. pt[0] \in Int
    BY DEF Dirs
  <2>3. s.x % Cell = 0
    BY <1>2, <2>2 DEF Cell
  <2>4. x = 1
    BY <2>1
  <2> QED
    BY <2>1, <2>3, <2>4
<1>3. CASE d # 0 /\ s.x # Cell * pt[0]
  <2>1. Candidates(s, d, pt) = <<>>
    BY <1>3 DEF Candidates
  <2> QED
    BY <2>1
<1> QED
  BY <1>1, <1>2, <1>3

(* On a regular mesh every candidate has a distance. *)
LEMMA RegularCandidates ==
  ASSUME cfg \in Configs, Regular, NEW i \in DOMAIN cfg.shapes,
         NEW d \in Dirs, NEW pt \in [Dirs -> Int],
         NEW x \in DOMAIN Candidates(cfg.shapes[i], d, pt)
  PROVE  Candidates(cfg.shapes[i], d, pt)[x].t # NaN
<1> DEFINE s == cfg.shapes[i]
           c == Candidates(cfg.shapes[i], d, pt)[x]
<1>0. cfg.err \in [Dirs -> {-SnapTol, 0, SnapTol}] /\ i \in 1 .. Len(cfg.shapes)
  BY ConfigFacts
<1>1. CASE s.kind = "sphere" /\ s.r2 \in Nat \ {0} /\ s.c \in [Dirs -> Int]
  <2>1. SphereCandidate(s, d, pt, c)
    BY <1>1, SphereCandidates
  <2>2. cfg.err[d] \in {-2, 0, 2} /\ s.c[d] \in Int
    BY <1>0, <1>1 DEF SnapTol
  <2> DEFINE half == HalfChord(Discriminant(s, d, pt))
  <2>3. half \in Nat /\ half % 8 = 0
    BY <2>1, ChordIs DEF SphereCandidate
  <2> HIDE DEF half
  <2>4. \/ c.t = ((16 * s.c[d]) + cfg.err[d]) - half
        \/ c.t = ((16 * s.c[d]) + cfg.err[d]) + half
    BY <2>1 DEF SphereCandidate, half, Quarter
  <2> HIDE DEF c, s
  <2>5. c.t # -1
    BY <2>2, <2>3, <2>4
  <2> QED
    BY <2>5 DEF NaN, c, s
<1>2. CASE s.kind = "yz_rect" /\ s.x \in Nat /\ s.normal \in {-1, 1}
  <2>1. SnapTol < s.x % Cell
    BY <1>0, <1>2 DEF Regular
  <2>2. s.x % Cell # 0
    BY <2>1 DEF SnapTol
  <2>3. c = [t |-> s.x, outside |-> s.normal < 0]
    BY <1>2, <2>2, RectCandidates
  <2>4. c.t = s.x
    BY <2>3
  <2> QED
    BY <1>2, <2>4 DEF NaN
<1> QED
  BY <1>0, <1>1, <1>2, ConfigFacts

-----------------------------------------------------------------------------
(* The closest hit *)

(* A hit is a candidate of its shape, on a regular mesh one within the     *)
(* limits of the search.                                                   *)
CandidateOf(h, d, pt) ==
  /\ h.shape \in DOMAIN cfg.shapes
  /\ LET tried == Candidates(cfg.shapes[h.shape], d, pt) IN
     \E x \in DOMAIN tried :
       h = [t |-> tried[x].t, outside |-> tried[x].outside, shape |-> h.shape]

(* One between two distances, where rounding does not decide.             *)
Hitting(h, d, pt, lo, hi) ==
  /\ CandidateOf(h, d, pt)
  /\ Regular => Within(cfg.shapes[h.shape], h.t, lo, hi)

(* The limit that closest_hit has for the next shape. *)
Limit(best, hi) == IF best = {} THEN hi ELSE (CHOOSE b \in best : TRUE).t

(* What a shape answers is a hit. *)
LEMMA HitOfIs ==
  ASSUME NEW i \in DOMAIN cfg.shapes, NEW d, NEW pt, NEW lo, NEW hi, NEW h \in HitOf(i, d, pt, lo, hi)
  PROVE  h.shape = i /\ CandidateOf(h, d, pt) /\ Within(cfg.shapes[i], h.t, lo, hi)
<1> DEFINE tried == Candidates(cfg.shapes[i], d, pt)
<1>1. PICK x \in DOMAIN tried :
             /\ Within(cfg.shapes[i], tried[x].t, lo, hi)
             /\ h = [t |-> tried[x].t, outside |-> tried[x].outside, shape |-> i]
  BY DEF HitOf
<1>2. h.shape = i /\ h.t = tried[x].t
  BY <1>1
<1>3. CandidateOf(h, d, pt)
  BY <1>1, <1>2 DEF CandidateOf
<1> QED
  BY <1>1, <1>2, <1>3

(* A hit below a lowered limit is below the limit. *)
LEMMA LoweredLimit ==
  ASSUME NEW s, NEW t \in Int, NEW t2 \in Int, NEW s2, NEW lo \in Nat, NEW hi \in Nat,
         t # NaN, t2 # NaN, Within(s2, t2, lo, hi), Within(s, t, lo, t2)
  PROVE  Within(s, t, lo, hi)
BY DEF Within, Less, NaN

(* The distance of a candidate is a number. *)
LEMMA CandidateTyped ==
  ASSUME cfg \in Configs, NEW d \in Dirs, NEW pt \in [Dirs -> Int], NEW h, CandidateOf(h, d, pt)
  PROVE  /\ h.t \in Int /\ h.outside \in BOOLEAN /\ h.shape \in Nat
         /\ Regular => h.t # NaN
<1> DEFINE s == cfg.shapes[h.shape]
           tried == Candidates(s, d, pt)
<1>0. h.shape \in 1 .. Len(cfg.shapes) /\ Len(cfg.shapes) \in Nat
      /\ cfg.err \in [Dirs -> {-SnapTol, 0, SnapTol}]
  BY ConfigFacts DEF CandidateOf
<1>1. PICK x \in DOMAIN tried :
             h = [t |-> tried[x].t, outside |-> tried[x].outside, shape |-> h.shape]
  BY DEF CandidateOf
<1>2. h.t = tried[x].t /\ h.outside = tried[x].outside
  BY <1>1
<1>5. h.t \in Int /\ h.outside \in BOOLEAN
  <2>1. CASE s.kind = "sphere" /\ s.r2 \in Nat \ {0} /\ s.c \in [Dirs -> Int]
    <3>1. SphereCandidate(s, d, pt, tried[x])
      BY <2>1, SphereCandidates
    <3>2. cfg.err[d] \in {-2, 0, 2} /\ s.c[d] \in Int
      BY <1>0, <2>1 DEF SnapTol
    <3>3. HalfChord(Discriminant(s, d, pt)) \in Nat
      BY <3>1, ChordIs DEF SphereCandidate
    <3> HIDE DEF tried, s
    <3>4. tried[x].t \in Int
      BY <3>1, <3>2, <3>3 DEF SphereCandidate, Quarter
    <3>5. tried[x].outside \in BOOLEAN
      BY <3>1, Zenon DEF SphereCandidate
    <3> QED
      BY <1>2, <3>4, <3>5, Zenon
  <2>2. CASE s.kind = "yz_rect" /\ s.x \in Nat /\ s.normal \in {-1, 1}
    <3>1. tried[x] \in {[t |-> s.x, outside |-> s.normal < 0], [t |-> NaN, outside |-> FALSE]}
      BY <2>2, RectCandidates
    <3> HIDE DEF tried, s
    <3>4. tried[x].t \in Int
      BY <2>2, <3>1 DEF NaN
    <3>2. (s.normal < 0) \in BOOLEAN
      BY <2>2
    <3>5. tried[x].outside \in BOOLEAN
      <4>1. CASE tried[x] = [t |-> s.x, outside |-> s.normal < 0]
        <5>1. PICK b \in BOOLEAN : b = (s.normal < 0)
          BY <3>2
        <5>2. tried[x] = [t |-> s.x, outside |-> b]
          BY <4>1, <5>1, Zenon
        <5> QED
          BY <5>2
      <4>2. CASE tried[x] = [t |-> NaN, outside |-> FALSE]
        BY <4>2
      <4> QED
        BY <3>1, <4>1, <4>2
    <3> QED
      BY <1>2, <3>4, <3>5, Zenon
  <2> QED
    BY <1>0, <2>1, <2>2, ConfigFacts
<1>6. Regular => h.t # NaN
  <2>1. h.shape \in DOMAIN cfg.shapes
    BY DEF CandidateOf
  <2>2. Regular => tried[x].t # NaN
    BY <2>1, RegularCandidates
  <2> QED
    BY <1>2, <2>2
<1> QED
  BY <1>0, <1>5, <1>6

(* What is found after a shape, from what was found before it. *)
Tried(best, i, d, pt, lo, hi) ==
  LET h == HitOf(i, d, pt, lo, Limit(best, hi)) IN IF h = {} THEN best ELSE h

(* The recursion of closest_hit over the first m shapes. *)
Chain(f, m, d, pt, lo, hi) ==
  f = [i \in 0 .. m |-> IF i = 0 THEN {} ELSE Tried(f[i - 1], i, d, pt, lo, hi)]

(* It has a solution. *)
LEMMA ChainExists ==
  ASSUME NEW m \in Nat, NEW d, NEW pt, NEW lo, NEW hi
  PROVE  \E f : Chain(f, m, d, pt, lo, hi)
<1> DEFINE Good == {l \in 0 .. m : \E f : Chain(f, l, d, pt, lo, hi)}
<1>1. 0 \in Good
  <2> DEFINE f == [i \in 0 .. 0 |-> {}]
  <2>1. Chain(f, 0, d, pt, lo, hi)
    BY DEF Chain
  <2> QED
    BY <2>1
<1>2. ASSUME NEW l \in 0 .. m - 1, l \in Good PROVE l + 1 \in Good
  <2>1. PICK f : Chain(f, l, d, pt, lo, hi)
    BY <1>2
  <2>2. \A i \in 0 .. l : f[i] = IF i = 0 THEN {} ELSE Tried(f[i - 1], i, d, pt, lo, hi)
    BY <2>1 DEF Chain
  <2>3. PICK new : new = Tried(f[l], l + 1, d, pt, lo, hi)
    OBVIOUS
  <2> DEFINE g == [i \in 0 .. l + 1 |-> IF i = l + 1 THEN new ELSE f[i]]
  <2>4. ASSUME NEW i \in 0 .. l + 1
        PROVE  g[i] = IF i = 0 THEN {} ELSE Tried(g[i - 1], i, d, pt, lo, hi)
    <3>1. CASE i = l + 1
      <4>1. g[i - 1] = f[l] /\ g[i] = new /\ i # 0
        BY <3>1
      <4> QED
        BY <2>3, <3>1, <4>1, Zenon
    <3>2. CASE i = 0
      <4>1. g[i] = f[i] /\ i \in 0 .. l
        BY <3>2
      <4> QED
        BY <2>2, <3>2, <4>1
    <3>3. CASE i \in 1 .. l
      <4>1. g[i] = f[i] /\ g[i - 1] = f[i - 1] /\ i \in 0 .. l /\ i # 0
        BY <3>3
      <4>2. f[i] = Tried(f[i - 1], i, d, pt, lo, hi)
        BY <2>2, <4>1
      <4> HIDE DEF g
      <4> QED
        BY <4>1, <4>2, Zenon
    <3> QED
      BY <3>1, <3>2, <3>3
  <2>5. g = [i \in 0 .. l + 1 |-> g[i]]
    OBVIOUS
  <2> HIDE DEF g
  <2>6. g = [i \in 0 .. l + 1 |-> IF i = 0 THEN {} ELSE Tried(g[i - 1], i, d, pt, lo, hi)]
    BY <2>4, <2>5, Zenon
  <2>7. Chain(g, l + 1, d, pt, lo, hi)
    BY <2>6 DEF Chain
  <2> QED
    BY <2>7
<1>3. 0 .. m \subseteq Good
  <2> HIDE DEF Good
  <2> QED
    BY <1>1, <1>2, Induction
<1> QED
  BY <1>3

(* What closest_hit returns is a hit. *)
LEMMA ClosestIs ==
  ASSUME cfg \in Configs, NEW d \in Dirs, NEW pt \in [Dirs -> Int], NEW lo, NEW hi \in Nat,
         Regular => lo \in Nat, NEW h \in ClosestHit(d, pt, lo, hi)
  PROVE  Hitting(h, d, pt, lo, hi)
<1> DEFINE m == Len(cfg.shapes)
           Solves(c) ==
             c = [i \in 0 .. m |->
                   IF i = 0 THEN {}
                   ELSE LET g == HitOf(i, d, pt, lo, IF c[i - 1] = {} THEN hi
                                                     ELSE (CHOOSE b \in c[i - 1] : TRUE).t)
                        IN  IF g = {} THEN c[i - 1] ELSE g]
           f == CHOOSE c : Solves(c)
           Good == {i \in 0 .. m : \A b \in f[i] : Hitting(b, d, pt, lo, hi)}
<1>0. m \in Nat /\ DOMAIN cfg.shapes = 1 .. m
  BY ConfigFacts
<1>1. h \in f[m]
  BY DEF ClosestHit
<1>2. Chain(f, m, d, pt, lo, hi)
  <2>1. PICK c : Chain(c, m, d, pt, lo, hi)
    BY <1>0, ChainExists
  <2> HIDE DEF m
  <2>2. Solves(c)
    BY <2>1 DEF Chain, Tried, Limit
  <2>3. Solves(f)
    <3> HIDE DEF Solves
    <3> QED
      BY <2>2, Zenon
  <2> HIDE DEF f
  <2> QED
    BY <2>3 DEF Chain, Tried, Limit
<1> HIDE DEF f
<1>3. \A i \in 0 .. m : f[i] = IF i = 0 THEN {} ELSE Tried(f[i - 1], i, d, pt, lo, hi)
  BY <1>2 DEF Chain
<1>4. 0 \in Good
  BY <1>0, <1>3
<1>5. ASSUME NEW i \in 0 .. m - 1, i \in Good PROVE i + 1 \in Good
  <2> DEFINE best == f[i]
             answer == HitOf(i + 1, d, pt, lo, Limit(best, hi))
  <2>1. f[i + 1] = IF answer = {} THEN best ELSE answer
    <3>1. i + 1 \in 0 .. m /\ i + 1 # 0 /\ (i + 1) - 1 = i
      BY <1>0
    <3> QED
      BY <1>3, <3>1 DEF Tried
  <2>2. \A b \in best : Hitting(b, d, pt, lo, hi)
    BY <1>5
  <2>3. ASSUME NEW b \in answer PROVE Hitting(b, d, pt, lo, hi)
    <3>1. i + 1 \in DOMAIN cfg.shapes
      BY <1>0
    <3>2. b.shape = i + 1 /\ CandidateOf(b, d, pt)
          /\ Within(cfg.shapes[i + 1], b.t, lo, Limit(best, hi))
      BY <3>1, HitOfIs
    <3>3. ASSUME Regular PROVE Within(cfg.shapes[i + 1], b.t, lo, hi)
      <4>1. CASE best = {}
        BY <3>2, <4>1 DEF Limit
      <4>2. CASE best # {}
        <5>1. PICK c \in best : Limit(best, hi) = c.t
          BY <4>2 DEF Limit
        <5>2. Hitting(c, d, pt, lo, hi)
          BY <2>2
        <5>3. c.t \in Int /\ c.t # NaN /\ b.t \in Int /\ b.t # NaN
          BY <3>2, <3>3, <5>2, CandidateTyped DEF Hitting
        <5>4. Within(cfg.shapes[c.shape], c.t, lo, hi)
          BY <3>3, <5>2 DEF Hitting
        <5> QED
          BY <3>2, <3>3, <5>1, <5>3, <5>4, LoweredLimit
      <4> QED
        BY <4>1, <4>2
    <3> QED
      BY <3>2, <3>3 DEF Hitting
  <2> HIDE DEF answer, best
  <2>4. \A b \in f[i + 1] : Hitting(b, d, pt, lo, hi)
    BY <2>1, <2>2, <2>3
  <2> QED
    BY <1>0, <2>4
<1>6. 0 .. m \subseteq Good
  <2> HIDE DEF Good, m
  <2> QED
    BY <1>0, <1>4, <1>5, Induction
<1> QED
  BY <1>0, <1>1, <1>6

-----------------------------------------------------------------------------
(* What is recorded *)

(* What HitsBracketed says of an intersection alone. *)
Bracketed(d, m) ==
  LET near == IF m.outside THEN m.at - 1 ELSE m.at + 1
      exact == m.t - IF cfg.shapes[m.shape].kind = "sphere" THEN cfg.err[d] ELSE 0
  IN  /\ m.at = (exact \div Cell) + IF m.outside THEN 1 ELSE 0
      /\ {m.at, near} \subseteq 0 .. n[d] - 1
      /\ ~InsideOf(cfg.shapes[m.shape], At(d, m.ray, near))
      /\ Abs(Abs(Cell * near - m.t) - m.psi) <= 2 * SnapTol
      /\ SnapTol <= m.psi /\ m.psi <= Cell - SnapTol

(* A grid point of a ray is inside a sphere by its distance from the       *)
(* middle of the chord.                                                    *)
LEMMA InsideSphere ==
  ASSUME cfg \in Configs, NEW s, s.kind = "sphere", s.r2 \in Nat \ {0}, s.c \in [Dirs -> Int],
         NEW d \in Dirs, NEW r \in Int, NEW i \in Int
  PROVE  InsideOf(s, At(d, r, i)) => Square(4 * i - s.c[d]) < Discriminant(s, d, Origin(d, r))
<1> DEFINE pt == At(d, r, i)
           o == Origin(d, r)
           sq(e) == Square(4 * pt[e] - s.c[e])
<1>1. pt[d] = i /\ \A e \in Dirs \ {d} : pt[e] = o[e]
  BY OriginIs
<1>2. pt \in [Dirs -> Int]
  BY OriginIs
<1> HIDE DEF pt, o
<1>3. \A e \in Dirs : sq(e) \in Int
  BY <1>2 DEF Square
<1>4. Discriminant(s, d, o) = s.r2 - sq(Slow(d)) - sq(Fast(d))
  BY <1>1, Across DEF Discriminant
<1>5. InsideOf(s, pt) => sq(0) + sq(1) + sq(2) < s.r2
  BY DEF InsideOf
<1>6. sq(d) = Square(4 * i - s.c[d])
  BY <1>1
<1> HIDE DEF sq
<1>7. sq(0) + sq(1) + sq(2) = sq(Slow(d)) + sq(Fast(d)) + sq(d)
  BY <1>3 DEF Slow, Fast, Dirs
<1>8. sq(d) \in Int /\ sq(Slow(d)) \in Int /\ sq(Fast(d)) \in Int
  BY <1>3, Across
<1>9. InsideOf(s, pt) => sq(d) < s.r2 - sq(Slow(d)) - sq(Fast(d))
  BY <1>5, <1>7, <1>8
<1> QED
  BY <1>4, <1>6, <1>9 DEF pt, o

(* A distance along a ray of `last' cells, computed as t with an error,    *)
(* half a chord from the projection c of the centre.                       *)
OnChord(t, err, c, half, out, last, e, near) ==
  /\ t \in Int /\ err \in {-2, 0, 2} /\ c \in Int /\ half \in Nat /\ half % 8 = 0
  /\ out \in BOOLEAN /\ last \in Nat
  /\ out => t = ((16 * c) + err) - half
  /\ ~out => t = ((16 * c) + err) + half
  /\ 0 < t /\ t < 64 * last /\ (err < 0 => t - err # 64 * last)
  /\ e = t - err /\ near = IF out THEN e \div 64 ELSE (e \div 64) + 1

(* It is in one of the cells, between the middle of the chord and the      *)
(* fluid neighbour there is half a chord.                                  *)
LEMMA SphereCell ==
  ASSUME NEW t, NEW err, NEW c, NEW half, NEW out, NEW last, NEW e, NEW near,
         OnChord(t, err, c, half, out, last, e, near)
  PROVE  /\ e \in Int /\ e % 8 = 0 /\ t = e + err
         /\ 0 <= e \div 64 /\ (e \div 64) + 1 <= last
         /\ near \in Int
         /\ 16 * ((4 * near) - c) >= half \/ 16 * (-((4 * near) - c)) >= half
<1>1. e \in Int /\ e = t - err
  BY DEF OnChord
<1>2. e % 8 = 0
  <2>1. CASE out
    BY <1>1, <2>1 DEF OnChord
  <2>2. CASE ~out
    BY <1>1, <2>2 DEF OnChord
  <2> QED
    BY <2>1, <2>2
<1>3. 0 <= e \div 64 /\ (e \div 64) + 1 <= last
      /\ (e \div 64) * 64 <= e /\ e < ((e \div 64) + 1) * 64
  BY <1>1, <1>2 DEF OnChord
<1>4. CASE out
  BY <1>1, <1>2, <1>3, <1>4 DEF OnChord
<1>5. CASE ~out
  BY <1>1, <1>2, <1>3, <1>5 DEF OnChord
<1> QED
  BY <1>4, <1>5

(* The cell of a rectangle that is off the grid.                           *)
LEMMA RectCell ==
  ASSUME NEW t \in Nat, NEW last \in Int, 0 < t % 64, t <= 64 * last
  PROVE  0 <= t \div 64 /\ (t \div 64) + 1 <= last
         /\ 64 * (t \div 64) - t < 0 /\ 64 * ((t \div 64) + 1) - t > 0
OBVIOUS

(* The record of a hit: where the fluid neighbour is and how far.          *)
LEMMA RecordIs ==
  ASSUME NEW d, NEW r, NEW h, h.t \in Int, h.t # NaN, h.outside \in BOOLEAN, NEW cell \in Int,
         CellOf(h.t) = cell
  PROVE  LET m == Intersection(d, r, h)
             near == IF h.outside THEN cell ELSE cell + 1
             gap == IF h.outside THEN h.t - Cell * cell ELSE Cell * (cell + 1) - h.t
         IN  /\ m.ray = r /\ m.t = h.t /\ m.outside = h.outside /\ m.shape = h.shape
             /\ m.at = cell + IF h.outside THEN 1 ELSE 0
             /\ near = IF m.outside THEN m.at - 1 ELSE m.at + 1
             /\ m.psi = Clamp(gap, SnapTol, Cell - SnapTol)
<1>1. CASE h.outside
  BY <1>1 DEF Intersection, Clamp, Cell, SnapTol
<1>2. CASE ~h.outside
  BY <1>2 DEF Intersection, Clamp, Cell, SnapTol
<1> QED
  BY <1>1, <1>2

(* The psi of a record is the distance to its fluid neighbour, up to the   *)
(* tolerance.                                                              *)
LEMMA PsiIsGap ==
  ASSUME NEW gap \in Int, -SnapTol <= gap, gap <= Cell + SnapTol
  PROVE  LET psi == Clamp(gap, SnapTol, Cell - SnapTol)
         IN  /\ Abs(Abs(gap) - psi) <= 2 * SnapTol /\ Abs(Abs(-gap) - psi) <= 2 * SnapTol
             /\ SnapTol <= psi /\ psi <= Cell - SnapTol
BY DEF Clamp, Abs, Cell, SnapTol

(* A hit in a cell of the ray is bracketed by the points of the cell.      *)
LEMMA CellBrackets ==
  ASSUME cfg \in Configs, NEW d \in Active, NEW r \in 0 .. Rays(d) - 1, NEW h,
         h.t \in Int, h.t # NaN, h.outside \in BOOLEAN,
         NEW exact \in Int,
         exact = h.t - IF cfg.shapes[h.shape].kind = "sphere" THEN cfg.err[d] ELSE 0,
         CellOf(h.t) = exact \div Cell, 0 <= exact \div Cell, (exact \div Cell) + 1 <= n[d] - 1,
         -SnapTol <= h.t - exact, h.t - exact <= SnapTol,
         ~InsideOf(cfg.shapes[h.shape],
                   At(d, r, IF h.outside THEN exact \div Cell ELSE (exact \div Cell) + 1))
  PROVE  Bracketed(d, Intersection(d, r, h))
<1> DEFINE m == Intersection(d, r, h)
           cell == exact \div Cell
           near == IF h.outside THEN cell ELSE cell + 1
           gap == IF h.outside THEN h.t - Cell * cell ELSE Cell * (cell + 1) - h.t
<1>0. n[d] \in Nat
  BY ConfigFacts DEF Active
<1>1. cell \in Int
  BY DEF Cell
<1>2. /\ m.ray = r /\ m.t = h.t /\ m.outside = h.outside /\ m.shape = h.shape
      /\ m.at = cell + IF h.outside THEN 1 ELSE 0
      /\ near = IF m.outside THEN m.at - 1 ELSE m.at + 1
      /\ m.psi = Clamp(gap, SnapTol, Cell - SnapTol)
  BY <1>1, RecordIs
<1> HIDE DEF m
<1>3. exact = m.t - IF cfg.shapes[m.shape].kind = "sphere" THEN cfg.err[d] ELSE 0
  BY <1>2
<1>4. gap \in Int /\ -SnapTol <= gap /\ gap <= Cell + SnapTol
      /\ (Cell * near - m.t = gap \/ Cell * near - m.t = -gap)
  <2>1. 64 * (exact \div 64) <= exact /\ exact < 64 * ((exact \div 64) + 1)
    OBVIOUS
  <2>2. CASE h.outside
    BY <1>1, <1>2, <2>1, <2>2 DEF Cell, SnapTol
  <2>3. CASE ~h.outside
    BY <1>1, <1>2, <2>1, <2>3 DEF Cell, SnapTol
  <2> QED
    BY <2>2, <2>3
<1> HIDE DEF gap
<1>5. Abs(Abs(Cell * near - m.t) - m.psi) <= 2 * SnapTol
      /\ SnapTol <= m.psi /\ m.psi <= Cell - SnapTol
  <2>1. /\ Abs(Abs(gap) - m.psi) <= 2 * SnapTol /\ Abs(Abs(-gap) - m.psi) <= 2 * SnapTol
        /\ SnapTol <= m.psi /\ m.psi <= Cell - SnapTol
    BY <1>2, <1>4, PsiIsGap
  <2> QED
    BY <1>4, <2>1
<1>6. {m.at, near} \subseteq 0 .. n[d] - 1
  BY <1>0, <1>1, <1>2
<1>7. ~InsideOf(cfg.shapes[m.shape], At(d, m.ray, near))
  BY <1>2
<1>8. m.at = (exact \div Cell) + IF m.outside THEN 1 ELSE 0
  BY <1>2
<1> HIDE DEF near, cell
<1>9. near = IF m.outside THEN m.at - 1 ELSE m.at + 1
  BY <1>2
<1> QED
  BY <1>3, <1>5, <1>6, <1>7, <1>8, <1>9 DEF Bracketed, m

(* A hit on a sphere is bracketed. *)
LEMMA SphereHit ==
  ASSUME cfg \in Configs, Regular, NEW d \in Active, NEW r \in 0 .. Rays(d) - 1,
         NEW lo \in Nat, NEW h, Hitting(h, d, Origin(d, r), lo, Length(d)),
         cfg.shapes[h.shape].kind = "sphere",
         cfg.shapes[h.shape].r2 \in Nat \ {0}, cfg.shapes[h.shape].c \in [Dirs -> Int]
  PROVE  Bracketed(d, Intersection(d, r, h))
<1> DEFINE s == cfg.shapes[h.shape]
           o == Origin(d, r)
           q == Discriminant(s, d, o)
           err == cfg.err[d]
           exact == h.t - err
<1>0. d \in Dirs /\ n[d] \in Nat \ {0} /\ err \in {-2, 0, 2} /\ s.c[d] \in Int
      /\ r \in Int /\ n[d] > 1 /\ DOMAIN cfg.shapes = 1 .. Len(cfg.shapes)
  BY ConfigFacts DEF Active, SnapTol
<1>1. o \in [Dirs -> Int]
  BY <1>0, OriginIs
<1>2. CandidateOf(h, d, o) /\ Within(s, h.t, lo, Length(d)) /\ h.shape \in DOMAIN cfg.shapes
  BY DEF Hitting, CandidateOf
<1>3. h.t \in Int /\ h.t # NaN /\ h.outside \in BOOLEAN
  BY <1>0, <1>1, <1>2, CandidateTyped
<1>4. PICK x \in DOMAIN Candidates(s, d, o) :
             h.t = Candidates(s, d, o)[x].t /\ h.outside = Candidates(s, d, o)[x].outside
  <2>1. PICK x \in DOMAIN Candidates(s, d, o) :
               h = [t |-> Candidates(s, d, o)[x].t, outside |-> Candidates(s, d, o)[x].outside,
                    shape |-> h.shape]
    BY <1>2 DEF CandidateOf
  <2>2. h.t = Candidates(s, d, o)[x].t /\ h.outside = Candidates(s, d, o)[x].outside
    BY <2>1
  <2> QED
    BY <2>2
<1>5. SphereCandidate(s, d, o, Candidates(s, d, o)[x])
  BY <1>0, <1>1, SphereCandidates
<1>6. err < 0 => h.t - err # Length(d)
  BY <1>0, <1>2, <1>4 DEF Regular
<1>7. q \in Nat \ {0} /\ HalfChord(q) \in Nat /\ HalfChord(q) % 8 = 0
      /\ \A y \in Int : 16 * y >= HalfChord(q) => Square(y) >= q
  BY <1>5, ChordIs DEF SphereCandidate, Quarter
<1>8. /\ h.outside => h.t = ((16 * s.c[d]) + err) - HalfChord(q)
      /\ ~h.outside => h.t = ((16 * s.c[d]) + err) + HalfChord(q)
  <2>1. \/ h.t = ((Quarter * s.c[d]) + err) - HalfChord(q) /\ h.outside = TRUE
        \/ h.t = ((Quarter * s.c[d]) + err) + HalfChord(q) /\ h.outside = FALSE
    BY <1>4, <1>5 DEF SphereCandidate
  <2> HIDE DEF q, err, s, o
  <2> QED
    BY <1>3, <2>1 DEF Quarter
<1>9. Length(d) = 64 * (n[d] - 1) /\ lo < h.t /\ h.t < Length(d)
  BY <1>2, <1>3 DEF Within, Less, Length, Cell
<1> DEFINE near == IF h.outside THEN exact \div 64 ELSE (exact \div 64) + 1
<1>10. /\ exact \in Int /\ exact % 8 = 0 /\ h.t = exact + err
       /\ 0 <= exact \div 64 /\ (exact \div 64) + 1 <= n[d] - 1
       /\ near \in Int
       /\ 16 * ((4 * near) - s.c[d]) >= HalfChord(q) \/ 16 * (-((4 * near) - s.c[d])) >= HalfChord(q)
  <2>1. PICK t \in Int, out \in BOOLEAN, c \in Int, last \in Nat, half \in Nat, error \in {-2, 0, 2} :
               t = h.t /\ out = h.outside /\ c = s.c[d] /\ last = n[d] - 1 /\ half = HalfChord(q)
               /\ error = err
    <3> HIDE DEF s, err, q
    <3>1. n[d] - 1 \in Nat
      BY <1>0
    <3> QED
      BY <1>0, <1>3, <1>7, <3>1
  <2>2. /\ half % 8 = 0 /\ (out => t = ((16 * c) + error) - half)
        /\ (~out => t = ((16 * c) + error) + half)
        /\ 0 < t /\ t < 64 * last /\ (error < 0 => t - error # 64 * last)
    <3> HIDE DEF s, err, q
    <3>1. half % 8 = 0 /\ (out => t = ((16 * c) + error) - half)
          /\ (~out => t = ((16 * c) + error) + half)
      BY <1>7, <1>8, <2>1
    <3>2. 0 < t /\ t < 64 * last
      BY <1>9, <2>1
    <3>3. error < 0 => t - error # 64 * last
      BY <1>6, <1>9, <2>1
    <3> QED
      BY <3>1, <3>2, <3>3
  <2>e. PICK e, point : e = t - error /\ point = IF out THEN e \div 64 ELSE (e \div 64) + 1
    OBVIOUS
  <2>3. /\ e \in Int /\ e % 8 = 0 /\ t = e + error
        /\ 0 <= e \div 64 /\ (e \div 64) + 1 <= last
        /\ point \in Int
        /\ 16 * ((4 * point) - c) >= half \/ 16 * (-((4 * point) - c)) >= half
    <3>1. OnChord(t, error, c, half, out, last, e, point)
      BY <2>2, <2>e DEF OnChord
    <3> HIDE DEF s, q, err, exact, near
    <3> QED
      BY <3>1, SphereCell
  <2>4. e = exact
    BY <2>1, <2>e
  <2> HIDE DEF exact
  <2>5. point = near
    BY <2>1, <2>4, <2>e
  <2> HIDE DEF near, s, err, q
  <2> QED
    BY <2>1, <2>3, <2>4, <2>5
<1> HIDE DEF err, q, o, exact
<1>11. CellOf(h.t) = exact \div Cell
  <2>1. CellOf(exact + err) = exact \div Cell
    BY <1>0, <1>10, CellOfRounded DEF SnapTol
  <2> QED
    BY <1>10, <2>1
<1> HIDE DEF near
<1>13. ~InsideOf(s, At(d, r, near))
  <2> DEFINE y == (4 * near) - s.c[d]
  <2>1. y \in Int
    BY <1>0, <1>10
  <2>3. Square(y) >= q
    <3>1. Square(-y) = Square(y)
      BY <2>1 DEF Square
    <3>2. 16 * y >= HalfChord(q) \/ 16 * (-y) >= HalfChord(q)
      BY <1>10
    <3> HIDE DEF y
    <3> QED
      BY <1>7, <2>1, <3>1, <3>2
  <2>4. InsideOf(s, At(d, r, near)) => Square(y) < q
    BY <1>0, <1>10, InsideSphere DEF q, o
  <2>5. Square(y) \in Int
    BY <2>1 DEF Square
  <2> HIDE DEF y
  <2> QED
    BY <1>7, <2>3, <2>4, <2>5
<1>14. -SnapTol <= h.t - exact /\ h.t - exact <= SnapTol
  <2>1. PICK t \in Int, e \in Int, error \in {-2, 0, 2} : t = h.t /\ e = exact /\ error = err
    BY <1>0, <1>3, <1>10
  <2>2. t = e + error
    BY <1>10, <2>1
  <2> QED
    BY <2>1, <2>2 DEF SnapTol
<1> QED
  <2>1. near = IF h.outside THEN exact \div Cell ELSE (exact \div Cell) + 1
    BY DEF near, Cell
  <2>2. exact = h.t - IF s.kind = "sphere" THEN cfg.err[d] ELSE 0
    BY DEF exact, err
  <2>3. 0 <= exact \div Cell /\ (exact \div Cell) + 1 <= n[d] - 1
    BY <1>10 DEF Cell
  <2> QED
    BY <1>3, <1>10, <1>11, <1>13, <1>14, <2>1, <2>2, <2>3, CellBrackets

(* A hit on a rectangle is bracketed. *)
LEMMA RectHit ==
  ASSUME cfg \in Configs, Regular, NEW d \in Active, NEW r \in 0 .. Rays(d) - 1,
         NEW lo \in Nat, NEW h, Hitting(h, d, Origin(d, r), lo, Length(d)),
         cfg.shapes[h.shape].kind = "yz_rect",
         cfg.shapes[h.shape].x \in Nat, cfg.shapes[h.shape].normal \in {-1, 1}
  PROVE  Bracketed(d, Intersection(d, r, h))
<1> DEFINE s == cfg.shapes[h.shape]
           o == Origin(d, r)
<1>0. d \in Dirs /\ n[d] \in Nat \ {0} /\ r \in Int /\ n[d] > 1
      /\ DOMAIN cfg.shapes = 1 .. Len(cfg.shapes)
  BY ConfigFacts DEF Active
<1>1. o \in [Dirs -> Int]
  BY <1>0, OriginIs
<1>2. CandidateOf(h, d, o) /\ Within(s, h.t, lo, Length(d)) /\ h.shape \in DOMAIN cfg.shapes
  BY DEF Hitting, CandidateOf
<1>3. h.t \in Int /\ h.t # NaN /\ h.outside \in BOOLEAN
  BY <1>0, <1>1, <1>2, CandidateTyped
<1>4. SnapTol < s.x % Cell /\ s.x % Cell < Cell - SnapTol
  BY <1>2 DEF Regular
<1>5. /\ d = 0 /\ h.t = s.x
      /\ ((s.normal = -1 /\ h.outside = TRUE) \/ (s.normal = 1 /\ h.outside = FALSE))
  <2>1. PICK x \in DOMAIN Candidates(s, d, o) :
               h = [t |-> Candidates(s, d, o)[x].t, outside |-> Candidates(s, d, o)[x].outside,
                    shape |-> h.shape]
    BY <1>2 DEF CandidateOf
  <2>2. s.x % Cell # 0
    BY <1>4 DEF SnapTol
  <2>3. d = 0 /\ Candidates(s, d, o)[x] = [t |-> s.x, outside |-> s.normal < 0]
    BY <1>0, <1>1, <2>2, RectCandidates
  <2> DEFINE c == Candidates(s, d, o)[x]
  <2>4. h.t = c.t /\ h.outside = c.outside
    BY <2>1
  <2>5. PICK b \in BOOLEAN : b = (s.normal < 0)
    <3>1. (s.normal < 0) \in BOOLEAN
      OBVIOUS
    <3> QED
      BY <3>1, Zenon
  <2>6. c = [t |-> s.x, outside |-> b]
    BY <2>3, <2>5, Zenon
  <2> HIDE DEF c, s
  <2>7. c.t = s.x /\ c.outside = b
    BY <2>6
  <2>8. (s.normal = -1 /\ b = TRUE) \/ (s.normal = 1 /\ b = FALSE)
    <3>1. b \in BOOLEAN /\ (b <=> s.normal < 0)
      BY <2>5, Zenon
    <3>2. s.normal = -1 \/ s.normal = 1
      BY DEF s
    <3>3. CASE s.normal = -1
      <4>1. s.normal < 0
        BY <3>3
      <4>2. b = TRUE
        BY <3>1, <4>1, Zenon
      <4> QED
        BY <3>3, <4>2
    <3>4. CASE s.normal = 1
      BY <3>1, <3>4
    <3> QED
      BY <3>2, <3>3, <3>4
  <2> QED
    BY <2>3, <2>4, <2>7, <2>8, Zenon
<1>6. Length(d) = 64 * (n[d] - 1) /\ h.t <= Length(d) /\ 0 <= h.t
  BY <1>0, <1>2, <1>3, <1>5 DEF Within, Less, Length, Cell, NaN
<1>7. CellOf(h.t) = h.t \div Cell
  BY <1>3, <1>4, <1>5, CellOfOffGrid
<1> DEFINE cell == h.t \div 64
<1>8. 0 <= cell /\ cell + 1 <= n[d] - 1 /\ cell \in Int
      /\ 64 * cell - s.x < 0 /\ 64 * (cell + 1) - s.x > 0
  <2>1. PICK t \in Nat, last \in Int : t = h.t /\ t = s.x /\ last = n[d] - 1
    BY <1>0, <1>3, <1>5, <1>6
  <2>2. 0 < t % 64 /\ t <= 64 * last
    BY <1>4, <1>6, <2>1 DEF SnapTol, Cell
  <2>3. 0 <= t \div 64 /\ (t \div 64) + 1 <= last
        /\ 64 * (t \div 64) - t < 0 /\ 64 * ((t \div 64) + 1) - t > 0
    BY <2>2, RectCell
  <2>4. t \div 64 = cell /\ t \div 64 \in Int
    BY <2>1
  <2> HIDE DEF cell
  <2> QED
    BY <2>1, <2>3, <2>4
<1> HIDE DEF cell
<1>9. ~InsideOf(s, At(d, r, IF h.outside THEN cell ELSE cell + 1))
  <2> DEFINE near == IF h.outside THEN cell ELSE cell + 1
  <2>1. near \in Int
    BY <1>8
  <2>2. At(d, r, near)[0] = near
    <3> HIDE DEF near
    <3>1. At(d, r, near)[d] = near
      BY <1>0, <2>1, OriginIs
    <3> QED
      BY <1>5, <3>1
  <2>3. InsideOf(s, At(d, r, near)) => s.normal * (64 * near - s.x) < 0
    BY <2>2 DEF InsideOf, Cell
  <2>4. ~(s.normal * (64 * near - s.x) < 0)
    <3>1. CASE s.normal = -1
      <4>1. near = cell
        BY <1>5, <3>1
      <4> QED
        BY <1>8, <3>1, <4>1
    <3>2. CASE s.normal = 1
      <4>1. near = cell + 1
        BY <1>5, <3>2
      <4> QED
        BY <1>8, <3>2, <4>1
    <3> QED
      BY <3>1, <3>2
  <2> QED
    BY <2>3, <2>4
<1>10. h.t = h.t - IF s.kind = "sphere" THEN cfg.err[d] ELSE 0
  BY <1>3
<1>11. cell = h.t \div Cell
  BY DEF cell, Cell
<1>12. 0 <= h.t \div Cell /\ (h.t \div Cell) + 1 <= n[d] - 1
       /\ ~InsideOf(s, At(d, r, IF h.outside THEN h.t \div Cell ELSE (h.t \div Cell) + 1))
  BY <1>8, <1>9, <1>11
<1>13. -SnapTol <= h.t - h.t /\ h.t - h.t <= SnapTol
  BY <1>3 DEF SnapTol
<1> QED
  BY <1>3, <1>7, <1>10, <1>12, <1>13, CellBrackets

(* On a regular mesh a hit is bracketed, and strictly before the end of    *)
(* its ray.                                                                *)
LEMMA HitBracketed ==
  ASSUME cfg \in Configs, Regular, NEW d \in Dirs, NEW r \in 0 .. Rays(d) - 1,
         NEW lo \in Nat, NEW h, Hitting(h, d, Origin(d, r), lo, Length(d))
  PROVE  /\ d \in Active => Bracketed(d, Intersection(d, r, h))
         /\ h.t \in Nat /\ lo <= h.t /\ h.t < Length(d)
<1> DEFINE s == cfg.shapes[h.shape]
           o == Origin(d, r)
<1>0. n[d] \in Nat \ {0} /\ r \in Int /\ DOMAIN cfg.shapes = 1 .. Len(cfg.shapes)
  BY ConfigFacts
<1>1. o \in [Dirs -> Int]
  BY <1>0, OriginIs
<1>2. CandidateOf(h, d, o) /\ Within(s, h.t, lo, Length(d)) /\ h.shape \in DOMAIN cfg.shapes
  BY DEF Hitting, CandidateOf
<1>3. h.t \in Int /\ h.t # NaN
  BY <1>1, <1>2, CandidateTyped
<1>4. Length(d) = 64 * (n[d] - 1) /\ Length(d) \in Nat
  BY <1>0 DEF Length, Cell
<1>5. CASE s.kind = "sphere" /\ s.r2 \in Nat \ {0} /\ s.c \in [Dirs -> Int]
  <2>1. lo < h.t /\ h.t < Length(d)
    BY <1>2, <1>5 DEF Within, Less
  <2>2. d \in Active => Bracketed(d, Intersection(d, r, h))
    BY <1>5, SphereHit
  <2> QED
    BY <1>3, <1>4, <2>1, <2>2
<1>6. CASE s.kind = "yz_rect" /\ s.x \in Nat /\ s.normal \in {-1, 1}
  <2>1. lo <= h.t /\ h.t <= Length(d)
    BY <1>2, <1>3, <1>4, <1>6 DEF Within, Less, NaN
  <2>2. d \in Active => Bracketed(d, Intersection(d, r, h))
    BY <1>6, RectHit
  <2>3. h.t = s.x
    <3>1. SnapTol < s.x % Cell
      BY <1>2, <1>6 DEF Regular
    <3>2. s.x % Cell # 0
      BY <3>1 DEF SnapTol
    <3>3. PICK x \in DOMAIN Candidates(s, d, o) : h.t = Candidates(s, d, o)[x].t
      <4>1. PICK x \in DOMAIN Candidates(s, d, o) :
                   h = [t |-> Candidates(s, d, o)[x].t,
                        outside |-> Candidates(s, d, o)[x].outside, shape |-> h.shape]
        BY <1>2 DEF CandidateOf
      <4>2. h.t = Candidates(s, d, o)[x].t
        BY <4>1
      <4> QED
        BY <4>2
    <3>4. Candidates(s, d, o)[x] = [t |-> s.x, outside |-> s.normal < 0]
      BY <1>1, <1>6, <3>2, RectCandidates
    <3> QED
      BY <3>3, <3>4
  <2>4. h.t # Length(d)
    <3>1. h.t % 64 # 0
      <4>1. SnapTol < s.x % Cell
        BY <1>2, <1>6 DEF Regular
      <4> QED
        BY <2>3, <4>1 DEF SnapTol, Cell
    <3>2. PICK t \in Int, last \in Int : t = h.t /\ last = n[d] - 1
      BY <1>0, <1>3
    <3> QED
      BY <1>4, <3>1, <3>2
  <2> QED
    BY <1>3, <1>4, <2>1, <2>2, <2>4
<1> QED
  BY <1>0, <1>2, <1>5, <1>6, ConfigFacts

-----------------------------------------------------------------------------
(* The invariant of the construction *)

(* Records of intersections. *)
Hits == [ray : Nat, t : Int, outside : BOOLEAN, shape : Nat, at : Int, psi : Int]

(* What is recorded of a ray along d. *)
Recorded(d, m) ==
  /\ m \in Hits /\ m.ray \in 0 .. Rays(d) - 1 /\ m.shape \in DOMAIN cfg.shapes
  /\ Regular => m.t \in Nat /\ (d \in Active => Bracketed(d, m))

(* The phases, and where the construction is in each.                      *)
MeshTyped ==
  /\ cfg \in Configs /\ phase \in {"cast", "solid", "lines", "fluid", "done"}
  /\ dir \in Dirs /\ k \in 0 .. Rays(dir) - 1
  /\ R \in [Dirs -> Seq(Hits)]

(* Every record is that of a hit. *)
AllRecorded == \A d \in Dirs : \A i \in 1 .. Len(R[d]) : Recorded(d, R[d][i])

(* Along a ray the records are in order. *)
Ordered ==
  Regular => \A d \in Dirs : \A i \in 2 .. Len(R[d]) :
               R[d][i - 1].ray = R[d][i].ray => R[d][i - 1].t < R[d][i].t

(* The search is beyond all that is recorded. *)
Beyond ==
  phase = "cast" =>
    /\ \A d \in Dirs : d > dir => R[d] = <<>>
    /\ \A i \in 1 .. Len(R[dir]) : R[dir][i].ray <= k
    /\ Regular => tmin \in Nat
    /\ Regular => \A i \in 1 .. Len(R[dir]) : R[dir][i].ray = k => R[dir][i].t < tmin

(* The inductive invariant of the construction.                            *)
MeshInv == MeshTyped /\ AllRecorded /\ Ordered /\ Beyond

(* The mesh being built does not change. *)
LEMMA ConfigKept ==
  ASSUME cfg' = cfg
  PROVE  /\ Regular' = Regular /\ \A d : Rays(d)' = Rays(d)
         /\ \A d, m : Recorded(d, m)' = Recorded(d, m)
<1>1. Regular' = Regular
  BY DEF Regular, Active, n, Rays, Candidates, Origin, Length
<1>2. \A d : Rays(d)' = Rays(d)
  BY Zenon DEF Rays, n
<1>3. \A d, m : Bracketed(d, m)' = Bracketed(d, m)
  BY DEF Bracketed, n, At, Origin
<1>4. Active' = Active
  BY Zenon DEF Active, n
<1> QED
  BY <1>1, <1>2, <1>3, <1>4, Zenon DEF Recorded

(* A search begins at the origin of a ray. *)
LEMMA MeshStart == Init => MeshInv
<1> SUFFICES ASSUME Init PROVE MeshInv
  OBVIOUS
<1>1. cfg \in Configs /\ phase = "cast" /\ dir = 0 /\ k = 0 /\ tmin = 0
      /\ R = [d \in Dirs |-> <<>>]
  BY DEF Init
<1>2. Rays(0) \in Nat \ {0}
  <2>1. n[1] \in Nat \ {0} /\ n[2] \in Nat \ {0}
    BY <1>1, ConfigFacts DEF Dirs
  <2> QED
    BY <2>1 DEF Rays, Slow, Fast
<1>3. MeshTyped
  BY <1>1, <1>2 DEF MeshTyped, Dirs
<1>4. AllRecorded /\ Ordered /\ Beyond
  BY <1>1 DEF AllRecorded, Ordered, Beyond, Dirs
<1> QED
  BY <1>3, <1>4 DEF MeshInv

(* Steps that keep the records and the mesh. *)
LEMMA RecordsKept ==
  ASSUME MeshInv, cfg' = cfg, R' = R
  PROVE  AllRecorded' /\ Ordered'
<1>1. \A d \in Dirs : \A i \in 1 .. Len(R[d]) : Recorded(d, R[d][i])'
  <2> SUFFICES ASSUME NEW d \in Dirs, NEW i \in 1 .. Len(R[d]) PROVE Recorded(d, R[d][i])'
    OBVIOUS
  <2>1. PICK m : m = R[d][i]
    OBVIOUS
  <2>2. Recorded(d, m)
    BY <2>1 DEF MeshInv, AllRecorded
  <2>3. Recorded(d, m)'
    BY <2>2, ConfigKept
  <2>4. m = R'[d][i]
    BY <2>1
  <2> QED
    BY <2>3, <2>4
<1>2. AllRecorded'
  BY <1>1 DEF AllRecorded
<1>3. Ordered'
  BY ConfigKept DEF MeshInv, Ordered
<1> QED
  BY <1>2, <1>3

(* The record of a hit has its fields. *)
LEMMA RecordTyped ==
  ASSUME NEW d, NEW r \in Nat, NEW h, h.t \in Int, h.outside \in BOOLEAN, h.shape \in Nat
  PROVE  /\ Intersection(d, r, h) \in Hits
         /\ Intersection(d, r, h).ray = r /\ Intersection(d, r, h).t = h.t
         /\ Intersection(d, r, h).shape = h.shape
<1> DEFINE m == Intersection(d, r, h)
<1>1. CellOf(h.t) \in Int
  BY DEF CellOf, Abs, Cell
<1>2. m.at \in Int
  BY <1>1 DEF Intersection, NaN
<1>3. m.psi \in Int
  BY <1>1 DEF Intersection, NaN, Clamp, Cell, SnapTol
<1>4. m = [ray |-> r, t |-> h.t, outside |-> h.outside, shape |-> h.shape, at |-> m.at, psi |-> m.psi]
  BY Zenon DEF Intersection
<1> HIDE DEF m
<1>5. m \in Hits
  BY <1>2, <1>3, <1>4 DEF Hits
<1>6. m.ray = r /\ m.t = h.t /\ m.shape = h.shape
  BY <1>4
<1> QED
  BY <1>5, <1>6 DEF m

(* A hit is recorded after what was recorded before it. *)
LEMMA HitStep == ASSUME MeshInv, Hit PROVE MeshInv'
<1>1. PICK h \in Found :
        /\ R' = IF OnRay < MaxHits THEN [R EXCEPT ![dir] = Append(@, Intersection(dir, k, h))] ELSE R
        /\ tmin' = NextAfter(h.t, Length(dir))
  BY DEF Hit
<1>2. phase = "cast" /\ cfg' = cfg /\ phase' = phase /\ dir' = dir /\ k' = k
  BY DEF Hit
<1>3. MeshTyped /\ AllRecorded /\ Ordered /\ Beyond
  BY DEF MeshInv
<1>4. cfg \in Configs /\ dir \in Dirs /\ k \in 0 .. Rays(dir) - 1 /\ R \in [Dirs -> Seq(Hits)]
  BY <1>3 DEF MeshTyped
<1>5. n[dir] \in Nat \ {0} /\ Rays(dir) \in Nat /\ k \in Nat
  <2>1. n \in [Dirs -> Nat \ {0}]
    BY <1>4, ConfigFacts
  <2>2. Rays(dir) \in Nat
    <3>1. n[Slow(dir)] \in Nat /\ n[Fast(dir)] \in Nat
      BY <1>4, <2>1, Across
    <3> QED
      BY <3>1 DEF Rays
  <2> QED
    BY <1>4, <2>1, <2>2
<1>6. Length(dir) \in Nat /\ Origin(dir, k) \in [Dirs -> Int]
  <2>1. Origin(dir, k) \in [Dirs -> Int]
    BY <1>4, <1>5, OriginIs
  <2> QED
    BY <1>5, <2>1 DEF Length, Cell
<1>7. Regular => tmin \in Nat
  BY <1>2, <1>3 DEF Beyond
<1>8. Hitting(h, dir, Origin(dir, k), tmin, Length(dir))
  BY <1>4, <1>6, <1>7, ClosestIs DEF Found
<1>9. h.t \in Int /\ h.outside \in BOOLEAN /\ h.shape \in Nat /\ h.shape \in DOMAIN cfg.shapes
  BY <1>4, <1>6, <1>8, CandidateTyped DEF Hitting, CandidateOf
<1>10. PICK m : m = Intersection(dir, k, h)
  OBVIOUS
<1>11. m \in Hits /\ m.ray = k /\ m.t = h.t /\ m.shape = h.shape
  BY <1>5, <1>9, <1>10, RecordTyped
<1>12. ASSUME Regular
       PROVE  (dir \in Active => Bracketed(dir, m)) /\ h.t \in Nat /\ tmin <= h.t /\ h.t < Length(dir)
  BY <1>4, <1>7, <1>8, <1>10, <1>12, HitBracketed
<1>13. Recorded(dir, m)
  BY <1>4, <1>9, <1>11, <1>12 DEF Recorded
<1>14. Regular => tmin' = h.t + 1
  <2> SUFFICES ASSUME Regular PROVE tmin' = h.t + 1
    OBVIOUS
  <2>1. h.t \in Nat /\ h.t < Length(dir)
    BY <1>12
  <2> QED
    BY <1>1, <1>6, <2>1 DEF NextAfter, Less, NaN
<1>15. (Regular' = Regular) /\ (Rays(dir)' = Rays(dir))
  BY <1>2, ConfigKept
<1>16. CASE R' = R
  <2>1. AllRecorded' /\ Ordered'
    BY <1>2, <1>16, RecordsKept
  <2>2. MeshTyped'
    BY <1>2, <1>3, <1>15, <1>16 DEF MeshTyped
  <2>3. Beyond'
    <3>1. Regular => tmin' \in Nat /\ tmin <= tmin'
      BY <1>7, <1>12, <1>14
    <3>2. ASSUME Regular, NEW i \in 1 .. Len(R[dir]), R[dir][i].ray = k PROVE R[dir][i].t < tmin'
      <4>0. R[dir][i] \in Hits
        BY <1>4
      <4>1. R[dir][i].t < tmin /\ R[dir][i].t \in Int
        BY <1>2, <1>3, <3>2, <4>0 DEF Beyond, Hits
      <4> QED
        BY <1>7, <3>1, <3>2, <4>1
    <3> QED
      BY <1>2, <1>3, <1>15, <1>16, <3>1, <3>2 DEF Beyond
  <2> QED
    BY <2>1, <2>2, <2>3 DEF MeshInv
<1>17. CASE R' = [R EXCEPT ![dir] = Append(@, m)]
  <2>1. R' \in [Dirs -> Seq(Hits)]
    BY <1>4, <1>11, <1>17
  <2> DEFINE old == R[dir]
             new == R'[dir]
  <2>2. /\ old \in Seq(Hits) /\ new = Append(old, m) /\ Len(new) = Len(old) + 1 /\ Len(old) \in Nat
        /\ new[Len(old) + 1] = m /\ \A i \in 1 .. Len(old) : new[i] = old[i]
    BY <1>4, <1>11, <1>17
  <2>3. \A d \in Dirs \ {dir} : R'[d] = R[d]
    BY <1>4, <1>17
  <2> HIDE DEF new
  <2>4. MeshTyped'
    BY <1>2, <1>3, <1>15, <2>1 DEF MeshTyped
  <2>5. \A d \in Dirs : \A i \in 1 .. Len(R'[d]) : Recorded(d, R'[d][i])
    <3>1. ASSUME NEW i \in 1 .. Len(new) PROVE Recorded(dir, new[i])
      <4>1. CASE i = Len(old) + 1
        BY <1>13, <2>2, <4>1
      <4>2. CASE i \in 1 .. Len(old)
        BY <1>3, <1>4, <2>2, <4>2 DEF AllRecorded
      <4> QED
        BY <2>2, <4>1, <4>2
    <3>2. ASSUME NEW d \in Dirs \ {dir}, NEW i \in 1 .. Len(R'[d]) PROVE Recorded(d, R'[d][i])
      BY <1>3, <2>3 DEF AllRecorded
    <3> QED
      BY <3>1, <3>2 DEF new
  <2>6. AllRecorded'
    <3> SUFFICES ASSUME NEW d \in Dirs, NEW i \in 1 .. Len(R'[d]) PROVE Recorded(d, R[d][i])'
      BY DEF AllRecorded
    <3>1. PICK x : x = R'[d][i]
      OBVIOUS
    <3>2. Recorded(d, x)
      BY <2>5, <3>1
    <3>3. Recorded(d, x)'
      BY <1>2, <3>2, ConfigKept
    <3> QED
      BY <3>1, <3>3
  <2>7. Ordered'
    <3>1. ASSUME Regular, NEW i \in 2 .. Len(new), new[i - 1].ray = new[i].ray
          PROVE  new[i - 1].t < new[i].t
      <4>1. CASE i = Len(old) + 1
        <5>1. i - 1 \in 1 .. Len(old) /\ new[i - 1] = old[i - 1] /\ new[i] = m
          BY <2>2, <4>1
        <5>2. old[i - 1].ray = k
          BY <1>11, <3>1, <5>1
        <5>3. old[i - 1].t < tmin
          BY <1>2, <1>3, <3>1, <5>1, <5>2 DEF Beyond
        <5>4. old[i - 1].t \in Int
          <6>1. old[i - 1] \in Hits
            BY <2>2, <5>1
          <6> HIDE DEF old
          <6> QED
            BY <6>1 DEF Hits
        <5> HIDE DEF old
        <5> QED
          BY <1>7, <1>11, <1>12, <3>1, <5>1, <5>3, <5>4
      <4>2. CASE i \in 2 .. Len(old)
        <5>1. new[i - 1] = old[i - 1] /\ new[i] = old[i]
          BY <2>2, <4>2
        <5> QED
          BY <1>3, <1>4, <3>1, <4>2, <5>1 DEF Ordered
      <4> QED
        BY <2>2, <4>1, <4>2
    <3>2. ASSUME Regular, NEW d \in Dirs \ {dir}, NEW i \in 2 .. Len(R'[d]), R'[d][i - 1].ray = R'[d][i].ray
          PROVE  R'[d][i - 1].t < R'[d][i].t
      BY <1>3, <2>3, <3>2 DEF Ordered
    <3>3. Regular => \A d \in Dirs : \A i \in 2 .. Len(R'[d]) :
            R'[d][i - 1].ray = R'[d][i].ray => R'[d][i - 1].t < R'[d][i].t
      BY <3>1, <3>2 DEF new
    <3> QED
      BY <1>15, <3>3 DEF Ordered
  <2>8. Beyond'
    <3>1. \A d \in Dirs : d > dir => R'[d] = <<>>
      BY <1>2, <1>3, <1>4, <2>3 DEF Beyond, Dirs
    <3>2. Regular => tmin' \in Nat
      BY <1>12, <1>14
    <3>3. ASSUME NEW i \in 1 .. Len(new)
          PROVE  new[i].ray <= k /\ (Regular /\ new[i].ray = k => new[i].t < tmin')
      <4>1. CASE i = Len(old) + 1
        BY <1>5, <1>11, <1>12, <1>14, <2>2, <4>1
      <4>2. CASE i \in 1 .. Len(old)
        <5>0. old[i].t \in Int
          <6>1. old[i] \in Hits
            BY <2>2, <4>2
          <6> HIDE DEF old
          <6> QED
            BY <6>1 DEF Hits
        <5>1. old[i].ray <= k /\ (Regular /\ old[i].ray = k => old[i].t < tmin)
          BY <1>2, <1>3, <4>2 DEF Beyond
        <5>2. new[i] = old[i]
          BY <2>2, <4>2
        <5> HIDE DEF old
        <5> QED
          BY <1>7, <1>12, <1>14, <5>0, <5>1, <5>2
      <4> QED
        BY <2>2, <4>1, <4>2
    <3> QED
      BY <1>2, <1>15, <3>1, <3>2, <3>3 DEF Beyond, new
  <2> QED
    BY <2>4, <2>6, <2>7, <2>8 DEF MeshInv
<1> QED
  BY <1>1, <1>10, <1>16, <1>17

(* The next ray begins with nothing recorded of it. *)
LEMMA NextRayStep == ASSUME MeshInv, NextRay PROVE MeshInv'
<1>1. /\ phase = "cast" /\ tmin' = 0 /\ cfg' = cfg /\ R' = R
      /\ \/ k + 1 < Rays(dir) /\ k' = k + 1 /\ dir' = dir /\ phase' = phase
         \/ dir < 2 /\ k' = 0 /\ dir' = dir + 1 /\ phase' = phase
         \/ phase' = "solid" /\ k' = k /\ dir' = dir
  BY DEF NextRay
<1>2. MeshTyped /\ Beyond
  BY DEF MeshInv
<1>3. cfg \in Configs /\ dir \in Dirs /\ k \in 0 .. Rays(dir) - 1 /\ R \in [Dirs -> Seq(Hits)]
  BY <1>2 DEF MeshTyped
<1>4. AllRecorded' /\ Ordered'
  BY <1>1, RecordsKept
<1>5. \A d : Rays(d)' = Rays(d)
  BY <1>1, ConfigKept
<1>6. \A d \in Dirs : Rays(d) \in Nat \ {0}
  <2> SUFFICES ASSUME NEW d \in Dirs PROVE Rays(d) \in Nat \ {0}
    OBVIOUS
  <2>1. n[Slow(d)] \in Nat \ {0} /\ n[Fast(d)] \in Nat \ {0}
    BY <1>3, ConfigFacts, Across
  <2> QED
    BY <2>1 DEF Rays
<1>7. CASE k + 1 < Rays(dir) /\ k' = k + 1 /\ dir' = dir /\ phase' = phase
  <2>1. MeshTyped'
    <3>1. k' \in 0 .. Rays(dir) - 1
      BY <1>3, <1>6, <1>7
    <3>2. Rays(dir)' = Rays(dir)
      BY <1>1, <1>7 DEF Rays, n
    <3> QED
      BY <1>1, <1>2, <1>5, <1>7, <3>1, <3>2 DEF MeshTyped, Rays, n
  <2>2. Beyond'
    <3>1. ASSUME NEW i \in 1 .. Len(R[dir]) PROVE R[dir][i].ray <= k /\ R[dir][i].ray \in Nat
      <4>1. R[dir][i] \in Hits
        BY <1>3
      <4> QED
        BY <1>1, <1>2, <4>1 DEF Beyond, Hits
    <3>2. \A i \in 1 .. Len(R[dir]) : R[dir][i].ray <= k' /\ R[dir][i].ray # k'
      BY <1>3, <1>6, <1>7, <3>1
    <3> QED
      BY <1>1, <1>2, <1>7, <3>2 DEF Beyond
  <2> QED
    BY <1>4, <2>1, <2>2 DEF MeshInv
<1>8. CASE dir < 2 /\ k' = 0 /\ dir' = dir + 1 /\ phase' = phase
  <2>1. dir' \in Dirs
    BY <1>3, <1>8 DEF Dirs
  <2>2. MeshTyped'
    <3>1. Rays(dir)' \in Nat \ {0}
      <4>1. PICK e \in Dirs : e = dir'
        BY <2>1
      <4>2. Rays(e)' \in Nat \ {0}
        BY <1>5, <1>6
      <4> QED
        BY <4>1, <4>2
    <3>2. k' \in 0 .. Rays(dir)' - 1
      BY <1>8, <3>1
    <3> QED
      BY <1>1, <1>2, <1>8, <2>1, <3>2 DEF MeshTyped
  <2>3. Beyond'
    <3>1. R[dir'] = <<>> /\ \A d \in Dirs : d > dir' => R[d] = <<>>
      BY <1>1, <1>2, <1>3, <1>8, <2>1 DEF Beyond, Dirs
    <3> QED
      BY <1>1, <3>1 DEF Beyond
  <2> QED
    BY <1>4, <2>2, <2>3 DEF MeshInv
<1>9. CASE phase' = "solid" /\ k' = k /\ dir' = dir
  <2>1. MeshTyped'
    BY <1>1, <1>2, <1>9 DEF MeshTyped, Rays, n
  <2>2. Beyond'
    BY <1>9 DEF Beyond
  <2> QED
    BY <1>4, <2>1, <2>2 DEF MeshInv
<1> QED
  BY <1>1, <1>7, <1>8, <1>9

(* The other steps leave the records alone. *)
LEMMA OtherMeshStep ==
  ASSUME MeshInv, cfg' = cfg, R' = R, dir' = dir, k' = k,
         phase' \in {"lines", "fluid", "done"} \/ (phase' = phase /\ tmin' = tmin)
  PROVE  MeshInv'
<1>1. AllRecorded' /\ Ordered'
  BY RecordsKept
<1>2. MeshTyped'
  BY DEF MeshInv, MeshTyped, Rays, n
<1>3. Beyond'
  BY ConfigKept DEF MeshInv, Beyond
<1> QED
  BY <1>1, <1>2, <1>3 DEF MeshInv

(* Every step keeps the invariant. *)
LEMMA MeshStep == ASSUME MeshInv, [Next]_vars PROVE MeshInv'
<1>1. CASE Hit
  BY <1>1, HitStep
<1>2. CASE NextRay
  BY <1>2, NextRayStep
<1>3. CASE InitSolid
  BY <1>3, OtherMeshStep DEF InitSolid
<1>4. CASE InitLines
  BY <1>4, OtherMeshStep DEF InitLines
<1>5. CASE InitFluid
  BY <1>5, OtherMeshStep DEF InitFluid
<1>6. CASE Built \/ UNCHANGED vars
  BY <1>6, OtherMeshStep DEF Built, vars
<1> QED
  BY <1>1, <1>2, <1>3, <1>4, <1>5, <1>6 DEF Next

(* The invariant has the property. *)
LEMMA InvBrackets == ASSUME MeshInv PROVE HitsBracketed
<1> SUFFICES ASSUME Regular, NEW d \in Active, NEW i \in DOMAIN R[d]
             PROVE  /\ i > 1 /\ R[d][i - 1].ray = R[d][i].ray => Less(R[d][i - 1].t, R[d][i].t)
                    /\ Bracketed(d, R[d][i])
  BY DEF HitsBracketed, Bracketed
<1>1. d \in Dirs /\ R[d] \in Seq(Hits) /\ i \in 1 .. Len(R[d])
  BY DEF MeshInv, MeshTyped, Active
<1>2. \A j \in 1 .. Len(R[d]) : R[d][j].t \in Nat /\ Bracketed(d, R[d][j])
  BY <1>1 DEF MeshInv, AllRecorded, Recorded
<1>3. ASSUME i > 1, R[d][i - 1].ray = R[d][i].ray PROVE Less(R[d][i - 1].t, R[d][i].t)
  <2>1. i \in 2 .. Len(R[d]) /\ i - 1 \in 1 .. Len(R[d])
    BY <1>1, <1>3
  <2>2. R[d][i - 1].t < R[d][i].t
    BY <1>1, <1>3, <2>1 DEF MeshInv, Ordered
  <2> QED
    BY <1>1, <1>2, <2>1, <2>2 DEF Less, NaN
<1> QED
  BY <1>1, <1>2, <1>3

(* On every mesh without a coincidence that rounding decides, whatever its *)
(* shapes and the error of the computed distances: successive              *)
(* intersections along a ray, each recorded in its cell, with a neighbour  *)
(* in the fluid on the grid and the psi of that neighbour.                 *)
THEOREM HitsAreBracketed == Spec => []HitsBracketed
<1>1. Init => MeshInv
  BY MeshStart
<1>2. MeshInv /\ [Next]_vars => MeshInv'
  BY MeshStep
<1>3. MeshInv => HitsBracketed
  BY InvBrackets
<1> QED
  BY <1>1, <1>2, <1>3, PTL DEF Spec

-----------------------------------------------------------------------------
(* FlattenSeq *)

(* What is joined of the first i sequences, from what was before it. *)
JoinedTo(before, ss, i) == IF i = 1 THEN ss[i] ELSE before \o ss[i]

(* The recursion of FlattenSeq over the first m sequences. *)
Flattens(f, ss, m) == f = [i \in 1 .. m |-> JoinedTo(f[i - 1], ss, i)]

(* It has a solution. *)
LEMMA FlattensExists ==
  ASSUME NEW ss, NEW m \in Nat
  PROVE  \E f : Flattens(f, ss, m)
<1> DEFINE Good == {l \in 0 .. m : \E f : Flattens(f, ss, l)}
<1>1. 0 \in Good
  <2> DEFINE f == [i \in 1 .. 0 |-> <<>>]
  <2>1. Flattens(f, ss, 0)
    BY DEF Flattens
  <2> QED
    BY <2>1
<1>2. ASSUME NEW l \in 0 .. m - 1, l \in Good PROVE l + 1 \in Good
  <2>1. PICK f : Flattens(f, ss, l)
    BY <1>2
  <2>2. \A i \in 1 .. l : f[i] = JoinedTo(f[i - 1], ss, i)
    BY <2>1 DEF Flattens
  <2>3. PICK new : new = JoinedTo(f[l], ss, l + 1)
    OBVIOUS
  <2> DEFINE g == [i \in 1 .. l + 1 |-> IF i = l + 1 THEN new ELSE f[i]]
  <2>4. ASSUME NEW i \in 1 .. l + 1 PROVE g[i] = JoinedTo(g[i - 1], ss, i)
    <3>1. CASE i = 1
      <4>1. g[i] = JoinedTo(f[i - 1], ss, i)
        <5>1. CASE l = 0
          BY <2>3, <3>1, <5>1
        <5>2. CASE l # 0
          <6>1. i \in 1 .. l /\ g[i] = f[i]
            BY <3>1, <5>2
          <6> QED
            BY <2>2, <6>1, Zenon
        <5> QED
          BY <5>1, <5>2
      <4> HIDE DEF g
      <4> QED
        BY <3>1, <4>1 DEF JoinedTo
    <3>2. CASE i = l + 1 /\ i # 1
      <4>1. g[i - 1] = f[l] /\ g[i] = new
        BY <3>2
      <4> QED
        BY <2>3, <3>2, <4>1, Zenon
    <3>3. CASE i \in 2 .. l
      <4>1. g[i] = f[i] /\ g[i - 1] = f[i - 1] /\ i \in 1 .. l
        BY <3>3
      <4>2. f[i] = JoinedTo(f[i - 1], ss, i)
        BY <2>2, <4>1
      <4> HIDE DEF g
      <4> QED
        BY <4>1, <4>2, Zenon
    <3> QED
      BY <3>1, <3>2, <3>3
  <2>5. g = [i \in 1 .. l + 1 |-> g[i]]
    OBVIOUS
  <2> HIDE DEF g
  <2>6. g = [i \in 1 .. l + 1 |-> JoinedTo(g[i - 1], ss, i)]
    BY <2>4, <2>5, Zenon
  <2>7. Flattens(g, ss, l + 1)
    BY <2>6 DEF Flattens
  <2> QED
    BY <2>7
<1>3. 0 .. m \subseteq Good
  <2> HIDE DEF Good
  <2> QED
    BY <1>1, <1>2, Induction
<1> QED
  BY <1>3

(* What FlattenSeq stands for. *)
LEMMA FlattenIs ==
  ASSUME NEW T, NEW ss \in Seq(Seq(T)), ss # <<>>
  PROVE  \E f \in [1 .. Len(ss) -> Seq(T)] :
           /\ f[1] = ss[1]
           /\ \A i \in 2 .. Len(ss) : f[i] = f[i - 1] \o ss[i]
           /\ FlattenSeq(ss) = f[Len(ss)]
<1> DEFINE Solves(c) == c = [i \in 1 .. Len(ss) |-> IF i = 1 THEN ss[i] ELSE c[i - 1] \o ss[i]]
           f == CHOOSE c : Solves(c)
<1>1. Len(ss) \in Nat \ {0}
  OBVIOUS
<1>2. PICK g : Flattens(g, ss, Len(ss))
  BY <1>1, FlattensExists
<1>3. f = [i \in 1 .. Len(ss) |-> IF i = 1 THEN ss[i] ELSE f[i - 1] \o ss[i]]
  <2>1. Solves(g)
    BY <1>2 DEF Flattens, JoinedTo
  <2>2. Solves(f)
    <3> HIDE DEF Solves
    <3> QED
      BY <2>1, Zenon
  <2> HIDE DEF f
  <2> QED
    BY <2>2
<1>4. FlattenSeq(ss) = f[Len(ss)]
  BY <1>1 DEF FlattenSeq
<1> HIDE DEF f
<1>5. f[1] = ss[1] /\ \A i \in 2 .. Len(ss) : f[i] = f[i - 1] \o ss[i]
  <2>1. \A i \in 1 .. Len(ss) : f[i] = IF i = 1 THEN ss[i] ELSE f[i - 1] \o ss[i]
    BY <1>3
  <2>2. f[1] = ss[1]
    BY <1>1, <2>1
  <2>3. ASSUME NEW i \in 2 .. Len(ss) PROVE f[i] = f[i - 1] \o ss[i]
    <3>1. i \in 1 .. Len(ss) /\ i # 1
      BY <1>1
    <3> QED
      BY <2>1, <3>1
  <2> QED
    BY <2>2, <2>3
<1>6. \A i \in 1 .. Len(ss) : f[i] \in Seq(T)
  <2> DEFINE Good == {m \in Nat : m + 1 <= Len(ss) => f[m + 1] \in Seq(T)}
  <2>1. 0 \in Good
    BY <1>1, <1>5
  <2>2. ASSUME NEW m \in 0 .. Len(ss) - 1 - 1, m \in Good PROVE m + 1 \in Good
    <3>1. f[m + 1] \in Seq(T) /\ ss[m + 2] \in Seq(T)
      BY <1>1, <2>2
    <3>2. f[m + 2] = f[m + 1] \o ss[m + 2]
      <4>1. m + 2 \in 2 .. Len(ss) /\ (m + 2) - 1 = m + 1
        BY <1>1
      <4> QED
        BY <1>5, <4>1
    <3>3. f[m + 2] \in Seq(T) /\ (m + 1) + 1 = m + 2
      BY <3>1, <3>2
    <3> QED
      BY <3>3
  <2> HIDE DEF Good
  <2>3. 0 .. Len(ss) - 1 \subseteq Good
    <3>1. Len(ss) - 1 \in Nat
      BY <1>1
    <3> QED
      BY <3>1, <2>1, <2>2, Induction
  <2>4. ASSUME NEW i \in 1 .. Len(ss) PROVE f[i] \in Seq(T)
    <3>1. i - 1 \in Good
      <4>1. i - 1 \in 0 .. Len(ss) - 1
        BY <1>1
      <4> QED
        BY <2>3, <4>1
    <3> QED
      BY <1>1, <3>1 DEF Good
  <2> QED
    BY <2>4
<1>7. f \in [1 .. Len(ss) -> Seq(T)]
  BY <1>3, <1>6
<1> QED
  BY <1>4, <1>5, <1>7

(* Nothing joined is nothing.                                              *)
LEMMA FlattenEmpty == FlattenSeq(<<>>) = <<>>
  BY DEF FlattenSeq

(* One sequence more is appended. *)
LEMMA FlattenAppend ==
  ASSUME NEW T, NEW ss \in Seq(Seq(T)), NEW s \in Seq(T)
  PROVE  FlattenSeq(Append(ss, s)) = FlattenSeq(ss) \o s /\ FlattenSeq(ss) \in Seq(T)
<1> DEFINE tt == Append(ss, s)
<1>1. tt \in Seq(Seq(T)) /\ tt # <<>> /\ Len(tt) = Len(ss) + 1 /\ Len(ss) \in Nat
      /\ tt[Len(ss) + 1] = s /\ \A i \in 1 .. Len(ss) : tt[i] = ss[i]
  <2>1. PICK Sq : Sq = Seq(T)
    OBVIOUS
  <2>2. ss \in Seq(Sq) /\ s \in Sq
    BY <2>1
  <2>3. tt \in Seq(Sq) /\ tt # <<>> /\ Len(tt) = Len(ss) + 1 /\ Len(ss) \in Nat
        /\ tt[Len(ss) + 1] = s /\ \A i \in 1 .. Len(ss) : tt[i] = ss[i]
    BY <2>2, AppendProperties
  <2> QED
    BY <2>1, <2>3
<1> HIDE DEF tt
<1>2. PICK g \in [1 .. Len(tt) -> Seq(T)] :
             /\ g[1] = tt[1] /\ \A i \in 2 .. Len(tt) : g[i] = g[i - 1] \o tt[i]
             /\ FlattenSeq(tt) = g[Len(tt)]
  BY <1>1, FlattenIs
<1>3. CASE ss = <<>>
  <2>1. FlattenSeq(tt) = s
    BY <1>1, <1>2, <1>3
  <2>2. <<>> \o s = s /\ <<>> \in Seq(T)
    BY ConcatEmptySeq
  <2>3. FlattenSeq(ss) = <<>>
    BY <1>3, FlattenEmpty
  <2> QED
    BY <2>1, <2>2, <2>3 DEF tt
<1>4. CASE ss # <<>>
  <2>1. PICK f \in [1 .. Len(ss) -> Seq(T)] :
               /\ f[1] = ss[1] /\ \A i \in 2 .. Len(ss) : f[i] = f[i - 1] \o ss[i]
               /\ FlattenSeq(ss) = f[Len(ss)]
    BY <1>4, FlattenIs
  <2>2. Len(ss) \in Nat \ {0}
    BY <1>4
  <2> DEFINE Good == {m \in Nat : m + 1 <= Len(ss) => g[m + 1] = f[m + 1]}
  <2>3. 0 \in Good
    BY <1>1, <1>2, <2>1, <2>2
  <2>4. ASSUME NEW m \in 0 .. (Len(ss) - 1) - 1, m \in Good PROVE m + 1 \in Good
    <3>1. m + 1 \in Nat /\ m + 2 \in 2 .. Len(ss) /\ m + 2 \in 2 .. Len(tt) /\ m + 2 \in 1 .. Len(ss)
          /\ (m + 2) - 1 = m + 1 /\ (m + 1) + 1 = m + 2
      BY <1>1, <2>2
    <3>2. g[m + 2] = g[m + 1] \o tt[m + 2] /\ f[m + 2] = f[m + 1] \o ss[m + 2]
      BY <1>2, <2>1, <3>1
    <3>3. g[m + 2] = f[m + 2]
      <4>1. g[m + 1] = f[m + 1]
        BY <2>4, <3>1
      <4>2. tt[m + 2] = ss[m + 2]
        BY <1>1, <3>1
      <4> QED
        BY <3>2, <4>1, <4>2
    <3> QED
      BY <3>1, <3>3
  <2> HIDE DEF Good
  <2>5. 0 .. Len(ss) - 1 \subseteq Good
    <3>1. Len(ss) - 1 \in Nat
      BY <2>2
    <3> QED
      BY <3>1, <2>3, <2>4, Induction
  <2>6. g[Len(ss)] = f[Len(ss)]
    <3>1. Len(ss) - 1 \in Good
      <4>1. Len(ss) - 1 \in 0 .. Len(ss) - 1
        BY <2>2
      <4> QED
        BY <2>5, <4>1
    <3> QED
      BY <2>2, <3>1 DEF Good
  <2>7. g[Len(ss) + 1] = g[Len(ss)] \o s
    <3>1. Len(ss) + 1 \in 2 .. Len(tt) /\ (Len(ss) + 1) - 1 = Len(ss)
      BY <1>1, <2>2
    <3> QED
      BY <1>1, <1>2, <3>1
  <2>8. f[Len(ss)] \in Seq(T)
    <3>1. Len(ss) \in 1 .. Len(ss)
      BY <2>2
    <3> QED
      BY <2>1, <3>1
  <2> QED
    BY <1>1, <1>2, <2>1, <2>6, <2>7, <2>8 DEF tt
<1> QED
  BY <1>3, <1>4

(* What is flattened is a sequence of the same elements. *)
LEMMA FlattenTyped ==
  ASSUME NEW T, NEW ss \in Seq(Seq(T))
  PROVE  FlattenSeq(ss) \in Seq(T)
<1>1. <<>> \in Seq(T)
  OBVIOUS
<1> QED
  BY <1>1, FlattenAppend

(* Element j of sequence x comes after those of the sequences before x.    *)
LEMMA FlattenAt ==
  ASSUME NEW T, NEW ss \in Seq(Seq(T)), NEW x \in 1 .. Len(ss), NEW j \in 1 .. Len(ss[x])
  PROVE  LET at == Len(FlattenSeq(SubSeq(ss, 1, x - 1)))
         IN  at \in Nat /\ at + j <= Len(FlattenSeq(ss)) /\ FlattenSeq(ss)[at + j] = ss[x][j]
<1> DEFINE upTo(m) == SubSeq(ss, 1, m)
           flat(m) == FlattenSeq(upTo(m))
           at == Len(flat(x - 1))
<1>0. Len(ss) \in Nat /\ x - 1 \in 0 .. Len(ss) /\ ss[x] \in Seq(T)
  OBVIOUS
<1>1. \A m \in 0 .. Len(ss) : upTo(m) \in Seq(Seq(T))
  OBVIOUS
<1>2. \A m \in 0 .. Len(ss) : flat(m) \in Seq(T)
  <2> HIDE DEF upTo
  <2> QED
    BY <1>1, FlattenTyped
<1>3. ASSUME NEW m \in 0 .. Len(ss) - 1 PROVE flat(m + 1) = flat(m) \o ss[m + 1]
  <2>1. upTo(m + 1) = Append(upTo(m), ss[m + 1])
    OBVIOUS
  <2>2. m \in 0 .. Len(ss) /\ ss[m + 1] \in Seq(T)
    BY <1>0
  <2> HIDE DEF upTo
  <2> QED
    BY <1>1, <2>1, <2>2, FlattenAppend
<1> HIDE DEF flat, upTo
<1>4. at \in Nat
  BY <1>0, <1>2
<1> DEFINE Good == {m \in Nat : LET l == x + m IN
                                l <= Len(ss) => /\ at + j <= Len(flat(l)) /\ flat(l)[at + j] = ss[x][j]}
<1>5. 0 \in Good
  <2>1. flat(x) = flat(x - 1) \o ss[x]
    <3>1. x - 1 \in 0 .. Len(ss) - 1 /\ (x - 1) + 1 = x
      BY <1>0
    <3> QED
      BY <1>3, <3>1
  <2>2. flat(x - 1) \in Seq(T)
    BY <1>0, <1>2
  <2>3. at + j <= Len(flat(x)) /\ flat(x)[at + j] = ss[x][j]
    <3>1. j \in Nat /\ 1 <= j /\ j <= Len(ss[x]) /\ Len(ss[x]) \in Nat
      BY <1>0
    <3>2. PICK a, b : a \in Seq(T) /\ b \in Seq(T) /\ a = flat(x - 1) /\ b = ss[x]
      BY <1>0, <2>2
    <3>3. (a \o b)[Len(a) + j] = b[j] /\ Len(a) + j <= Len(a \o b)
      BY <3>1, <3>2, ConcatProperties
    <3> QED
      BY <2>1, <3>2, <3>3
  <2> QED
    BY <1>0, <2>3
<1>6. ASSUME NEW m \in 0 .. (Len(ss) - x) - 1, m \in Good PROVE m + 1 \in Good
  <2>1. x + m \in 0 .. Len(ss) - 1 /\ (x + m) + 1 = x + (m + 1) /\ x + m <= Len(ss)
    BY <1>0
  <2>2. flat((x + m) + 1) = flat(x + m) \o ss[(x + m) + 1]
    BY <1>3, <2>1
  <2>3. flat(x + m) \in Seq(T) /\ ss[(x + m) + 1] \in Seq(T)
    BY <1>0, <1>2, <2>1
  <2>4. at + j <= Len(flat(x + m)) /\ flat(x + m)[at + j] = ss[x][j]
    BY <1>6, <2>1
  <2>5. at + j <= Len(flat((x + m) + 1)) /\ flat((x + m) + 1)[at + j] = ss[x][j]
    <3>1. PICK a, b : a \in Seq(T) /\ b \in Seq(T) /\ a = flat(x + m) /\ b = ss[(x + m) + 1]
      BY <2>3
    <3>2. at + j \in 1 .. Len(a) /\ Len(a) \in Nat /\ Len(b) \in Nat
      <4>1. Len(a) \in Nat /\ Len(b) \in Nat
        BY <3>1
      <4>2. at + j <= Len(a)
        BY <2>4, <3>1, Zenon
      <4>3. j \in Nat \ {0}
        BY <1>0
      <4> HIDE DEF at
      <4> QED
        BY <1>4, <4>1, <4>2, <4>3
    <3>3. (a \o b)[at + j] = a[at + j] /\ Len(a \o b) = Len(a) + Len(b)
      BY <3>1, <3>2, ConcatProperties
    <3>4. at + j <= Len(a \o b)
      BY <3>2, <3>3
    <3>5. a[at + j] = ss[x][j]
      BY <2>4, <3>1
    <3> QED
      BY <2>2, <3>1, <3>3, <3>4, <3>5
  <2>6. m + 1 \in Nat
    OBVIOUS
  <2> QED
    BY <2>1, <2>5, <2>6
<1>7. Len(ss) - x \in Good
  <2>1. Len(ss) - x \in Nat /\ Len(ss) - x \in 0 .. Len(ss) - x
    BY <1>0
  <2> HIDE DEF Good
  <2>2. 0 .. Len(ss) - x \subseteq Good
    BY <2>1, <1>5, <1>6, Induction
  <2> QED
    BY <2>1, <2>2
<1>8. flat(Len(ss))[at + j] = ss[x][j] /\ at + j <= Len(flat(Len(ss)))
  <2>1. x + (Len(ss) - x) = Len(ss) /\ Len(ss) <= Len(ss)
    BY <1>0
  <2> QED
    BY <1>7, <2>1
<1>9. upTo(Len(ss)) = ss
  BY <1>0 DEF upTo
<1> QED
  BY <1>4, <1>8, <1>9 DEF flat, upTo

(* Sequences of one length make a sequence of as many times that length.   *)
LEMMA FlattenLen ==
  ASSUME NEW T, NEW ss \in Seq(Seq(T)), NEW w \in Nat, \A i \in 1 .. Len(ss) : Len(ss[i]) = w
  PROVE  Len(FlattenSeq(ss)) = Len(ss) * w
<1> DEFINE upTo(m) == SubSeq(ss, 1, m)
           flat(m) == FlattenSeq(upTo(m))
<1>0. Len(ss) \in Nat
  OBVIOUS
<1>1. ASSUME NEW m \in 0 .. Len(ss) - 1
      PROVE  flat(m + 1) = flat(m) \o ss[m + 1] /\ flat(m) \in Seq(T)
  <2>1. upTo(m + 1) = Append(upTo(m), ss[m + 1]) /\ upTo(m) \in Seq(Seq(T)) /\ ss[m + 1] \in Seq(T)
    OBVIOUS
  <2> HIDE DEF upTo
  <2> QED
    BY <2>1, FlattenAppend
<1>2. flat(0) = <<>>
  <2>1. upTo(0) = <<>>
    OBVIOUS
  <2> HIDE DEF upTo
  <2> QED
    BY <2>1, FlattenEmpty
<1>3. upTo(Len(ss)) = ss
  OBVIOUS
<1> HIDE DEF flat, upTo
<1> DEFINE Good == {m \in 0 .. Len(ss) : Len(flat(m)) = m * w}
<1>4. 0 \in Good
  BY <1>0, <1>2
<1>5. ASSUME NEW m \in 0 .. Len(ss) - 1, m \in Good PROVE m + 1 \in Good
  <2>1. ss[m + 1] \in Seq(T) /\ Len(ss[m + 1]) = w
    BY <1>0
  <2>2. Len(flat(m + 1)) = Len(flat(m)) + w
    BY <1>1, <2>1
  <2>3. m * w + w = (m + 1) * w
    OBVIOUS
  <2>4. Len(flat(m)) = m * w
    BY <1>5
  <2>5. Len(flat(m + 1)) = (m + 1) * w
    BY <2>2, <2>3, <2>4
  <2>6. m + 1 \in 0 .. Len(ss)
    BY <1>0
  <2> QED
    BY <2>5, <2>6
<1>6. 0 .. Len(ss) \subseteq Good
  <2> HIDE DEF Good
  <2> QED
    BY <1>0, <1>4, <1>5, Induction
<1>7. Len(flat(Len(ss))) = Len(ss) * w
  BY <1>0, <1>6
<1> QED
  BY <1>3, <1>7 DEF flat

-----------------------------------------------------------------------------
(* Lines *)

(* What a line may end at. *)
Ends(d) == {Wall, Nobody} \cup (1 .. Len(R[d]))

(* Lines with such ends.                                                   *)
Pieced(d) == [ray : Int, start : [at : Int, object : Ends(d)], end : [at : Int, object : Ends(d)]]

(* Numbers that are kept or left out make a sequence of numbers.           *)
LEMMA SelectedTyped ==
  ASSUME NEW m \in Nat, NEW g, DOMAIN g = 1 .. m,
         \A i \in 1 .. m : g[i] = <<i>> \/ g[i] = <<>>, g = [i \in 1 .. m |-> g[i]]
  PROVE  FlattenSeq(g) \in Seq(1 .. m)
<1>1. \A i \in 1 .. m : <<i>> \in Seq(1 .. m) /\ <<>> \in Seq(1 .. m)
  OBVIOUS
<1>2. g \in [1 .. m -> Seq(1 .. m)]
  BY <1>1
<1>3. PICK T : T = 1 .. m
  OBVIOUS
<1>4. g \in Seq(Seq(T))
  BY <1>2, <1>3
<1>5. FlattenSeq(g) \in Seq(T)
  BY <1>4, FlattenTyped
<1> QED
  BY <1>3, <1>5

(* The pieces of a ray are lines. *)
LEMMA PiecesTyped ==
  ASSUME MeshInv, NEW d \in Dirs, NEW r \in Int
  PROVE  Pieces(d, r) \in Seq(Pieced(d))
<1>0. R[d] \in Seq(Hits) /\ Len(R[d]) \in Nat /\ DOMAIN R[d] = 1 .. Len(R[d]) /\ n[d] \in Nat
  BY ConfigFacts DEF MeshInv, MeshTyped
<1>1. \A i \in 1 .. Len(R[d]) : R[d][i].at \in Int
  <2> SUFFICES ASSUME NEW i \in 1 .. Len(R[d]) PROVE R[d][i].at \in Int
    OBVIOUS
  <2>1. R[d][i] \in Hits
    BY <1>0
  <2> QED
    BY <2>1 DEF Hits
<1> DEFINE kept == [i \in DOMAIN R[d] |-> IF R[d][i].ray = r THEN <<i>> ELSE <<>>]
           h == HitsOn(d, r)
<1>2. h \in Seq(1 .. Len(R[d]))
  <2>1. DOMAIN kept = 1 .. Len(R[d]) /\ kept = [i \in 1 .. Len(R[d]) |-> kept[i]]
        /\ \A i \in 1 .. Len(R[d]) : kept[i] = <<i>> \/ kept[i] = <<>>
    BY <1>0
  <2>2. h = FlattenSeq(kept)
    BY DEF HitsOn
  <2> HIDE DEF kept, h
  <2>3. FlattenSeq(kept) \in Seq(1 .. Len(R[d]))
    BY <1>0, <2>1, SelectedTyped
  <2> QED
    BY <2>2, <2>3
<1> DEFINE closed(j) == IF j > Len(h) THEN Left(d, h, j) # Nobody ELSE R[d][h[j]].outside
           chosen == [j \in 1 .. Len(h) + 1 |-> IF closed(j) THEN <<j>> ELSE <<>>]
           ends == FlattenSeq(chosen)
           end(j) == IF j > Len(h) THEN Wall ELSE h[j]
           piece(i) == [ray |-> r, start |-> Boundary(d, Left(d, h, ends[i]), 0),
                        end |-> Boundary(d, end(ends[i]), n[d] - 1)]
<1>3. Pieces(d, r) = [i \in DOMAIN ends |-> piece(i)]
  BY DEF Pieces
<1> HIDE DEF h
<1>4. Len(h) \in Nat /\ \A j \in 1 .. Len(h) : h[j] \in 1 .. Len(R[d])
  BY <1>2
<1>5. ends \in Seq(1 .. Len(h) + 1)
  <2>1. DOMAIN chosen = 1 .. Len(h) + 1 /\ chosen = [i \in 1 .. Len(h) + 1 |-> chosen[i]]
        /\ \A i \in 1 .. Len(h) + 1 : chosen[i] = <<i>> \/ chosen[i] = <<>>
    OBVIOUS
  <2> HIDE DEF chosen
  <2> QED
    BY <1>4, <2>1, SelectedTyped
<1> HIDE DEF ends
<1>6. \A o \in Ends(d), wall \in Int : Boundary(d, o, wall) \in [at : Int, object : Ends(d)]
  BY <1>1 DEF Boundary, Ends
<1>7. ASSUME NEW i \in DOMAIN ends PROVE piece(i) \in Pieced(d)
  <2>1. ends[i] \in 1 .. Len(h) + 1
    BY <1>5
  <2>2. end(ends[i]) \in Ends(d)
    BY <1>4, <2>1 DEF Ends
  <2>3. Left(d, h, ends[i]) \in Ends(d)
    <3>1. CASE ends[i] = 1
      BY <3>1 DEF Left, Ends
    <3>2. CASE ends[i] # 1
      <4>1. ends[i] - 1 \in 1 .. Len(h)
        BY <1>4, <2>1, <3>2
      <4>2. h[ends[i] - 1] \in 1 .. Len(R[d])
        BY <1>4, <4>1
      <4> QED
        BY <3>2, <4>2 DEF Left, Ends
    <3> QED
      BY <3>1, <3>2
  <2>4. n[d] - 1 \in Int /\ 0 \in Int
    BY <1>0
  <2>5. /\ Boundary(d, Left(d, h, ends[i]), 0) \in [at : Int, object : Ends(d)]
        /\ Boundary(d, end(ends[i]), n[d] - 1) \in [at : Int, object : Ends(d)]
    BY <1>6, <2>2, <2>3, <2>4
  <2> QED
    BY <2>5 DEF Pieced
<1> HIDE DEF piece
<1>8. [i \in DOMAIN ends |-> piece(i)] \in Seq(Pieced(d))
  <2>1. DOMAIN ends = 1 .. Len(ends) /\ Len(ends) \in Nat
    BY <1>5
  <2> QED
    BY <1>7, <2>1
<1> QED
  BY <1>3, <1>8

(* The lines of a direction are lines. *)
LEMMA LinesTyped ==
  ASSUME MeshInv, NEW d \in Dirs
  PROVE  LinesOf(d) \in Seq(Pieced(d))
<1>1. CASE n[d] = 1
  BY <1>1 DEF LinesOf
<1>2. CASE n[d] # 1
  <2> DEFINE g == [r \in 1 .. Rays(d) |-> Pieces(d, r - 1)]
  <2>1. Rays(d) \in Nat
    <3>1. n[Slow(d)] \in Nat /\ n[Fast(d)] \in Nat
      BY ConfigFacts, Across DEF MeshInv, MeshTyped
    <3> QED
      BY <3>1 DEF Rays
  <2>2. PICK T : T = Pieced(d)
    OBVIOUS
  <2>3. \A r \in 1 .. Rays(d) : Pieces(d, r - 1) \in Seq(T)
    BY <2>1, <2>2, PiecesTyped
  <2>4. g \in Seq(Seq(T))
    BY <2>1, <2>3
  <2>5. LinesOf(d) = FlattenSeq(g)
    BY <1>2 DEF LinesOf
  <2> HIDE DEF g
  <2>6. FlattenSeq(g) \in Seq(T)
    BY <2>4, FlattenTyped
  <2> QED
    BY <2>2, <2>5, <2>6
<1> QED
  BY <1>1, <1>2

(* The candidates of a sphere that the ray meets. *)
LEMMA SphereTries ==
  ASSUME cfg \in Configs, NEW s, s.kind = "sphere", s.r2 \in Nat \ {0}, s.c \in [Dirs -> Int],
         NEW d \in Dirs, NEW pt \in [Dirs -> Int],
         NEW q, q = Discriminant(s, d, pt), NEW two, two = Candidates(s, d, pt)
  PROVE  /\ q \in Int /\ s.c[d] \in Int /\ cfg.err[d] \in {-2, 0, 2}
         /\ q > 0 => HalfChord(q) \in Nat /\ HalfChord(q) % 8 = 0 /\ DOMAIN two = 1 .. 2
         /\ q > 0 => two = <<[t |-> ((16 * s.c[d]) - HalfChord(q)) + cfg.err[d], outside |-> TRUE],
                             [t |-> ((16 * s.c[d]) + HalfChord(q)) + cfg.err[d], outside |-> FALSE]>>
         /\ ~(q > 0) => two = <<>>
<1>1. q \in Int
  BY Across DEF Discriminant, Square
<1>2. s.c[d] \in Int /\ cfg.err[d] \in {-2, 0, 2}
  <2>1. cfg.err \in [Dirs -> {-SnapTol, 0, SnapTol}]
    BY ConfigFacts
  <2> QED
    BY <2>1 DEF SnapTol
<1>3. ~(q > 0) => two = <<>>
  BY DEF Candidates
<1>4. ASSUME q > 0
      PROVE  /\ HalfChord(q) \in Nat /\ HalfChord(q) % 8 = 0 /\ DOMAIN two = 1 .. 2
             /\ two = <<[t |-> ((16 * s.c[d]) - HalfChord(q)) + cfg.err[d], outside |-> TRUE],
                        [t |-> ((16 * s.c[d]) + HalfChord(q)) + cfg.err[d], outside |-> FALSE]>>
  <2>1. HalfChord(q) \in Nat /\ HalfChord(q) % 8 = 0
    <3>1. q \in Nat \ {0}
      BY <1>1, <1>4
    <3> QED
      BY <3>1, ChordIs
  <2>2. two = <<[t |-> ((16 * s.c[d]) - HalfChord(q)) + cfg.err[d], outside |-> TRUE],
                [t |-> ((16 * s.c[d]) + HalfChord(q)) + cfg.err[d], outside |-> FALSE]>>
    BY <1>4 DEF Candidates, Quarter
  <2>3. DOMAIN two = 1 .. 2
    BY <2>2
  <2> QED
    BY <2>1, <2>2, <2>3
<1> QED
  BY <1>1, <1>2, <1>3, <1>4

(* A shape tries its candidates in the order of their distances. *)
LEMMA CandidatesAscend ==
  ASSUME cfg \in Configs, NEW i \in DOMAIN cfg.shapes, NEW d \in Dirs, NEW pt \in [Dirs -> Int],
         NEW x \in DOMAIN Candidates(cfg.shapes[i], d, pt),
         NEW y \in DOMAIN Candidates(cfg.shapes[i], d, pt)
  PROVE  /\ x \in Nat
         /\ x <= y => Candidates(cfg.shapes[i], d, pt)[x].t <= Candidates(cfg.shapes[i], d, pt)[y].t
<1> DEFINE s == cfg.shapes[i]
           c == Candidates(cfg.shapes[i], d, pt)
<1>1. CASE s.kind = "sphere" /\ s.r2 \in Nat \ {0} /\ s.c \in [Dirs -> Int]
  <2>1. PICK a : a = s
    OBVIOUS
  <2>2. a.kind = "sphere" /\ a.r2 \in Nat \ {0} /\ a.c \in [Dirs -> Int]
    BY <1>1, <2>1
  <2>3. PICK q : q = Discriminant(a, d, pt)
    OBVIOUS
  <2>4. PICK b : b = Candidates(a, d, pt)
    OBVIOUS
  <2>5. /\ q \in Int /\ a.c[d] \in Int /\ cfg.err[d] \in {-2, 0, 2}
        /\ q > 0 => HalfChord(q) \in Nat /\ DOMAIN b = 1 .. 2
        /\ q > 0 => b = <<[t |-> ((16 * a.c[d]) - HalfChord(q)) + cfg.err[d], outside |-> TRUE],
                          [t |-> ((16 * a.c[d]) + HalfChord(q)) + cfg.err[d], outside |-> FALSE]>>
        /\ ~(q > 0) => b = <<>>
    BY <2>2, <2>3, <2>4, SphereTries
  <2>6. x \in DOMAIN b /\ y \in DOMAIN b /\ b = c
    BY <2>1, <2>4
  <2> HIDE DEF c, s
  <2>7. q > 0
    BY <2>5, <2>6
  <2>8. b[1].t \in Int /\ b[2].t \in Int /\ b[1].t <= b[2].t
    <3>1. b[1].t = ((16 * a.c[d]) - HalfChord(q)) + cfg.err[d]
          /\ b[2].t = ((16 * a.c[d]) + HalfChord(q)) + cfg.err[d]
      BY <2>5, <2>7
    <3>2. a.c[d] \in Int /\ cfg.err[d] \in Int /\ HalfChord(q) \in Nat
      BY <2>5, <2>7
    <3> QED
      BY <3>1, <3>2
  <2>9. x \in 1 .. 2 /\ y \in 1 .. 2
    BY <2>5, <2>6, <2>7
  <2>10. x \in Nat /\ (x <= y => c[x].t <= c[y].t)
    BY <2>6, <2>8, <2>9
  <2> QED
    BY <2>10 DEF c, s
<1>2. CASE s.kind = "yz_rect" /\ s.x \in Nat /\ s.normal \in {-1, 1}
  <2>1. x = 1 /\ y = 1
    <3>1. CASE d = 0
      <4>1. c = <<[t |-> s.x, outside |-> s.normal < 0]>>
        BY <1>2, <3>1 DEF Candidates
      <4> QED
        BY <4>1
    <3>2. CASE d # 0 /\ s.x = Cell * pt[0]
      <4>1. c = <<[t |-> NaN, outside |-> FALSE]>>
        BY <1>2, <3>2 DEF Candidates
      <4> QED
        BY <4>1
    <3>3. CASE d # 0 /\ s.x # Cell * pt[0]
      <4>1. c = <<>>
        BY <1>2, <3>3 DEF Candidates
      <4> QED
        BY <4>1
    <3> QED
      BY <3>1, <3>2, <3>3
  <2>2. [t |-> c[1].t, outside |-> c[1].outside, shape |-> i].t \in Int
    <3> DEFINE h == [t |-> c[1].t, outside |-> c[1].outside, shape |-> i]
    <3>1. CandidateOf(h, d, pt)
      <4>1. h.shape = i /\ h.t = c[1].t /\ h.outside = c[1].outside
        OBVIOUS
      <4> QED
        BY <2>1, <4>1 DEF CandidateOf
    <3> HIDE DEF h
    <3>2. h.t \in Int
      BY <3>1, CandidateTyped
    <3> QED
      BY <3>2 DEF h
  <2> QED
    BY <2>1, <2>2
<1>3. \/ s.kind = "sphere" /\ s.r2 \in Nat \ {0} /\ s.c \in [Dirs -> Int]
      \/ s.kind = "yz_rect" /\ s.x \in Nat /\ s.normal \in {-1, 1}
  <2>1. i \in 1 .. Len(cfg.shapes)
    BY ConfigFacts
  <2> QED
    BY <2>1, ConfigFacts
<1> QED
  BY <1>1, <1>2, <1>3

(* A shape answers if it has a candidate between the limits, and none of   *)
(* those is closer than its answer.                                        *)
LEMMA HitOfLeast ==
  ASSUME cfg \in Configs, NEW d \in Dirs, NEW pt \in [Dirs -> Int], NEW lo, NEW hi,
         NEW g, CandidateOf(g, d, pt), Within(cfg.shapes[g.shape], g.t, lo, hi)
  PROVE  /\ HitOf(g.shape, d, pt, lo, hi) # {}
         /\ \A h \in HitOf(g.shape, d, pt, lo, hi) : h.t <= g.t
<1> DEFINE i == g.shape
           tried == Candidates(cfg.shapes[i], d, pt)
           within == {x \in DOMAIN tried : Within(cfg.shapes[i], tried[x].t, lo, hi)}
<1>1. i \in DOMAIN cfg.shapes
  BY DEF CandidateOf
<1>2. PICK y \in DOMAIN tried : g.t = tried[y].t
  <2>1. PICK y \in DOMAIN tried : g = [t |-> tried[y].t, outside |-> tried[y].outside, shape |-> i]
    BY DEF CandidateOf
  <2>2. g.t = tried[y].t
    BY <2>1
  <2> QED
    BY <2>2
<1>3. y \in within
  BY <1>2
<1>4. within \subseteq Nat
  BY <1>1, CandidatesAscend
<1>5. HitOf(i, d, pt, lo, hi) = {[t |-> tried[x].t, outside |-> tried[x].outside, shape |-> i] :
                                   x \in {z \in within : \A w \in within : z <= w}}
  BY DEF HitOf
<1>6. PICK x \in within : \A w \in within : x <= w
  <2> HIDE DEF within
  <2> QED
    BY <1>3, <1>4, LeastNat
<1>7. HitOf(i, d, pt, lo, hi) # {}
  <2> HIDE DEF within, tried
  <2> QED
    BY <1>5, <1>6
<1>8. ASSUME NEW h \in HitOf(i, d, pt, lo, hi) PROVE h.t <= g.t
  <2>1. PICK z \in within : (\A w \in within : z <= w)
               /\ h = [t |-> tried[z].t, outside |-> tried[z].outside, shape |-> i]
    <3> HIDE DEF within, tried
    <3> QED
      BY <1>5, <1>8
  <2>2. z <= y /\ z \in DOMAIN tried /\ h.t = tried[z].t
    BY <1>3, <2>1
  <2>3. tried[z].t <= tried[y].t
    BY <1>1, <1>2, <2>2, CandidatesAscend
  <2> QED
    BY <1>2, <2>2, <2>3
<1> QED
  BY <1>7, <1>8

(* What is between limits and not between lowered ones is as far as these. *)
LEMMA NotWithin ==
  ASSUME NEW s, NEW t \in Int, NEW t2 \in Int, NEW lo \in Nat, NEW hi \in Nat,
         t # NaN, t2 # NaN, Within(s, t, lo, hi), ~Within(s, t, lo, t2)
  PROVE  t2 <= t
BY DEF Within, Less, NaN

(* On a regular mesh closest_hit finds something if there is a candidate   *)
(* between the limits, and no candidate there is closer.                   *)
LEMMA ClosestLeast ==
  ASSUME cfg \in Configs, Regular, NEW d \in Dirs, NEW pt \in [Dirs -> Int], NEW lo \in Nat, NEW hi \in Nat,
         NEW g, CandidateOf(g, d, pt), Within(cfg.shapes[g.shape], g.t, lo, hi)
  PROVE  /\ ClosestHit(d, pt, lo, hi) # {}
         /\ \A h \in ClosestHit(d, pt, lo, hi) : h.t <= g.t
<1> DEFINE m == Len(cfg.shapes)
           Solves(c) ==
             c = [i \in 0 .. m |->
                   IF i = 0 THEN {}
                   ELSE LET a == HitOf(i, d, pt, lo, IF c[i - 1] = {} THEN hi
                                                     ELSE (CHOOSE b \in c[i - 1] : TRUE).t)
                        IN  IF a = {} THEN c[i - 1] ELSE a]
           f == CHOOSE c : Solves(c)
           Least(best) == best # {} /\ \A b \in best : b.t <= g.t
           Good == {i \in 0 .. m : /\ \A b \in f[i] : CandidateOf(b, d, pt) /\ Within(cfg.shapes[b.shape], b.t, lo, hi)
                                   /\ \A b, c \in f[i] : b.t <= c.t
                                   /\ g.shape <= i => Least(f[i])}
<1>0. m \in Nat /\ DOMAIN cfg.shapes = 1 .. m
  BY ConfigFacts
<1>1. ClosestHit(d, pt, lo, hi) = f[m]
  BY DEF ClosestHit
<1>2. Chain(f, m, d, pt, lo, hi)
  <2>1. PICK c : Chain(c, m, d, pt, lo, hi)
    BY <1>0, ChainExists
  <2> HIDE DEF m
  <2>2. Solves(c)
    BY <2>1 DEF Chain, Tried, Limit
  <2>3. Solves(f)
    <3> HIDE DEF Solves
    <3> QED
      BY <2>2
  <2> HIDE DEF f
  <2> QED
    BY <2>3 DEF Chain, Tried, Limit
<1> HIDE DEF f
<1>3. \A i \in 0 .. m : f[i] = IF i = 0 THEN {} ELSE Tried(f[i - 1], i, d, pt, lo, hi)
  BY <1>2 DEF Chain
<1>g. g.shape \in 1 .. m /\ g.t \in Int /\ g.t # NaN
  BY <1>0, CandidateTyped DEF CandidateOf
<1>4. 0 \in Good
  BY <1>0, <1>3, <1>g
<1>5. ASSUME NEW i \in 0 .. m - 1, i \in Good PROVE i + 1 \in Good
  <2> DEFINE best == f[i]
             limit == Limit(best, hi)
             answer == HitOf(i + 1, d, pt, lo, limit)
  <2>1. f[i + 1] = IF answer = {} THEN best ELSE answer
    <3>1. i + 1 \in 0 .. m /\ i + 1 # 0 /\ (i + 1) - 1 = i
      BY <1>0
    <3> QED
      BY <1>3, <3>1 DEF Tried
  <2>2. /\ \A b \in best : CandidateOf(b, d, pt) /\ Within(cfg.shapes[b.shape], b.t, lo, hi)
        /\ \A b, c \in best : b.t <= c.t
        /\ g.shape <= i => Least(best)
    BY <1>5
  <2>3. i + 1 \in DOMAIN cfg.shapes
    BY <1>0
  <2>4. \/ best = {} /\ limit = hi
        \/ \E b \in best : limit = b.t
    BY DEF Limit
  <2>5. ASSUME NEW b \in best, limit = b.t
        PROVE  b.t \in Int /\ b.t # NaN /\ CandidateOf(b, d, pt) /\ Within(cfg.shapes[b.shape], b.t, lo, hi)
    BY <2>2, CandidateTyped
  <2>6. ASSUME NEW a \in answer
        PROVE  /\ a.shape = i + 1 /\ a.t \in Int /\ a.t # NaN /\ CandidateOf(a, d, pt)
               /\ Within(cfg.shapes[a.shape], a.t, lo, limit)
               /\ Within(cfg.shapes[a.shape], a.t, lo, hi)
               /\ limit \in Int => a.t <= limit
    <3>1. a.shape = i + 1 /\ CandidateOf(a, d, pt) /\ Within(cfg.shapes[i + 1], a.t, lo, limit)
      BY <2>3, HitOfIs
    <3>2. a.t \in Int /\ a.t # NaN
      BY <3>1, CandidateTyped
    <3>3. Within(cfg.shapes[a.shape], a.t, lo, hi)
      <4>1. CASE best = {} /\ limit = hi
        BY <3>1, <4>1
      <4>2. CASE \E b \in best : limit = b.t
        <5>1. PICK b \in best : limit = b.t
          BY <4>2
        <5>2. b.t \in Int /\ b.t # NaN /\ Within(cfg.shapes[b.shape], b.t, lo, hi)
          BY <2>5, <5>1
        <5> HIDE DEF limit, answer, best
        <5> QED
          BY <3>1, <3>2, <5>1, <5>2, LoweredLimit
      <4> QED
        BY <2>4, <4>1, <4>2
    <3>4. limit \in Int /\ limit # NaN
      <4>1. CASE best = {} /\ limit = hi
        BY <4>1 DEF NaN
      <4>2. CASE \E b \in best : limit = b.t
        BY <2>5, <4>2
      <4> QED
        BY <2>4, <4>1, <4>2
    <3>5. a.t <= limit
      <4> HIDE DEF limit, answer, best
      <4> QED
        BY <3>1, <3>2, <3>4 DEF Within, Less, NaN
    <3> HIDE DEF limit, answer, best
    <3> QED
      BY <3>1, <3>2, <3>3, <3>5
  <2>7. limit \in Int /\ limit # NaN
    <3>1. CASE best = {} /\ limit = hi
      BY <3>1 DEF NaN
    <3>2. CASE \E b \in best : limit = b.t
      BY <2>5, <3>2
    <3> QED
      BY <2>4, <3>1, <3>2
  <2>8. ASSUME g.shape <= i, best # {} PROVE limit <= g.t
    BY <2>2, <2>4, <2>8
  <2>9. ASSUME g.shape = i + 1, Within(cfg.shapes[g.shape], g.t, lo, limit)
        PROVE  answer # {} /\ \A a \in answer : a.t <= g.t
    <3> HIDE DEF limit
    <3> QED
      BY <2>9, HitOfLeast
  <2>10. ASSUME g.shape = i + 1, ~Within(cfg.shapes[g.shape], g.t, lo, limit)
         PROVE  best # {} /\ limit <= g.t
    <3>1. best # {}
      BY <2>4, <2>10
    <3>2. limit <= g.t
      <4> HIDE DEF limit, answer, best
      <4> QED
        BY <1>g, <2>7, <2>10, NotWithin
    <3> QED
      BY <3>1, <3>2
  <2>11. ASSUME NEW a \in answer, NEW b \in answer PROVE a.t <= b.t
    <3>1. CandidateOf(b, d, pt) /\ b.shape = i + 1 /\ Within(cfg.shapes[b.shape], b.t, lo, limit)
      BY <2>6, <2>11
    <3> HIDE DEF limit
    <3>2. \A h \in HitOf(b.shape, d, pt, lo, limit) : h.t <= b.t
      BY <3>1, HitOfLeast
    <3> QED
      BY <3>1, <3>2
  <2>12. \A b \in best : b.t \in Int /\ (limit \in Int => b.t = limit)
    <3> SUFFICES ASSUME NEW b \in best PROVE b.t \in Int /\ (limit \in Int => b.t = limit)
      OBVIOUS
    <3>1. b.t \in Int
      BY <2>2, CandidateTyped
    <3>2. PICK c \in best : limit = c.t
      BY <2>4
    <3>3. b.t <= c.t /\ c.t <= b.t
      BY <2>2
    <3> HIDE DEF limit, best
    <3> QED
      BY <2>7, <3>1, <3>2, <3>3
  <2> HIDE DEF answer, best, limit
  <2>13. ASSUME g.shape <= i + 1 PROVE Least(f[i + 1])
    <3>1. g.shape <= i \/ g.shape = i + 1
      BY <1>g, <2>13
    <3>2. CASE answer = {}
      <4>1. best # {} /\ limit <= g.t
        BY <2>2, <2>8, <2>9, <2>10, <3>1, <3>2
      <4> QED
        BY <2>1, <2>7, <2>12, <3>2, <4>1
    <3>3. CASE answer # {}
      <4>1. \A a \in answer : a.t <= g.t
        <5> SUFFICES ASSUME NEW a \in answer PROVE a.t <= g.t
          OBVIOUS
        <5>1. a.t \in Int /\ a.t <= limit
          BY <2>6, <2>7
        <5>2. a.t <= g.t \/ limit <= g.t
          BY <2>2, <2>8, <2>9, <2>10, <3>1
        <5> QED
          BY <1>g, <2>7, <5>1, <5>2
      <4> QED
        BY <2>1, <3>3, <4>1
    <3> QED
      BY <3>2, <3>3
  <2>14. /\ \A b \in f[i + 1] : CandidateOf(b, d, pt) /\ Within(cfg.shapes[b.shape], b.t, lo, hi)
         /\ \A b, c \in f[i + 1] : b.t <= c.t
    BY <2>1, <2>2, <2>6, <2>11
  <2> QED
    BY <1>0, <2>13, <2>14
<1>6. 0 .. m \subseteq Good
  <2> HIDE DEF Good, m
  <2> QED
    BY <1>0, <1>4, <1>5, Induction
<1>7. Least(f[m])
  BY <1>0, <1>6, <1>g
<1> QED
  BY <1>1, <1>7

-----------------------------------------------------------------------------
(* Chords *)

(* Whether a ray meets the surface of a shape, which a rectangle's does on *)
(* every ray along x.                                                      *)
Cuts(i, d, r) ==
  LET s == cfg.shapes[i] IN
  IF s.kind = "sphere" THEN Discriminant(s, d, Origin(d, r)) > 0 ELSE d = 0

(* Where the ray enters the shape and where it leaves it, in exact         *)
(* arithmetic; a rectangle reaches beyond one end of the ray.              *)
Enter(i, d, r) ==
  LET s == cfg.shapes[i] IN
  IF s.kind = "sphere" THEN (16 * s.c[d]) - HalfChord(Discriminant(s, d, Origin(d, r)))
  ELSE IF s.normal < 0 THEN s.x ELSE -Cell
(* See Enter. *)
Leave(i, d, r) ==
  LET s == cfg.shapes[i] IN
  IF s.kind = "sphere" THEN (16 * s.c[d]) + HalfChord(Discriminant(s, d, Origin(d, r)))
  ELSE IF s.normal < 0 THEN s.x + Length(d) + Cell ELSE s.x

(* The error of the distances computed for a shape. *)
Shift(i, d) == IF cfg.shapes[i].kind = "sphere" THEN cfg.err[d] ELSE 0

(* Shapes that no ray finds in each other's way: two that meet a ray have  *)
(* more than the tolerance between their chords; and every shape that a    *)
(* ray has points of inside is met within the ends of the ray, so that a   *)
(* ray wholly inside a shape, of which it finds nothing, does not occur.   *)
Apart ==
  /\ \A d \in Active : \A r \in 0 .. Rays(d) - 1 : \A i, j \in DOMAIN cfg.shapes :
       i # j /\ Cuts(i, d, r) /\ Cuts(j, d, r) =>
         \/ Leave(i, d, r) + 2 * SnapTol < Enter(j, d, r)
         \/ Leave(j, d, r) + 2 * SnapTol < Enter(i, d, r)
  /\ \A d \in Active : \A pt \in Points : \A i \in DOMAIN cfg.shapes :
       InsideOf(cfg.shapes[i], pt) =>
         LET tried == Candidates(cfg.shapes[i], d, Origin(d, RayOf(d, pt))) IN
         \E x \in DOMAIN tried : Within(cfg.shapes[i], tried[x].t, 0, Length(d))

(* What is assumed of a shape. *)
IsSphere(s) == s.kind = "sphere" /\ s.r2 \in Nat \ {0} /\ s.c \in [Dirs -> Int]
(* See IsSphere. *)
IsRect(s) == s.kind = "yz_rect" /\ s.x \in Nat /\ s.normal \in {-1, 1}

(* Every shape is one of the two kinds. *)
LEMMA ShapeIs ==
  ASSUME cfg \in Configs, NEW i \in DOMAIN cfg.shapes
  PROVE  /\ IsSphere(cfg.shapes[i]) \/ IsRect(cfg.shapes[i])
         /\ i \in 1 .. Len(cfg.shapes) /\ Len(cfg.shapes) \in Nat
<1>1. i \in 1 .. Len(cfg.shapes) /\ Len(cfg.shapes) \in Nat
  BY ConfigFacts
<1>2. IsSphere(cfg.shapes[i]) \/ IsRect(cfg.shapes[i])
  BY <1>1, ConfigFacts DEF IsSphere, IsRect
<1> QED
  BY <1>1, <1>2

(* A shape with the numbers of its chord on a ray.                         *)
Chord(i, d, e, l, w) ==
  /\ e \in Int /\ l \in Int /\ w \in {-2, 0, 2}
  /\ e + 32 <= l
  /\ IF cfg.shapes[i].kind = "sphere" THEN e % 8 = 0 /\ l % 8 = 0
     ELSE /\ w = 0
          /\ IF cfg.shapes[i].normal < 0
             THEN e \in Nat /\ 2 < e % 64 /\ e % 64 < 62 /\ l > Length(d)
             ELSE l \in Nat /\ 2 < l % 64 /\ l % 64 < 62 /\ e < 0

(* The chord of a shape on a ray that meets it. *)
LEMMA ChordFacts ==
  ASSUME cfg \in Configs, Regular, NEW d \in Dirs, NEW r \in Int,
         NEW i \in DOMAIN cfg.shapes, Cuts(i, d, r)
  PROVE  Chord(i, d, Enter(i, d, r), Leave(i, d, r), Shift(i, d))
<1>1. PICK s : s = cfg.shapes[i]
  OBVIOUS
<1>2. cfg.err[d] \in {-2, 0, 2} /\ n[d] \in Nat \ {0}
  <2>1. cfg.err \in [Dirs -> {-SnapTol, 0, SnapTol}] /\ n \in [Dirs -> Nat \ {0}]
    BY ConfigFacts
  <2> QED
    BY <2>1 DEF SnapTol
<1>3. CASE IsSphere(s)
  <2>1. PICK q : q = Discriminant(s, d, Origin(d, r))
    OBVIOUS
  <2>2. q > 0
    BY <1>1, <1>3, <2>1 DEF Cuts, IsSphere
  <2>3. PICK two : two = Candidates(s, d, Origin(d, r))
    OBVIOUS
  <2>4. s.c[d] \in Int /\ HalfChord(q) \in Nat /\ HalfChord(q) % 8 = 0
    BY <1>3, <2>1, <2>2, <2>3, OriginIs, SphereTries DEF IsSphere
  <2>5. HalfChord(q) >= 16
    <3>1. q \in Int
      BY <1>3, <2>1, <2>3, OriginIs, SphereTries DEF IsSphere
    <3>2. \A x \in Int : 16 * x >= HalfChord(q) => Square(x) >= q
      BY <2>2, <3>1, ChordIs DEF Quarter
    <3>3. PICK h \in Nat : h = HalfChord(q)
      BY <2>4
    <3>4. h % 8 = 0 /\ ~(0 >= h)
      <4>1. 16 * 0 >= h => Square(0) >= q
        BY <3>2, <3>3
      <4> QED
        BY <2>2, <2>4, <3>1, <3>3, <4>1 DEF Square
    <3>5. h # 8
      <4>1. PICK m \in Nat : m = Root(q)
        BY <2>2, <3>1, RootIs
      <4>2. q < Square(m + 1)
        BY <2>2, <3>1, <4>1, RootIs
      <4>3. m # 0
        BY <2>2, <3>1, <4>1, RootIs, <4>2 DEF Square
      <4>4. h = 16 * m + IF Square(m) = q THEN 0 ELSE 8
        BY <3>3, <4>1 DEF HalfChord, Quarter
      <4> QED
        BY <4>1, <4>3, <4>4
    <3> QED
      BY <3>3, <3>4, <3>5
  <2>6. Enter(i, d, r) = (16 * s.c[d]) - HalfChord(q)
        /\ Leave(i, d, r) = (16 * s.c[d]) + HalfChord(q) /\ Shift(i, d) = cfg.err[d]
    BY <1>1, <1>3, <2>1 DEF Enter, Leave, Shift, IsSphere
  <2>7. PICK h \in Nat, c \in Int : h = HalfChord(q) /\ c = s.c[d]
    BY <2>4
  <2>8. h % 8 = 0 /\ h >= 16
    BY <2>4, <2>5, <2>7
  <2>9. PICK e \in Int, l \in Int : e = (16 * c) - h /\ l = (16 * c) + h
    <3>1. (16 * c) - h \in Int /\ (16 * c) + h \in Int
      OBVIOUS
    <3> QED
      BY <3>1, Zenon
  <2>10. e + 32 <= l /\ e % 8 = 0 /\ l % 8 = 0
    BY <2>8, <2>9
  <2>11. e = Enter(i, d, r) /\ l = Leave(i, d, r)
    BY <2>6, <2>7, <2>9
  <2>12. Chord(i, d, e, l, cfg.err[d])
    BY <1>1, <1>2, <1>3, <2>10 DEF Chord, IsSphere
  <2> QED
    BY <2>6, <2>11, <2>12
<1>4. CASE IsRect(s)
  <2>1. s.kind # "sphere" /\ s.x \in Nat /\ s.normal \in {-1, 1}
    BY <1>4 DEF IsRect
  <2>2. SnapTol < s.x % Cell /\ s.x % Cell < Cell - SnapTol
    BY <1>1, <1>4 DEF Regular, IsRect
  <2>3. PICK x \in Nat, last \in Nat : x = s.x /\ last = Length(d)
    BY <1>2, <2>1 DEF Length, Cell
  <2>4. 2 < x % 64 /\ x % 64 < 62
    BY <2>2, <2>3 DEF SnapTol, Cell
  <2>5. Shift(i, d) = 0
    BY <1>1, <2>1 DEF Shift
  <2>6. CASE s.normal < 0
    <3>1. Enter(i, d, r) = x /\ Leave(i, d, r) = x + last + 64
      BY <1>1, <2>1, <2>3, <2>6 DEF Enter, Leave, Cell
    <3>2. Chord(i, d, x, x + last + 64, 0)
      BY <1>1, <2>1, <2>3, <2>4, <2>6 DEF Chord
    <3> QED
      BY <2>5, <3>1, <3>2
  <2>7. CASE ~(s.normal < 0)
    <3>1. Enter(i, d, r) = -64 /\ Leave(i, d, r) = x
      BY <1>1, <2>1, <2>3, <2>7 DEF Enter, Leave, Cell
    <3>2. Chord(i, d, -64, x, 0)
      BY <1>1, <2>1, <2>3, <2>4, <2>7 DEF Chord
    <3> QED
      BY <2>5, <3>1, <3>2
  <2> QED
    BY <2>6, <2>7
<1> QED
  BY <1>1, <1>3, <1>4, ShapeIs

(* On a regular mesh a candidate is where the ray enters its shape or      *)
(* leaves it, up to the error.                                             *)
LEMMA CandidateEnds ==
  ASSUME cfg \in Configs, Regular, NEW d \in Dirs, NEW r \in Int,
         NEW h, CandidateOf(h, d, Origin(d, r))
  PROVE  /\ h.shape \in DOMAIN cfg.shapes /\ Cuts(h.shape, d, r)
         /\ h.outside \in BOOLEAN /\ h.t \in Int
         /\ h.outside => h.t = Enter(h.shape, d, r) + Shift(h.shape, d)
         /\ ~h.outside => h.t = Leave(h.shape, d, r) + Shift(h.shape, d)
         /\ cfg.shapes[h.shape].kind # "sphere" => (h.outside = (cfg.shapes[h.shape].normal < 0))
<1>1. PICK i \in DOMAIN cfg.shapes : i = h.shape
  BY DEF CandidateOf
<1>2. PICK s : s = cfg.shapes[i]
  OBVIOUS
<1>3. PICK pt \in [Dirs -> Int] : pt = Origin(d, r)
  BY OriginIs
<1>4. PICK two : two = Candidates(s, d, pt)
  OBVIOUS
<1>5. PICK x \in DOMAIN two : h.t = two[x].t /\ h.outside = two[x].outside
  <2>1. PICK x \in DOMAIN two : h = [t |-> two[x].t, outside |-> two[x].outside, shape |-> i]
    BY <1>1, <1>2, <1>3, <1>4 DEF CandidateOf
  <2>2. h.t = two[x].t /\ h.outside = two[x].outside
    BY <2>1
  <2> QED
    BY <2>2
<1>6. h.outside \in BOOLEAN /\ h.t \in Int
  BY <1>3, CandidateTyped
<1>7. CASE IsSphere(s)
  <2>1. PICK q : q = Discriminant(s, d, pt)
    OBVIOUS
  <2>2. /\ q \in Int /\ s.c[d] \in Int /\ cfg.err[d] \in {-2, 0, 2}
        /\ q > 0 => HalfChord(q) \in Nat /\ HalfChord(q) % 8 = 0 /\ DOMAIN two = 1 .. 2
        /\ q > 0 => two = <<[t |-> ((16 * s.c[d]) - HalfChord(q)) + cfg.err[d], outside |-> TRUE],
                            [t |-> ((16 * s.c[d]) + HalfChord(q)) + cfg.err[d], outside |-> FALSE]>>
        /\ ~(q > 0) => two = <<>>
    BY <1>4, <1>7, <2>1, SphereTries DEF IsSphere
  <2>3. q > 0
    BY <1>5, <2>2
  <2>4. Cuts(i, d, r) /\ s.kind = "sphere"
    BY <1>2, <1>3, <1>7, <2>1, <2>3 DEF Cuts, IsSphere
  <2>5. /\ Enter(i, d, r) = (16 * s.c[d]) - HalfChord(q)
        /\ Leave(i, d, r) = (16 * s.c[d]) + HalfChord(q) /\ Shift(i, d) = cfg.err[d]
    BY <1>2, <1>3, <1>7, <2>1 DEF Enter, Leave, Shift, IsSphere
  <2>6. x = 1 \/ x = 2
    BY <1>5, <2>2, <2>3
  <2>7. CASE x = 1
    <3>1. h.outside /\ h.t = ((16 * s.c[d]) - HalfChord(q)) + cfg.err[d]
      BY <1>5, <2>2, <2>3, <2>7
    <3> QED
      BY <1>1, <1>2, <1>6, <2>4, <2>5, <3>1
  <2>8. CASE x = 2
    <3>1. ~h.outside /\ h.t = ((16 * s.c[d]) + HalfChord(q)) + cfg.err[d]
      BY <1>5, <2>2, <2>3, <2>8
    <3> QED
      BY <1>1, <1>2, <1>6, <2>4, <2>5, <3>1
  <2> QED
    BY <2>6, <2>7, <2>8
<1>8. CASE IsRect(s)
  <2>1. SnapTol < s.x % Cell /\ s.kind # "sphere"
    BY <1>2, <1>8 DEF Regular, IsRect
  <2>2. s.x % Cell # 0
    BY <2>1 DEF SnapTol
  <2>3. d = 0 /\ two[x] = [t |-> s.x, outside |-> s.normal < 0]
    BY <1>4, <1>5, <1>8, <2>2, RectCandidates DEF IsRect
  <2>4. h.t = s.x /\ (h.outside = (s.normal < 0))
    <3>0. (s.normal < 0) \in BOOLEAN
      BY <1>8 DEF IsRect
    <3>1. PICK b \in BOOLEAN : b = (s.normal < 0)
      BY <3>0
    <3>2. two[x] = [t |-> s.x, outside |-> b]
      BY <2>3, <3>1, Zenon
    <3>3. h.t = s.x /\ h.outside = b
      BY <1>5, <3>2
    <3> QED
      BY <3>1, <3>3
  <2>5. Cuts(i, d, r) /\ Shift(i, d) = 0 /\ s.x \in Nat
    BY <1>2, <1>8, <2>1, <2>3 DEF Cuts, Shift, IsRect
  <2>6. h.outside => Enter(i, d, r) = s.x
    BY <1>2, <2>1, <2>4 DEF Enter
  <2>7. ~h.outside => Leave(i, d, r) = s.x
    BY <1>2, <2>1, <2>4 DEF Leave
  <2>8. s.x + 0 = s.x
    BY <2>5
  <2> QED
    BY <1>1, <1>2, <1>6, <2>1, <2>4, <2>5, <2>6, <2>7, <2>8
<1> QED
  BY <1>2, <1>7, <1>8, ShapeIs

(* A ray finds every end of a chord that is between its own ends. *)
LEMMA EndFound ==
  ASSUME cfg \in Configs, Regular, NEW d \in Dirs, NEW r \in Int,
         NEW i \in DOMAIN cfg.shapes, Cuts(i, d, r), NEW out \in BOOLEAN,
         NEW e, e = IF out THEN Enter(i, d, r) ELSE Leave(i, d, r), 0 < e, e < Length(d)
  PROVE  \E h : /\ Hitting(h, d, Origin(d, r), 0, Length(d))
                /\ h.shape = i /\ h.outside = out /\ h.t = e + Shift(i, d)
<1>1. PICK s : s = cfg.shapes[i]
  OBVIOUS
<1>2. PICK pt \in [Dirs -> Int] : pt = Origin(d, r)
  BY OriginIs
<1>3. PICK two : two = Candidates(s, d, pt)
  OBVIOUS
<1>4. Chord(i, d, Enter(i, d, r), Leave(i, d, r), Shift(i, d))
  BY ChordFacts
<1>5. e \in Int /\ Shift(i, d) \in {-2, 0, 2}
  BY <1>4 DEF Chord
<1>6. PICK w \in {-2, 0, 2} : w = Shift(i, d)
  BY <1>5
<1>7. PICK last \in Nat : Length(d) = 64 * last
  <2>1. n[d] \in Nat \ {0}
    BY ConfigFacts
  <2> QED
    BY <2>1 DEF Length, Cell
<1>8. SUFFICES \E x \in DOMAIN two : /\ two[x].t = e + w /\ two[x].outside = out
                                     /\ Within(s, e + w, 0, 64 * last)
  <2>1. PICK x \in DOMAIN two : /\ two[x].t = e + w /\ two[x].outside = out
                                /\ Within(s, e + w, 0, 64 * last)
    BY <1>8
  <2>2. PICK h : h = [t |-> two[x].t, outside |-> two[x].outside, shape |-> i]
    OBVIOUS
  <2>3. h.shape = i /\ h.outside = out /\ h.t = e + w
    BY <2>1, <2>2
  <2>4. CandidateOf(h, d, pt)
    BY <1>1, <1>3, <2>2, <2>3 DEF CandidateOf
  <2>5. Hitting(h, d, pt, 0, Length(d))
    BY <1>1, <1>7, <2>1, <2>3, <2>4 DEF Hitting
  <2> QED
    BY <1>2, <1>6, <2>3, <2>5
<1>9. CASE IsSphere(s)
  <2>1. PICK q : q = Discriminant(s, d, pt)
    OBVIOUS
  <2>2. q > 0
    BY <1>1, <1>2, <1>9, <2>1 DEF Cuts, IsSphere
  <2>3. /\ s.c[d] \in Int /\ cfg.err[d] \in {-2, 0, 2}
        /\ HalfChord(q) \in Nat /\ HalfChord(q) % 8 = 0 /\ DOMAIN two = 1 .. 2
        /\ two = <<[t |-> ((16 * s.c[d]) - HalfChord(q)) + cfg.err[d], outside |-> TRUE],
                   [t |-> ((16 * s.c[d]) + HalfChord(q)) + cfg.err[d], outside |-> FALSE]>>
    BY <1>3, <1>9, <2>1, <2>2, SphereTries DEF IsSphere
  <2>4. /\ Enter(i, d, r) = (16 * s.c[d]) - HalfChord(q)
        /\ Leave(i, d, r) = (16 * s.c[d]) + HalfChord(q) /\ w = cfg.err[d]
    BY <1>1, <1>2, <1>6, <1>9, <2>1 DEF Enter, Leave, Shift, IsSphere
  <2>5. e % 8 = 0
    <3>1. Enter(i, d, r) % 8 = 0 /\ Leave(i, d, r) % 8 = 0
      BY <1>1, <1>4, <1>9 DEF Chord, IsSphere
    <3> QED
      BY <3>1
  <2>6. 0 < e + w /\ e + w < 64 * last /\ e + w # -1
    BY <1>5, <1>7, <2>5
  <2>7. Within(s, e + w, 0, 64 * last)
    BY <1>5, <1>9, <2>6 DEF Within, Less, NaN, IsSphere
  <2>8. CASE out
    <3>1. two[1].t = e + w /\ two[1].outside = out
      BY <2>3, <2>4, <2>8
    <3> QED
      BY <2>3, <2>7, <3>1
  <2>9. CASE ~out
    <3>1. two[2].t = e + w /\ two[2].outside = out
      BY <2>3, <2>4, <2>9
    <3> QED
      BY <2>3, <2>7, <3>1
  <2> QED
    BY <2>8, <2>9
<1>10. CASE IsRect(s)
  <2>1. d = 0 /\ s.kind # "sphere" /\ s.x \in Nat
    BY <1>1, <1>10 DEF Cuts, IsRect
  <2>2. two = <<[t |-> s.x, outside |-> s.normal < 0]>>
    BY <1>3, <1>10, <2>1 DEF Candidates, IsRect
  <2>3. w = 0 /\ s.normal \in Int
    BY <1>1, <1>6, <1>10, <2>1 DEF Shift, IsRect
  <2>4. e = s.x /\ (out = (s.normal < 0))
    <3>1. CASE out
      <4>1. e = IF s.normal < 0 THEN s.x ELSE -Cell
        BY <1>1, <2>1, <3>1 DEF Enter
      <4>2. s.normal < 0
        BY <4>1 DEF Cell
      <4> QED
        BY <3>1, <4>1, <4>2
    <3>2. CASE ~out
      <4>1. e = IF s.normal < 0 THEN s.x + Length(d) + Cell ELSE s.x
        BY <1>1, <2>1, <3>2 DEF Leave
      <4>2. ~(s.normal < 0)
        BY <1>7, <2>1, <4>1 DEF Cell
      <4> QED
        BY <3>2, <4>1, <4>2
    <3> QED
      BY <3>1, <3>2
  <2>5. two = <<[t |-> s.x, outside |-> out]>>
    BY <2>2, <2>4, Zenon
  <2>6. two[1].t = e + w /\ two[1].outside = out /\ 1 \in DOMAIN two
    BY <2>1, <2>3, <2>4, <2>5
  <2>7. Within(s, e + w, 0, 64 * last)
    BY <1>5, <1>7, <2>1, <2>3 DEF Within, Less, NaN
  <2> QED
    BY <2>6, <2>7
<1> QED
  BY <1>1, <1>9, <1>10, ShapeIs

(* Two chords that are apart, found with the error of the one direction.   *)
LEMMA ApartNumbers ==
  ASSUME NEW e1 \in Int, NEW l1 \in Int, NEW e2 \in Int, NEW l2 \in Int,
         NEW err \in {-2, 0, 2}, NEW w1 \in {0, err}, NEW w2 \in {0, err},
         e1 + 32 <= l1, e2 + 32 <= l2, l1 + 4 < e2 \/ l2 + 4 < e1,
         NEW t1 \in {e1 + w1, l1 + w1}, NEW t2 \in {e2 + w2, l2 + w2}
  PROVE  t1 > t2 + 1 \/ t2 > t1 + 1
OBVIOUS

(* Candidates on a ray that are next to each other are the same. *)
LEMMA SameCandidate ==
  ASSUME cfg \in Configs, Regular, Apart, NEW d \in Active, NEW r \in 0 .. Rays(d) - 1,
         NEW g, CandidateOf(g, d, Origin(d, r)), NEW h, CandidateOf(h, d, Origin(d, r)),
         g.t <= h.t + 1, h.t <= g.t + 1
  PROVE  g.t = h.t /\ g.outside = h.outside /\ g.shape = h.shape
<1>0. d \in Dirs /\ r \in Int
  BY DEF Active
<1>1. PICK i \in DOMAIN cfg.shapes : i = g.shape
  BY DEF CandidateOf
<1>2. PICK j \in DOMAIN cfg.shapes : j = h.shape
  BY DEF CandidateOf
<1>3. PICK e1, l1, w1 : e1 = Enter(i, d, r) /\ l1 = Leave(i, d, r) /\ w1 = Shift(i, d)
  OBVIOUS
<1>4. PICK e2, l2, w2 : e2 = Enter(j, d, r) /\ l2 = Leave(j, d, r) /\ w2 = Shift(j, d)
  OBVIOUS
<1>5. /\ Cuts(i, d, r) /\ g.outside \in BOOLEAN /\ g.t \in Int
      /\ g.outside => g.t = e1 + w1
      /\ ~g.outside => g.t = l1 + w1
  BY <1>0, <1>1, <1>3, CandidateEnds
<1>6. /\ Cuts(j, d, r) /\ h.outside \in BOOLEAN /\ h.t \in Int
      /\ h.outside => h.t = e2 + w2
      /\ ~h.outside => h.t = l2 + w2
  BY <1>0, <1>2, <1>4, CandidateEnds
<1>7. e1 \in Int /\ l1 \in Int /\ w1 \in {-2, 0, 2} /\ e1 + 32 <= l1
  <2>1. Chord(i, d, e1, l1, w1)
    BY <1>0, <1>3, <1>5, ChordFacts
  <2> QED
    BY <2>1 DEF Chord
<1>8. e2 \in Int /\ l2 \in Int /\ w2 \in {-2, 0, 2} /\ e2 + 32 <= l2
  <2>1. Chord(j, d, e2, l2, w2)
    BY <1>0, <1>4, <1>6, ChordFacts
  <2> QED
    BY <2>1 DEF Chord
<1>9. i = j
  <2> SUFFICES ASSUME i # j PROVE FALSE
    OBVIOUS
  <2>1. l1 + 4 < e2 \/ l2 + 4 < e1
    BY <1>3, <1>4, <1>5, <1>6 DEF Apart, SnapTol
  <2>2. PICK err \in {-2, 0, 2} : err = cfg.err[d]
    <3>1. cfg.err \in [Dirs -> {-SnapTol, 0, SnapTol}]
      BY ConfigFacts
    <3> QED
      BY <1>0, <3>1 DEF SnapTol
  <2>3. w1 \in {0, err} /\ w2 \in {0, err}
    BY <1>3, <1>4, <2>2 DEF Shift
  <2>4. g.t \in {e1 + w1, l1 + w1} /\ h.t \in {e2 + w2, l2 + w2}
    BY <1>5, <1>6
  <2>5. g.t > h.t + 1 \/ h.t > g.t + 1
    BY <1>7, <1>8, <2>1, <2>2, <2>3, <2>4, ApartNumbers
  <2> QED
    BY <1>5, <1>6, <2>5
<1>10. e1 = e2 /\ l1 = l2 /\ w1 = w2
  BY <1>3, <1>4, <1>9
<1>11. g.outside = h.outside
  BY <1>5, <1>6, <1>7, <1>10
<1> QED
  BY <1>1, <1>2, <1>5, <1>6, <1>9, <1>10, <1>11

-----------------------------------------------------------------------------
(* What the search finds *)

(* A hit between the ends of a ray. *)
HitAt(h, d, r) == Hitting(h, d, Origin(d, r), 0, Length(d))

(* The hit that a record is of. *)
HitOfRecord(m) == [t |-> m.t, outside |-> m.outside, shape |-> m.shape]

(* There is a record of the hit. *)
Noted(d, r, h) ==
  \E j \in 1 .. Len(R[d]) : /\ R[d][j].ray = r /\ R[d][j].t = h.t
                            /\ R[d][j].outside = h.outside /\ R[d][j].shape = h.shape

(* Every record is of a hit on its ray. *)
Genuine ==
  Regular => \A d \in Dirs : \A i \in 1 .. Len(R[d]) : HitAt(HitOfRecord(R[d][i]), d, R[d][i].ray)

(* The records are in the order of the rays, and along each ray in order. *)
Sorted ==
  Regular => \A d \in Dirs : \A i, j \in 1 .. Len(R[d]) : i < j =>
               /\ R[d][i].ray <= R[d][j].ray
               /\ R[d][i].ray = R[d][j].ray => R[d][i].t < R[d][j].t

(* The search goes on from the last hit.                                   *)
FromLast ==
  Regular /\ Apart /\ phase = "cast" =>
    tmin = 0 \/ \E j \in 1 .. Len(R[dir]) : R[dir][j].ray = k /\ R[dir][j].t + 1 = tmin

(* How far the search has come along a ray: beyond t. *)
Past(d, r, t) ==
  \/ phase # "cast" \/ d < dir
  \/ d = dir /\ r < k
  \/ d = dir /\ r = k /\ t < tmin

(* Every hit that the search is past has been recorded. *)
Searched ==
  Regular /\ Apart => \A d \in Dirs : \A r \in 0 .. Rays(d) - 1 : \A h :
    HitAt(h, d, r) /\ Past(d, r, h.t) => Noted(d, r, h)

(* The inductive invariant with what the search has found. *)
FoundInv == MeshInv /\ Genuine /\ Sorted /\ FromLast /\ Searched

(* Hits and chords are those of the mesh, which does not change. *)
LEMMA HitsKept ==
  ASSUME cfg' = cfg
  PROVE  (Apart' = Apart) /\ \A h, d, r : HitAt(h, d, r)' = HitAt(h, d, r)
<1>1. Apart' = Apart
  BY DEF Apart, Active, n, Rays, Cuts, Enter, Leave, Candidates, Origin, Length, RayOf, Points
<1>2. Regular' = Regular
  BY ConfigKept
<1>3. \A h, d, r : HitAt(h, d, r)' = HitAt(h, d, r)
  <2> SUFFICES ASSUME NEW h, NEW d, NEW r PROVE HitAt(h, d, r)' = HitAt(h, d, r)
    OBVIOUS
  <2>1. CandidateOf(h, d, Origin(d, r))' = CandidateOf(h, d, Origin(d, r))
    BY DEF CandidateOf, Candidates, Origin, n
  <2>2. Length(d)' = Length(d)
    BY DEF Length, n
  <2> QED
    BY <1>2, <2>1, <2>2 DEF HitAt, Hitting
<1> QED
  BY <1>1, <1>3

(* The search begins with nothing found. *)
LEMMA FoundStart == Init => FoundInv
<1> SUFFICES ASSUME Init PROVE FoundInv
  OBVIOUS
<1>1. cfg \in Configs /\ phase = "cast" /\ dir = 0 /\ k = 0 /\ tmin = 0 /\ R = [d \in Dirs |-> <<>>]
  BY DEF Init
<1>2. MeshInv
  BY MeshStart
<1>3. Genuine /\ Sorted /\ FromLast
  BY <1>1 DEF Genuine, Sorted, FromLast
<1>4. Searched
  <2> SUFFICES ASSUME Regular, Apart, NEW d \in Dirs, NEW r \in 0 .. Rays(d) - 1, NEW h,
                      HitAt(h, d, r), Past(d, r, h.t)
               PROVE  FALSE
    BY DEF Searched
  <2>1. d = 0 /\ r = 0 /\ h.t < 0
    BY <1>1 DEF Past, Dirs
  <2>2. h.t \in Nat
    <3>1. Hitting(h, d, Origin(d, r), 0, Length(d))
      BY DEF HitAt
    <3> QED
      BY <1>1, <3>1, HitBracketed
  <2> QED
    BY <2>1, <2>2
<1> QED
  BY <1>2, <1>3, <1>4 DEF FoundInv

(* Two hits of a ray at the same end of the same shape are the same. *)
LEMMA SameEnd ==
  ASSUME cfg \in Configs, Regular, NEW d \in Dirs, NEW r \in Int,
         NEW g, HitAt(g, d, r), NEW h, HitAt(h, d, r), g.shape = h.shape, g.outside = h.outside
  PROVE  g.t = h.t
<1>1. CandidateOf(g, d, Origin(d, r)) /\ CandidateOf(h, d, Origin(d, r))
  BY DEF HitAt, Hitting
<1>2. /\ g.outside \in BOOLEAN
      /\ g.outside => g.t = Enter(g.shape, d, r) + Shift(g.shape, d)
      /\ ~g.outside => g.t = Leave(g.shape, d, r) + Shift(g.shape, d)
  BY <1>1, CandidateEnds
<1>3. /\ h.outside => h.t = Enter(h.shape, d, r) + Shift(h.shape, d)
      /\ ~h.outside => h.t = Leave(h.shape, d, r) + Shift(h.shape, d)
  BY <1>1, CandidateEnds
<1> QED
  BY <1>2, <1>3

(* A number for the end of a shape. *)
EndNumber(h) == (2 * h.shape) - IF h.outside THEN 1 ELSE 0

(* The number of an end of one of the shapes. *)
LEMMA EndNumbered ==
  ASSUME NEW m \in Nat, NEW a \in 1 .. m, NEW b \in 1 .. m, NEW x \in BOOLEAN, NEW y \in BOOLEAN,
         NEW p, p = (2 * a) - (IF x THEN 1 ELSE 0), NEW q, q = (2 * b) - (IF y THEN 1 ELSE 0)
  PROVE  /\ p \in 1 .. 2 * m
         /\ p = q => a = b /\ x = y
<1>1. CASE x /\ y
  BY <1>1
<1>2. CASE x /\ ~y
  <2>1. p = (2 * a) - 1 /\ q = 2 * b
    BY <1>2
  <2>2. p # q /\ p \in 1 .. 2 * m
    BY <2>1
  <2> QED
    BY <2>2
<1>3. CASE ~x /\ y
  <2>1. p = 2 * a /\ q = (2 * b) - 1
    BY <1>3
  <2>2. p # q /\ p \in 1 .. 2 * m
    BY <2>1
  <2> QED
    BY <2>2
<1>4. CASE ~x /\ ~y
  BY <1>4
<1> QED
  BY <1>1, <1>2, <1>3, <1>4

(* On a regular mesh no ray has more hits than are kept. *)
LEMMA RoomLeft ==
  ASSUME MeshInv, Genuine, Sorted, Regular, phase = "cast", NEW h,
         HitAt(h, dir, k), tmin <= h.t
  PROVE  OnRay < MaxHits
<1>0. /\ cfg \in Configs /\ dir \in Dirs /\ k \in 0 .. Rays(dir) - 1 /\ k \in Int
      /\ R \in [Dirs -> Seq(Hits)]
  BY DEF MeshInv, MeshTyped
<1> DEFINE recs == R[dir]
           here == {i \in DOMAIN recs : recs[i].ray = k}
<1>1. recs \in Seq(Hits) /\ Len(recs) \in Nat /\ DOMAIN recs = 1 .. Len(recs)
  BY <1>0
<1>2. PICK m \in Nat : m = Len(cfg.shapes) /\ DOMAIN cfg.shapes = 1 .. m
  BY <1>0, ConfigFacts
<1>3. 2 * m <= MaxHits /\ MaxHits \in Nat
  BY <1>0, <1>2, MeshLinesAssumption
<1>4. ASSUME NEW i \in here
      PROVE  /\ HitAt(HitOfRecord(recs[i]), dir, k)
             /\ recs[i].shape \in 1 .. m /\ recs[i].outside \in BOOLEAN
             /\ recs[i].t \in Int /\ recs[i].t < tmin
  <2>1. i \in 1 .. Len(recs) /\ recs[i].ray = k
    BY <1>1
  <2>2. recs[i] \in Hits
    BY <1>1, <2>1
  <2>3. recs[i].t \in Int /\ recs[i].outside \in BOOLEAN
    <3> HIDE DEF recs
    <3> QED
      BY <2>2 DEF Hits
  <2>4. recs[i].shape \in 1 .. m
    BY <1>0, <1>2, <2>1 DEF MeshInv, AllRecorded, Recorded
  <2>5. HitAt(HitOfRecord(recs[i]), dir, k)
    BY <1>0, <2>1 DEF Genuine
  <2>6. recs[i].t < tmin
    BY <2>1 DEF MeshInv, Beyond
  <2> QED
    BY <2>3, <2>4, <2>5, <2>6
<1>5. h.shape \in 1 .. m /\ h.outside \in BOOLEAN /\ h.t \in Int
  <2>1. CandidateOf(h, dir, Origin(dir, k))
    BY DEF HitAt, Hitting
  <2> QED
    BY <1>0, <1>2, <2>1, CandidateEnds
<1>6. tmin \in Nat
  BY DEF MeshInv, Beyond
<1> DEFINE rest == (1 .. 2 * m) \ {EndNumber(h)}
           f == [i \in here |-> EndNumber(recs[i])]
<1>7. ASSUME NEW i \in here PROVE EndNumber(recs[i]) \in rest
  <2>1. PICK g : g = HitOfRecord(recs[i])
    OBVIOUS
  <2>2. g.t = recs[i].t /\ g.outside = recs[i].outside /\ g.shape = recs[i].shape
    BY <2>1 DEF HitOfRecord
  <2>3. HitAt(g, dir, k) /\ g.shape \in 1 .. m /\ g.outside \in BOOLEAN /\ g.t \in Int /\ g.t < tmin
    BY <1>4, <2>1, <2>2
  <2>4. PICK p, q : p = (2 * g.shape) - (IF g.outside THEN 1 ELSE 0)
                    /\ q = (2 * h.shape) - (IF h.outside THEN 1 ELSE 0)
    OBVIOUS
  <2>5. p \in 1 .. 2 * m /\ (p = q => g.shape = h.shape /\ g.outside = h.outside)
    BY <1>5, <2>3, <2>4, EndNumbered
  <2>6. ~(g.shape = h.shape /\ g.outside = h.outside)
    <3> SUFFICES ASSUME g.shape = h.shape, g.outside = h.outside PROVE FALSE
      OBVIOUS
    <3>1. PICK r \in Int : r = k /\ HitAt(g, dir, r) /\ HitAt(h, dir, r)
      BY <1>0, <2>3
    <3>2. g.t = h.t
      BY <1>0, <3>1, SameEnd
    <3> QED
      BY <1>5, <1>6, <2>3, <3>2
  <2>7. EndNumber(recs[i]) = p /\ EndNumber(h) = q
    BY <2>2, <2>4 DEF EndNumber
  <2> QED
    BY <2>5, <2>6, <2>7
<1>8. ASSUME NEW i \in here, NEW j \in here, i < j PROVE EndNumber(recs[i]) # EndNumber(recs[j])
  <2>1. PICK a : a = HitOfRecord(recs[i])
    OBVIOUS
  <2>2. PICK b : b = HitOfRecord(recs[j])
    OBVIOUS
  <2>3. /\ a.t = recs[i].t /\ a.outside = recs[i].outside /\ a.shape = recs[i].shape
        /\ b.t = recs[j].t /\ b.outside = recs[j].outside /\ b.shape = recs[j].shape
    BY <2>1, <2>2 DEF HitOfRecord
  <2>4. /\ HitAt(a, dir, k) /\ a.shape \in 1 .. m /\ a.outside \in BOOLEAN /\ a.t \in Int
        /\ HitAt(b, dir, k) /\ b.shape \in 1 .. m /\ b.outside \in BOOLEAN /\ b.t \in Int
    BY <1>4, <2>1, <2>2, <2>3
  <2>5. a.t < b.t
    BY <1>0, <1>1, <1>8, <2>3 DEF Sorted
  <2>6. PICK p, q : p = (2 * a.shape) - (IF a.outside THEN 1 ELSE 0)
                    /\ q = (2 * b.shape) - (IF b.outside THEN 1 ELSE 0)
    OBVIOUS
  <2>7. p = q => a.shape = b.shape /\ a.outside = b.outside
    BY <2>4, <2>6, EndNumbered, SMTT(20)
  <2>8. ~(a.shape = b.shape /\ a.outside = b.outside)
    BY <1>0, <2>4, <2>5, SameEnd
  <2>9. EndNumber(recs[i]) = p /\ EndNumber(recs[j]) = q
    BY <2>3, <2>6 DEF EndNumber
  <2> QED
    BY <2>7, <2>8, <2>9
<1>9. here \subseteq Nat
  BY <1>1
<1>10. IsFiniteSet(rest) /\ Cardinality(rest) < MaxHits
  <2>1. EndNumber(h) \in 1 .. 2 * m
    <3>1. PICK p : p = (2 * h.shape) - (IF h.outside THEN 1 ELSE 0)
      OBVIOUS
    <3>2. p \in 1 .. 2 * m
      BY <1>5, <3>1, EndNumbered
    <3> QED
      BY <3>1, <3>2 DEF EndNumber
  <2>2. IsFiniteSet(1 .. 2 * m) /\ Cardinality(1 .. 2 * m) = 2 * m
    BY <1>5, FS_Interval
  <2>3. IsFiniteSet(rest) /\ Cardinality(rest) = 2 * m - 1
    BY <2>1, <2>2, FS_RemoveElement
  <2> QED
    BY <1>3, <2>3
<1> HIDE DEF rest, here
<1>11. f \in Injection(here, rest)
  <2>1. f \in [here -> rest]
    BY <1>7
  <2>2. ASSUME NEW i \in here, NEW j \in here, f[i] = f[j] PROVE i = j
    <3>1. f[i] = EndNumber(recs[i]) /\ f[j] = EndNumber(recs[j])
      OBVIOUS
    <3>2. ~(i < j) /\ ~(j < i)
      BY <1>8, <2>2, <3>1
    <3> QED
      BY <1>9, <3>2
  <2> HIDE DEF f
  <2> QED
    BY <2>1, <2>2 DEF Injection, IsInjective
<1>12. Cardinality(here) <= Cardinality(rest) /\ IsFiniteSet(here)
  BY <1>10, <1>11, FS_Injection
<1>13. Cardinality(here) \in Nat /\ Cardinality(rest) \in Nat
  BY <1>10, <1>12, FS_CardinalityType
<1>14. OnRay = Cardinality(here)
  BY DEF OnRay, here
<1> QED
  BY <1>3, <1>10, <1>12, <1>13, <1>14

(* A hit within limits is one between the ends of the ray. *)
LEMMA WidelyWithin ==
  ASSUME NEW s, NEW t \in Int, NEW lo \in Nat, NEW hi \in Nat, t # NaN
  PROVE  /\ Within(s, t, lo, hi) => Within(s, t, 0, hi)
         /\ Within(s, t, 0, hi) /\ lo < t => Within(s, t, lo, hi)
BY DEF Within, Less, NaN

(* What the search finds next: the closest of the hits it is not past.     *)
LEMMA FoundIs ==
  ASSUME FoundInv, Regular, phase = "cast", NEW h \in Found
  PROVE  /\ HitAt(h, dir, k) /\ h.t \in Nat /\ tmin \in Nat /\ tmin <= h.t /\ h.t < Length(dir)
         /\ dir \in Active /\ h = HitOfRecord(h)
         /\ \A g : HitAt(g, dir, k) /\ tmin < g.t => h.t <= g.t
<1>0. cfg \in Configs /\ dir \in Dirs /\ k \in 0 .. Rays(dir) - 1 /\ k \in Int /\ tmin \in Nat
  BY DEF FoundInv, MeshInv, MeshTyped, Beyond
<1>1. n[dir] \in Nat \ {0} /\ Length(dir) \in Nat
  <2>1. n[dir] \in Nat \ {0}
    BY <1>0, ConfigFacts
  <2> QED
    BY <2>1 DEF Length, Cell
<1>2. PICK pt \in [Dirs -> Int] : pt = Origin(dir, k)
  BY <1>0, OriginIs
<1>3. Hitting(h, dir, pt, tmin, Length(dir))
  BY <1>0, <1>1, <1>2, ClosestIs DEF Found
<1>4. h.t \in Nat /\ tmin <= h.t /\ h.t < Length(dir)
  BY <1>0, <1>2, <1>3, HitBracketed
<1>5. HitAt(h, dir, k)
  <2>1. Within(cfg.shapes[h.shape], h.t, tmin, Length(dir))
    BY <1>3 DEF Hitting
  <2>2. Within(cfg.shapes[h.shape], h.t, 0, Length(dir))
    BY <1>0, <1>1, <1>4, <2>1, WidelyWithin DEF NaN
  <2> QED
    BY <1>2, <1>3, <2>2 DEF HitAt, Hitting
<1>6. dir \in Active
  <2> SUFFICES n[dir] > 1
    BY <1>0 DEF Active
  <2>1. Length(dir) > 0
    BY <1>0, <1>1, <1>4
  <2> QED
    BY <1>1, <2>1 DEF Length, Cell
<1>7. h = HitOfRecord(h)
  <2>1. PICK x \in DOMAIN Candidates(cfg.shapes[h.shape], dir, pt) :
               h = [t |-> Candidates(cfg.shapes[h.shape], dir, pt)[x].t,
                    outside |-> Candidates(cfg.shapes[h.shape], dir, pt)[x].outside,
                    shape |-> h.shape]
    BY <1>3 DEF Hitting, CandidateOf
  <2>2. h.t = Candidates(cfg.shapes[h.shape], dir, pt)[x].t
        /\ h.outside = Candidates(cfg.shapes[h.shape], dir, pt)[x].outside
    BY <2>1
  <2> QED
    BY <2>1, <2>2, Zenon DEF HitOfRecord
<1>8. ASSUME NEW g, HitAt(g, dir, k), tmin < g.t PROVE h.t <= g.t
  <2>1. CandidateOf(g, dir, pt) /\ Within(cfg.shapes[g.shape], g.t, 0, Length(dir))
    BY <1>2, <1>8 DEF HitAt, Hitting
  <2>2. g.t \in Int /\ g.t # NaN
    BY <1>0, <2>1, CandidateTyped
  <2>3. Within(cfg.shapes[g.shape], g.t, tmin, Length(dir))
    BY <1>0, <1>1, <1>8, <2>1, <2>2, WidelyWithin
  <2> QED
    BY <1>0, <1>1, <1>2, <2>1, <2>3, ClosestLeast DEF Found
<1> QED
  BY <1>0, <1>4, <1>5, <1>6, <1>7, <1>8

(* When nothing is found the search is past every hit of the ray. *)
LEMMA NothingFound ==
  ASSUME FoundInv, Regular, phase = "cast", Found = {}, NEW g, HitAt(g, dir, k)
  PROVE  ~(tmin < g.t)
<1> SUFFICES ASSUME tmin < g.t PROVE FALSE
  OBVIOUS
<1>0. cfg \in Configs /\ dir \in Dirs /\ k \in 0 .. Rays(dir) - 1 /\ k \in Int /\ tmin \in Nat
  BY DEF FoundInv, MeshInv, MeshTyped, Beyond
<1>1. Length(dir) \in Nat
  <2>1. n[dir] \in Nat \ {0}
    BY <1>0, ConfigFacts
  <2> QED
    BY <2>1 DEF Length, Cell
<1>2. PICK pt \in [Dirs -> Int] : pt = Origin(dir, k)
  BY <1>0, OriginIs
<1>3. CandidateOf(g, dir, pt) /\ Within(cfg.shapes[g.shape], g.t, 0, Length(dir))
  BY <1>2 DEF HitAt, Hitting
<1>4. g.t \in Int /\ g.t # NaN
  BY <1>0, <1>3, CandidateTyped
<1>5. Within(cfg.shapes[g.shape], g.t, tmin, Length(dir))
  BY <1>0, <1>1, <1>3, <1>4, WidelyWithin
<1>6. ClosestHit(dir, pt, tmin, Length(dir)) # {}
  BY <1>0, <1>1, <1>3, <1>5, ClosestLeast
<1> QED
  BY <1>2, <1>6 DEF Found

(* A hit where the search goes on has been recorded: only the last hit is  *)
(* as close to it, unless a rectangle is at the origin of the ray.         *)
LEMMA NotedAtStart ==
  ASSUME FoundInv, Regular, Apart, phase = "cast", dir \in Active,
         NEW g, HitAt(g, dir, k), g.t = tmin
  PROVE  Noted(dir, k, g)
<1>0. cfg \in Configs /\ dir \in Dirs /\ k \in 0 .. Rays(dir) - 1 /\ k \in Int /\ tmin \in Nat
  BY DEF FoundInv, MeshInv, MeshTyped, Beyond
<1>1. CandidateOf(g, dir, Origin(dir, k))
  BY DEF HitAt, Hitting
<1>2. tmin = 0 \/ \E j \in 1 .. Len(R[dir]) : R[dir][j].ray = k /\ R[dir][j].t + 1 = tmin
  BY DEF FoundInv, FromLast
<1>3. tmin # 0
  <2> SUFFICES ASSUME tmin = 0 PROVE FALSE
    OBVIOUS
  <2>1. PICK i \in DOMAIN cfg.shapes : i = g.shape
    BY <1>1 DEF CandidateOf
  <2>2. Within(cfg.shapes[i], 0, 0, Length(dir))
    BY <2>1 DEF HitAt, Hitting
  <2>3. cfg.shapes[i].kind # "sphere"
    BY <2>2 DEF Within, Less
  <2>4. PICK e, l, w : e = Enter(i, dir, k) /\ l = Leave(i, dir, k) /\ w = Shift(i, dir)
    OBVIOUS
  <2>5. /\ Cuts(i, dir, k) /\ g.outside \in BOOLEAN
        /\ g.outside => 0 = e + w
        /\ ~g.outside => 0 = l + w
        /\ g.outside = (cfg.shapes[i].normal < 0)
    BY <1>0, <1>1, <2>1, <2>3, <2>4, CandidateEnds
  <2>6. Chord(i, dir, e, l, w)
    BY <1>0, <2>4, <2>5, ChordFacts
  <2> QED
    BY <2>3, <2>5, <2>6 DEF Chord
<1>4. PICK j \in 1 .. Len(R[dir]) : R[dir][j].ray = k /\ R[dir][j].t + 1 = tmin
  BY <1>2, <1>3
<1>5. PICK h : h = HitOfRecord(R[dir][j])
  OBVIOUS
<1>6. h.t = R[dir][j].t /\ h.outside = R[dir][j].outside /\ h.shape = R[dir][j].shape
  BY <1>5 DEF HitOfRecord
<1>7. HitAt(h, dir, k)
  BY <1>0, <1>4, <1>5 DEF FoundInv, Genuine
<1>8. CandidateOf(h, dir, Origin(dir, k))
  BY <1>7 DEF HitAt, Hitting
<1>9. h.t \in Int
  BY <1>0, <1>8, CandidateEnds
<1>10. g.t <= h.t + 1 /\ h.t <= g.t + 1
  BY <1>0, <1>4, <1>6, <1>9
<1>11. g.t = h.t /\ g.outside = h.outside /\ g.shape = h.shape
  BY <1>0, <1>1, <1>8, <1>10, SameCandidate
<1> QED
  BY <1>4, <1>6, <1>11 DEF Noted

(* Records that are not changed. *)
LEMMA FoundKept ==
  ASSUME FoundInv, cfg' = cfg, R' = R
  PROVE  /\ Genuine' /\ Sorted'
         /\ \A d, r, h : Noted(d, r, h)' = Noted(d, r, h)
         /\ (Regular' = Regular) /\ (Apart' = Apart) /\ \A d : Rays(d)' = Rays(d)
<1>1. (Regular' = Regular) /\ (Apart' = Apart) /\ \A d : Rays(d)' = Rays(d)
  BY ConfigKept, HitsKept
<1>2. \A d, r, h : Noted(d, r, h)' = Noted(d, r, h)
  BY DEF Noted
<1>3. Genuine'
  <2> SUFFICES ASSUME Regular, NEW d \in Dirs, NEW i \in 1 .. Len(R[d])
               PROVE  HitAt(HitOfRecord(R[d][i]), d, R[d][i].ray)'
    BY <1>1 DEF Genuine
  <2>1. PICK h, r : h = HitOfRecord(R[d][i]) /\ r = R[d][i].ray
    OBVIOUS
  <2>2. HitAt(h, d, r)
    BY <2>1 DEF FoundInv, Genuine
  <2>3. HitAt(h, d, r)'
    BY <2>2, HitsKept
  <2>4. h = HitOfRecord(R'[d][i]) /\ r = R'[d][i].ray
    BY <2>1
  <2> QED
    BY <2>3, <2>4 DEF HitOfRecord
<1>4. Sorted'
  BY <1>1 DEF FoundInv, Sorted
<1> QED
  BY <1>1, <1>2, <1>3, <1>4

(* A record keeps its hit. *)
LEMMA RecordOfHit ==
  ASSUME NEW d, NEW r, NEW h, NEW m, m = Intersection(d, r, h)
  PROVE  m.ray = r /\ m.t = h.t /\ m.outside = h.outside /\ m.shape = h.shape
<1>1. PICK a, p : m = [ray |-> r, t |-> h.t, outside |-> h.outside, shape |-> h.shape, at |-> a, psi |-> p]
  BY Zenon DEF Intersection
<1> QED
  BY <1>1

(* A hit that the search is past stays recorded when a record is added. *)
LEMMA NotedStays ==
  ASSUME NEW d \in Dirs, NEW r, NEW h, Noted(d, r, h), R \in [Dirs -> Seq(Hits)],
         NEW b \in Dirs, NEW m \in Hits, R' = [R EXCEPT ![b] = Append(R[b], m)]
  PROVE  Noted(d, r, h)'
<1>1. PICK j \in 1 .. Len(R[d]) : /\ R[d][j].ray = r /\ R[d][j].t = h.t
                                  /\ R[d][j].outside = h.outside /\ R[d][j].shape = h.shape
  BY DEF Noted
<1>2. j \in 1 .. Len(R'[d]) /\ R'[d][j] = R[d][j]
  <2>1. CASE d = b
    <3>1. R'[d] = Append(R[d], m) /\ R[d] \in Seq(Hits)
      BY <2>1
    <3> QED
      BY <3>1
  <2>2. CASE d # b
    <3>1. R'[d] = R[d]
      BY <2>2
    <3> QED
      BY <3>1
  <2> QED
    BY <2>1, <2>2
<1> QED
  BY <1>1, <1>2 DEF Noted

(* A hit is recorded, and all that the search is then past. *)
LEMMA FoundHit == ASSUME FoundInv, Hit PROVE FoundInv'
<1>0. MeshInv' /\ MeshInv
  BY HitStep DEF FoundInv
<1>1. PICK h \in Found :
        /\ R' = IF OnRay < MaxHits THEN [R EXCEPT ![dir] = Append(@, Intersection(dir, k, h))] ELSE R
        /\ tmin' = NextAfter(h.t, Length(dir))
  BY DEF Hit
<1>2. phase = "cast" /\ cfg' = cfg /\ phase' = phase /\ dir' = dir /\ k' = k
  BY DEF Hit
<1>3. (Regular' = Regular) /\ (Apart' = Apart) /\ (\A d : Rays(d)' = Rays(d))
      /\ \A x, d, r : HitAt(x, d, r)' = HitAt(x, d, r)
  BY <1>2, ConfigKept, HitsKept
<1>4. CASE ~Regular
  BY <1>0, <1>3, <1>4 DEF FoundInv, Genuine, Sorted, FromLast, Searched
<1>5. CASE Regular
  <2>0. cfg \in Configs /\ dir \in Dirs /\ k \in 0 .. Rays(dir) - 1 /\ R \in [Dirs -> Seq(Hits)]
        /\ k \in Nat
    BY <1>0 DEF MeshInv, MeshTyped
  <2>1. /\ HitAt(h, dir, k) /\ h.t \in Nat /\ tmin \in Nat /\ tmin <= h.t /\ h.t < Length(dir)
        /\ dir \in Active /\ h = HitOfRecord(h)
        /\ \A g : HitAt(g, dir, k) /\ tmin < g.t => h.t <= g.t
    BY <1>2, <1>5, FoundIs
  <2>2. OnRay < MaxHits
    BY <1>0, <1>2, <1>5, <2>1, RoomLeft DEF FoundInv
  <2>3. PICK m : m = Intersection(dir, k, h)
    OBVIOUS
  <2>4. R' = [R EXCEPT ![dir] = Append(R[dir], m)]
    BY <1>1, <2>2, <2>3
  <2>5. tmin' = h.t + 1
    <3>1. Length(dir) \in Int
      <4>1. n[dir] \in Nat
        BY <2>0, ConfigFacts
      <4> QED
        BY <4>1 DEF Length, Cell
    <3>2. Less(h.t, Length(dir))
      BY <2>1, <3>1 DEF Less, NaN
    <3> QED
      BY <1>1, <3>2 DEF NextAfter
  <2>6. m.ray = k /\ m.t = h.t /\ m.outside = h.outside /\ m.shape = h.shape
    BY <2>3, RecordOfHit
  <2>7. CandidateOf(h, dir, Origin(dir, k))
    BY <2>1 DEF HitAt, Hitting
  <2>8. h.outside \in BOOLEAN /\ h.shape \in DOMAIN cfg.shapes /\ h.shape \in Nat
    <3>1. h.outside \in BOOLEAN /\ h.shape \in DOMAIN cfg.shapes
      BY <1>5, <2>0, <2>7, CandidateEnds
    <3> QED
      BY <2>0, <3>1, ConfigFacts
  <2>9. m \in Hits
    BY <2>0, <2>1, <2>3, <2>8, RecordTyped
  <2> DEFINE old == R[dir]
             new == R'[dir]
  <2>10. /\ old \in Seq(Hits) /\ new = Append(old, m) /\ Len(new) = Len(old) + 1 /\ Len(old) \in Nat
         /\ new[Len(old) + 1] = m /\ \A i \in 1 .. Len(old) : new[i] = old[i]
    BY <2>0, <2>4, <2>9
  <2>11. \A d \in Dirs \ {dir} : R'[d] = R[d]
    BY <2>0, <2>4
  <2> HIDE DEF new
  <2>12. Genuine'
    <3>1. ASSUME NEW i \in 1 .. Len(new) PROVE HitAt(HitOfRecord(new[i]), dir, new[i].ray)
      <4>1. CASE i = Len(old) + 1
        <5>1. HitOfRecord(m) = h /\ new[i] = m
          BY <2>1, <2>6, <2>10, <4>1 DEF HitOfRecord
        <5> QED
          BY <2>1, <2>6, <5>1
      <4>2. CASE i \in 1 .. Len(old)
        BY <1>5, <2>0, <2>10, <4>2 DEF FoundInv, Genuine
      <4> QED
        BY <2>10, <4>1, <4>2
    <3>2. ASSUME NEW d \in Dirs, NEW i \in 1 .. Len(R'[d])
          PROVE  HitAt(HitOfRecord(R'[d][i]), d, R'[d][i].ray)
      <4>1. CASE d = dir
        BY <3>1, <3>2, <4>1 DEF new
      <4>2. CASE d # dir
        <5>1. R'[d] = R[d]
          BY <2>11, <3>2, <4>2
        <5> QED
          BY <1>5, <3>2, <5>1 DEF FoundInv, Genuine
      <4> QED
        BY <4>1, <4>2
    <3> SUFFICES ASSUME NEW d \in Dirs, NEW i \in 1 .. Len(R'[d])
                 PROVE  HitAt(HitOfRecord(R[d][i]), d, R[d][i].ray)'
      BY DEF Genuine
    <3>3. PICK g, r : g = HitOfRecord(R'[d][i]) /\ r = R'[d][i].ray
      OBVIOUS
    <3>4. HitAt(g, d, r)
      BY <3>2, <3>3
    <3>5. HitAt(g, d, r)'
      BY <1>3, <3>4
    <3> QED
      BY <3>3, <3>5 DEF HitOfRecord
  <2>13. Sorted'
    <3>1. ASSUME NEW i \in 1 .. Len(new), NEW j \in 1 .. Len(new), i < j
          PROVE  new[i].ray <= new[j].ray /\ (new[i].ray = new[j].ray => new[i].t < new[j].t)
      <4>1. i \in 1 .. Len(old) /\ new[i] = old[i]
        BY <2>10, <3>1
      <4>2. CASE j = Len(old) + 1
        <5>1. new[j] = m
          BY <2>10, <4>2
        <5>2. old[i] \in Hits
          BY <2>10, <4>1
        <5>3. old[i].ray <= k /\ (old[i].ray = k => old[i].t < tmin)
          BY <1>0, <1>2, <1>5, <4>1 DEF MeshInv, Beyond
        <5>4. old[i].t \in Int
          <6> HIDE DEF old
          <6> QED
            BY <5>2 DEF Hits
        <5> HIDE DEF old
        <5> QED
          BY <2>1, <2>6, <4>1, <5>1, <5>3, <5>4
      <4>3. CASE j \in 1 .. Len(old)
        <5>1. new[j] = old[j]
          BY <2>10, <4>3
        <5> QED
          BY <1>5, <2>0, <3>1, <4>1, <4>3, <5>1 DEF FoundInv, Sorted
      <4> QED
        BY <2>10, <4>2, <4>3, SMTT(20)
    <3>2. ASSUME NEW d \in Dirs \ {dir}, NEW i \in 1 .. Len(R'[d]), NEW j \in 1 .. Len(R'[d]), i < j
          PROVE  R'[d][i].ray <= R'[d][j].ray /\ (R'[d][i].ray = R'[d][j].ray => R'[d][i].t < R'[d][j].t)
      BY <1>5, <2>11, <3>2 DEF FoundInv, Sorted
    <3>3. \A d \in Dirs : \A i, j \in 1 .. Len(R'[d]) : i < j =>
            R'[d][i].ray <= R'[d][j].ray /\ (R'[d][i].ray = R'[d][j].ray => R'[d][i].t < R'[d][j].t)
      BY <3>1, <3>2 DEF new
    <3> QED
      BY <3>3 DEF Sorted
  <2>14. FromLast'
    <3>1. Len(old) + 1 \in 1 .. Len(new) /\ new[Len(old) + 1].ray = k /\ new[Len(old) + 1].t + 1 = tmin'
      BY <2>5, <2>6, <2>10
    <3>2. \E j \in 1 .. Len(R'[dir']) : R'[dir'][j].ray = k' /\ R'[dir'][j].t + 1 = tmin'
      BY <1>2, <3>1 DEF new
    <3> QED
      BY <3>2 DEF FromLast
  <2>15. Searched'
    <3> SUFFICES ASSUME Apart, NEW d \in Dirs, NEW r \in 0 .. Rays(d) - 1, NEW g,
                        HitAt(g, d, r), Past(d, r, g.t)'
                 PROVE  Noted(d, r, g)'
      <4>1. ASSUME NEW d \in Dirs, NEW r \in (0 .. Rays(d) - 1)', NEW g, HitAt(g, d, r)', Past(d, r, g.t)',
                   Apart'
            PROVE  Noted(d, r, g)'
        <5>1. r \in 0 .. Rays(d) - 1
          BY <1>3
        <5>2. HitAt(g, d, r) /\ Apart
          BY <1>3, <4>1
        <5> QED
          BY <4>1, <5>1, <5>2
      <4> QED
        BY <4>1 DEF Searched
    <3>1. CASE Past(d, r, g.t)
      <4>1. Noted(d, r, g)
        BY <1>5, <3>1 DEF FoundInv, Searched
      <4> QED
        BY <2>0, <2>4, <2>9, <4>1, NotedStays
    <3>2. CASE ~Past(d, r, g.t)
      <4>1. d = dir /\ r = k /\ g.t < h.t + 1 /\ ~(g.t < tmin)
        BY <1>2, <2>5, <3>2 DEF Past
      <4>2. g.t \in Int
        <5>1. CandidateOf(g, d, Origin(d, r))
          BY DEF HitAt, Hitting
        <5> QED
          BY <1>5, <2>0, <4>1, <5>1, CandidateEnds
      <4>3. CASE g.t = tmin
        <5>1. Noted(dir, k, g)
          BY <1>2, <1>5, <2>1, <4>1, <4>3, NotedAtStart
        <5> QED
          BY <2>0, <2>4, <2>9, <4>1, <5>1, NotedStays
      <4>4. CASE tmin < g.t
        <5>1. h.t <= g.t
          BY <2>1, <4>1, <4>4
        <5>2. g.t <= h.t + 1 /\ h.t <= g.t + 1
          BY <2>1, <4>1, <4>2, <5>1
        <5>3. CandidateOf(g, dir, Origin(dir, k))
          BY <4>1 DEF HitAt, Hitting
        <5>4. g.t = h.t /\ g.outside = h.outside /\ g.shape = h.shape
          BY <1>5, <2>0, <2>1, <2>7, <5>2, <5>3, SameCandidate
        <5>5. Len(old) + 1 \in 1 .. Len(new) /\ new[Len(old) + 1] = m
          BY <2>10
        <5> QED
          BY <2>6, <4>1, <5>4, <5>5 DEF Noted, new
      <4> QED
        BY <2>1, <4>1, <4>2, <4>3, <4>4
    <3> QED
      BY <3>1, <3>2
  <2> QED
    BY <1>0, <2>12, <2>13, <2>14, <2>15 DEF FoundInv
<1> QED
  BY <1>4, <1>5

(* A ray on which nothing more is found has been searched. *)
LEMMA FoundRay == ASSUME FoundInv, NextRay PROVE FoundInv'
<1>0. MeshInv' /\ MeshInv
  BY NextRayStep DEF FoundInv
<1>1. /\ phase = "cast" /\ tmin' = 0 /\ cfg' = cfg /\ R' = R /\ Found = {}
      /\ \/ k' = k + 1 /\ dir' = dir /\ phase' = phase
         \/ dir < 2 /\ k' = 0 /\ dir' = dir + 1 /\ phase' = phase /\ ~(k + 1 < Rays(dir))
         \/ phase' = "solid" /\ k' = k /\ dir' = dir /\ ~(k + 1 < Rays(dir)) /\ ~(dir < 2)
  BY DEF NextRay
<1>2. /\ Genuine' /\ Sorted'
      /\ \A d, r, h : Noted(d, r, h)' = Noted(d, r, h)
      /\ (Regular' = Regular) /\ (Apart' = Apart) /\ \A d : Rays(d)' = Rays(d)
  BY <1>1, FoundKept
<1>3. FromLast'
  BY <1>1 DEF FromLast
<1>4. cfg \in Configs /\ dir \in Dirs /\ k \in 0 .. Rays(dir) - 1 /\ k \in Int
  BY <1>0 DEF MeshInv, MeshTyped
<1>5. Searched'
  <2> SUFFICES ASSUME Regular, Apart, NEW d \in Dirs, NEW r \in 0 .. Rays(d) - 1, NEW g,
                      HitAt(g, d, r), Past(d, r, g.t)'
               PROVE  Noted(d, r, g)
    <3>1. ASSUME Regular', Apart', NEW d \in Dirs, NEW r \in (0 .. Rays(d) - 1)', NEW g,
                 HitAt(g, d, r)', Past(d, r, g.t)'
          PROVE  Noted(d, r, g)'
      <4>1. r \in 0 .. Rays(d) - 1
        BY <1>2
      <4>2. HitAt(g, d, r) /\ Apart /\ Regular
        BY <1>1, <1>2, <3>1, HitsKept
      <4> QED
        BY <1>2, <3>1, <4>1, <4>2
    <3> QED
      BY <3>1 DEF Searched
  <2>0. g.t \in Nat /\ d \in Active
    <3>1. Hitting(g, d, Origin(d, r), 0, Length(d))
      BY DEF HitAt
    <3>2. g.t \in Nat /\ g.t < Length(d)
      BY <1>4, <3>1, HitBracketed
    <3>3. n[d] \in Nat \ {0}
      BY <1>4, ConfigFacts
    <3>4. n[d] > 1
      BY <3>2, <3>3 DEF Length, Cell
    <3> QED
      BY <3>2, <3>4 DEF Active
  <2>1. CASE Past(d, r, g.t)
    BY <2>1 DEF FoundInv, Searched
  <2>2. CASE ~Past(d, r, g.t)
    <3>1. d = dir /\ r = k
      <4>1. Rays(dir) \in Int
        <5>1. n[Slow(dir)] \in Nat /\ n[Fast(dir)] \in Nat
          BY <1>4, ConfigFacts, Across
        <5> QED
          BY <5>1 DEF Rays
      <4>2. d \in Int /\ dir \in Int /\ d >= dir /\ (d = dir => r >= k) /\ r \in Int
        BY <1>1, <1>4, <2>2 DEF Past, Dirs
      <4>3. CASE k' = k + 1 /\ dir' = dir /\ phase' = phase
        BY <1>1, <1>4, <2>0, <4>2, <4>3 DEF Past
      <4>4. CASE dir < 2 /\ k' = 0 /\ dir' = dir + 1 /\ phase' = phase /\ ~(k + 1 < Rays(dir))
        <5>1. d = dir
          BY <1>1, <2>0, <4>2, <4>4 DEF Past
        <5>2. r <= Rays(dir) - 1
          BY <4>1, <5>1
        <5> QED
          BY <1>4, <4>1, <4>2, <4>4, <5>1, <5>2
      <4>5. CASE phase' = "solid" /\ k' = k /\ dir' = dir /\ ~(k + 1 < Rays(dir)) /\ ~(dir < 2)
        <5>1. d = dir
          BY <1>4, <4>2, <4>5 DEF Dirs
        <5>2. r <= Rays(dir) - 1
          BY <4>1, <5>1
        <5> QED
          BY <1>4, <4>1, <4>2, <4>5, <5>1, <5>2
      <4> QED
        BY <1>1, <4>3, <4>4, <4>5
    <3>2. ~(tmin < g.t)
      BY <1>1, <3>1, NothingFound
    <3>3. g.t = tmin
      <4>1. ~(g.t < tmin)
        BY <2>2, <3>1 DEF Past
      <4>2. tmin \in Nat
        BY <1>0, <1>1 DEF MeshInv, Beyond
      <4> QED
        BY <2>0, <3>2, <4>1, <4>2
    <3> QED
      BY <1>1, <2>0, <3>1, <3>3, NotedAtStart
  <2> QED
    BY <2>1, <2>2
<1> QED
  BY <1>0, <1>2, <1>3, <1>5 DEF FoundInv

(* The other steps leave what was found alone. *)
LEMMA FoundOther ==
  ASSUME FoundInv, MeshInv', cfg' = cfg, R' = R,
         (phase # "cast" /\ phase' # "cast") \/ (phase' = phase /\ dir' = dir /\ k' = k /\ tmin' = tmin)
  PROVE  FoundInv'
<1>2. /\ Genuine' /\ Sorted'
      /\ \A d, r, h : Noted(d, r, h)' = Noted(d, r, h)
      /\ (Regular' = Regular) /\ (Apart' = Apart) /\ \A d : Rays(d)' = Rays(d)
  BY FoundKept
<1>3. FromLast'
  BY <1>2 DEF FoundInv, FromLast
<1>4. Searched'
  <2>1. ASSUME Regular', Apart', NEW d \in Dirs, NEW r \in (0 .. Rays(d) - 1)', NEW g,
               HitAt(g, d, r)', Past(d, r, g.t)'
        PROVE  Noted(d, r, g)'
    <3>1. r \in 0 .. Rays(d) - 1
      BY <1>2
    <3>2. HitAt(g, d, r) /\ Apart /\ Regular
      BY <1>2, <2>1, HitsKept
    <3>3. Past(d, r, g.t)
      BY <2>1 DEF Past
    <3>4. Noted(d, r, g)
      BY <3>1, <3>2, <3>3 DEF FoundInv, Searched
    <3> QED
      BY <1>2, <3>4
  <2> QED
    BY <2>1 DEF Searched
<1> QED
  BY <1>2, <1>3, <1>4 DEF FoundInv

(* Every step keeps what was found. *)
LEMMA FoundStep == ASSUME FoundInv, [Next]_vars PROVE FoundInv'
<1>0. MeshInv'
  BY MeshStep DEF FoundInv
<1>1. CASE Hit
  BY <1>1, FoundHit
<1>2. CASE NextRay
  BY <1>2, FoundRay
<1>3. CASE InitSolid
  BY <1>0, <1>3, FoundOther DEF InitSolid
<1>4. CASE InitLines
  BY <1>0, <1>4, FoundOther DEF InitLines
<1>5. CASE InitFluid
  BY <1>0, <1>5, FoundOther DEF InitFluid
<1>6. CASE Built \/ UNCHANGED vars
  BY <1>0, <1>6, FoundOther DEF Built, vars
<1> QED
  BY <1>1, <1>2, <1>3, <1>4, <1>5, <1>6 DEF Next

-----------------------------------------------------------------------------
(* Where the elements of joined sequences are *)

(* Every element of joined sequences, and nothing else, is at its place    *)
(* after the sequences before its own.                                     *)
PlacedAt(off, ss, q) ==
  /\ off \in [1 .. Len(ss) + 1 -> Nat] /\ off[1] = 0
  /\ \A x \in 1 .. Len(ss) : off[x + 1] = off[x] + Len(ss[x])
  /\ Len(q) = off[Len(ss) + 1]
  /\ \A x \in 1 .. Len(ss) : \A j \in 1 .. Len(ss[x]) :
       off[x] + j \in 1 .. Len(q) /\ q[off[x] + j] = ss[x][j]
  /\ \A i \in 1 .. Len(q) : \E x \in 1 .. Len(ss) : \E j \in 1 .. Len(ss[x]) : i = off[x] + j

(* Joined sequences have such places.                                      *)
LEMMA FlattenSplit ==
  ASSUME NEW T, NEW ss \in Seq(Seq(T))
  PROVE  \E off : PlacedAt(off, ss, FlattenSeq(ss))
<1> DEFINE upTo(m) == SubSeq(ss, 1, m)
           flat(m) == FlattenSeq(upTo(m))
           off == [x \in 1 .. Len(ss) + 1 |-> Len(flat(x - 1))]
<1>0. Len(ss) \in Nat
  OBVIOUS
<1>1. \A m \in 0 .. Len(ss) : upTo(m) \in Seq(Seq(T))
  OBVIOUS
<1>2. \A m \in 0 .. Len(ss) : flat(m) \in Seq(T)
  <2> HIDE DEF upTo
  <2> QED
    BY <1>1, FlattenTyped
<1>3. ASSUME NEW m \in 0 .. Len(ss) - 1 PROVE flat(m + 1) = flat(m) \o ss[m + 1]
  <2>1. upTo(m + 1) = Append(upTo(m), ss[m + 1])
    OBVIOUS
  <2>2. m \in 0 .. Len(ss) /\ ss[m + 1] \in Seq(T)
    BY <1>0
  <2> HIDE DEF upTo
  <2> QED
    BY <1>1, <2>1, <2>2, FlattenAppend
<1>4. flat(0) = <<>>
  <2>1. upTo(0) = <<>>
    OBVIOUS
  <2> HIDE DEF upTo
  <2> QED
    BY <2>1, FlattenEmpty
<1>5. flat(Len(ss)) = FlattenSeq(ss)
  <2>1. upTo(Len(ss)) = ss
    OBVIOUS
  <2> HIDE DEF upTo
  <2> QED
    BY <2>1
<1>6. ASSUME NEW x \in 1 .. Len(ss), NEW j \in 1 .. Len(ss[x])
      PROVE  Len(flat(x - 1)) + j <= Len(FlattenSeq(ss)) /\ FlattenSeq(ss)[Len(flat(x - 1)) + j] = ss[x][j]
  BY FlattenAt
<1> HIDE DEF flat, upTo
<1>7. off \in [1 .. Len(ss) + 1 -> Nat] /\ off[1] = 0
  <2>1. \A x \in 1 .. Len(ss) + 1 : x - 1 \in 0 .. Len(ss)
    BY <1>0
  <2>2. \A m \in 0 .. Len(ss) : Len(flat(m)) \in Nat
    BY <1>2
  <2> QED
    BY <1>0, <1>4, <2>1, <2>2
<1>8. ASSUME NEW x \in 1 .. Len(ss) PROVE off[x + 1] = off[x] + Len(ss[x])
  <2>1. x - 1 \in 0 .. Len(ss) - 1 /\ (x - 1) + 1 = x /\ (x + 1) - 1 = x
    BY <1>0
  <2>2. flat(x) = flat(x - 1) \o ss[x]
    <3>1. flat((x - 1) + 1) = flat(x - 1) \o ss[(x - 1) + 1]
      BY <1>3, <2>1
    <3> QED
      BY <2>1, <3>1
  <2>3. flat(x - 1) \in Seq(T) /\ ss[x] \in Seq(T)
    <3>1. x - 1 \in 0 .. Len(ss)
      BY <1>0, <2>1
    <3> QED
      BY <1>0, <1>2, <3>1
  <2>4. Len(flat(x)) = Len(flat(x - 1)) + Len(ss[x])
    BY <2>2, <2>3
  <2>5. off[x] = Len(flat(x - 1))
    BY <1>0
  <2>6. off[x + 1] = Len(flat((x + 1) - 1))
    BY <1>0
  <2> QED
    BY <2>1, <2>4, <2>5, <2>6
<1>9. Len(FlattenSeq(ss)) = off[Len(ss) + 1]
  BY <1>0, <1>5
<1>10. ASSUME NEW x \in 1 .. Len(ss), NEW j \in 1 .. Len(ss[x])
       PROVE  off[x] + j \in 1 .. Len(FlattenSeq(ss)) /\ FlattenSeq(ss)[off[x] + j] = ss[x][j]
  <2>1. off[x] = Len(flat(x - 1)) /\ off[x] \in Nat
    BY <1>0, <1>7
  <2>2. Len(FlattenSeq(ss)) \in Nat
    BY <1>0, <1>7, <1>9
  <2>3. j \in Nat /\ 1 <= j
    BY <1>0
  <2> HIDE DEF off
  <2> QED
    BY <1>6, <2>1, <2>2, <2>3
<1> HIDE DEF off
<1> DEFINE Good == {m \in 0 .. Len(ss) : \A i \in 1 .. off[m + 1] :
                      \E x \in 1 .. Len(ss) : \E j \in 1 .. Len(ss[x]) : i = off[x] + j}
<1>11. 0 \in Good
  BY <1>0, <1>7
<1>12. ASSUME NEW m \in 0 .. Len(ss) - 1, m \in Good PROVE m + 1 \in Good
  <2>1. m + 1 \in 1 .. Len(ss) /\ m + 1 \in 0 .. Len(ss)
    BY <1>0
  <2>2. off[(m + 1) + 1] = off[m + 1] + Len(ss[m + 1]) /\ off[m + 1] \in Nat /\ Len(ss[m + 1]) \in Nat
    BY <1>0, <1>7, <1>8, <2>1
  <2>3. ASSUME NEW i \in 1 .. off[(m + 1) + 1]
        PROVE  \E x \in 1 .. Len(ss) : \E j \in 1 .. Len(ss[x]) : i = off[x] + j
    <3>1. CASE i <= off[m + 1]
      <4>1. i \in 1 .. off[m + 1]
        BY <2>2, <3>1
      <4>2. \A l \in 1 .. off[m + 1] : \E x \in 1 .. Len(ss) : \E j \in 1 .. Len(ss[x]) : l = off[x] + j
        BY <1>12
      <4> QED
        BY <4>1, <4>2
    <3>2. CASE ~(i <= off[m + 1])
      <4>1. i - off[m + 1] \in 1 .. Len(ss[m + 1]) /\ i = off[m + 1] + (i - off[m + 1])
        BY <2>2, <3>2
      <4> QED
        BY <2>1, <4>1
    <3> QED
      BY <3>1, <3>2
  <2> QED
    BY <2>1, <2>3
<1>13. Len(ss) \in Good
  <2> HIDE DEF Good
  <2>1. 0 .. Len(ss) \subseteq Good
    BY <1>0, <1>11, <1>12, Induction
  <2> QED
    BY <1>0, <2>1
<1>14. \A i \in 1 .. Len(FlattenSeq(ss)) :
         \E x \in 1 .. Len(ss) : \E j \in 1 .. Len(ss[x]) : i = off[x] + j
  BY <1>9, <1>13
<1> QED
  BY <1>7, <1>8, <1>9, <1>10, <1>14 DEF PlacedAt

(* Later sequences have later places. *)
LEMMA PlacesOrder ==
  ASSUME NEW T, NEW ss \in Seq(Seq(T)), NEW off, NEW q, PlacedAt(off, ss, q),
         NEW x \in 1 .. Len(ss), NEW y \in 1 .. Len(ss), x < y
  PROVE  off[x] + Len(ss[x]) <= off[y]
<1>0. Len(ss) \in Nat /\ off \in [1 .. Len(ss) + 1 -> Nat]
      /\ \A z \in 1 .. Len(ss) : off[z + 1] = off[z] + Len(ss[z]) /\ Len(ss[z]) \in Nat
  BY DEF PlacedAt
<1> DEFINE Good == {m \in Nat : (x + 1) + m <= Len(ss) => off[x + 1] <= off[(x + 1) + m]}
<1>1. 0 \in Good
  <2>1. off[x + 1] \in Nat
    <3>1. x + 1 \in 1 .. Len(ss) + 1
      BY <1>0
    <3>2. off \in [1 .. Len(ss) + 1 -> Nat]
      BY <1>0
    <3> QED
      BY <3>1, <3>2
  <2>2. (x + 1) + 0 = x + 1
    BY <1>0
  <2> QED
    BY <2>1, <2>2
<1>2. ASSUME NEW m \in 0 .. (Len(ss) - x) - 1, m \in Good PROVE m + 1 \in Good
  <2> SUFFICES ASSUME (x + 1) + (m + 1) <= Len(ss) PROVE off[x + 1] <= off[(x + 1) + (m + 1)]
    BY <1>0
  <2>1. PICK z \in 1 .. Len(ss) : z = (x + 1) + m
    BY <1>0
  <2>2. off[x + 1] <= off[z]
    BY <1>0, <1>2, <2>1
  <2>3. off[z + 1] = off[z] + Len(ss[z]) /\ Len(ss[z]) \in Nat
    BY <1>0
  <2>4. off[z] \in Nat /\ off[x + 1] \in Nat
    <3>1. z \in 1 .. Len(ss) + 1 /\ x + 1 \in 1 .. Len(ss) + 1
      BY <1>0
    <3> QED
      BY <1>0, <3>1
  <2>5. z + 1 = (x + 1) + (m + 1)
    BY <2>1
  <2>6. off[x + 1] <= off[z + 1]
    BY <2>2, <2>3, <2>4, SMTT(20)
  <2> QED
    BY <2>5, <2>6
<1>3. (y - x) - 1 \in Good
  <2>1. (y - x) - 1 \in 0 .. Len(ss) - x /\ Len(ss) - x \in Nat
    BY <1>0
  <2> HIDE DEF Good
  <2>2. 0 .. Len(ss) - x \subseteq Good
    BY <1>1, <1>2, <2>1, Induction
  <2> QED
    BY <2>1, <2>2
<1>4. (x + 1) + ((y - x) - 1) = y
  OBVIOUS
<1> QED
  BY <1>0, <1>3, <1>4

(* The numbers up to m that are in K, each a sequence of its own, and      *)
(* nothing for the others.                                                 *)
Selects(g, m, K) ==
  /\ g \in [1 .. m -> Seq(1 .. m)]
  /\ \A i \in 1 .. m : Len(g[i]) = (IF i \in K THEN 1 ELSE 0) /\ (i \in K => g[i][1] = i)

(* A choice by a condition makes such sequences. *)
LEMMA SelectsIs ==
  ASSUME NEW m \in Nat, NEW K, NEW g, g = [i \in 1 .. m |-> IF i \in K THEN <<i>> ELSE <<>>]
  PROVE  Selects(g, m, K)
<1>1. \A i \in 1 .. m : <<i>> \in Seq(1 .. m) /\ <<>> \in Seq(1 .. m)
  OBVIOUS
<1>2. g \in [1 .. m -> Seq(1 .. m)]
  BY <1>1
<1>3. ASSUME NEW i \in 1 .. m
      PROVE  Len(g[i]) = (IF i \in K THEN 1 ELSE 0) /\ (i \in K => g[i][1] = i)
  <2>1. CASE i \in K
    <3>1. g[i] = <<i>>
      BY <2>1
    <3>2. Len(g[i]) = 1 /\ g[i][1] = i
      BY <3>1
    <3> QED
      BY <2>1, <3>2
  <2>2. CASE i \notin K
    <3>1. g[i] = <<>>
      BY <2>2
    <3>2. Len(g[i]) = 0
      BY <3>1
    <3> QED
      BY <2>2, <3>2
  <2> QED
    BY <2>1, <2>2
<1> QED
  BY <1>2, <1>3 DEF Selects

(* Numbers that are kept or left out: the kept ones, in order. *)
LEMMA SelectedAre ==
  ASSUME NEW m \in Nat, NEW K, NEW g, Selects(g, m, K), NEW q, q = FlattenSeq(g)
  PROVE  /\ q \in Seq(1 .. m) /\ Len(q) \in Nat /\ DOMAIN q = 1 .. Len(q)
         /\ \A j \in 1 .. Len(q) : q[j] \in 1 .. m /\ q[j] \in K
         /\ \A a, b \in 1 .. Len(q) : a < b => q[a] < q[b]
         /\ \A i \in 1 .. m : i \in K => \E j \in 1 .. Len(q) : q[j] = i
<1>2. PICK T : T = 1 .. m
  OBVIOUS
<1>3. g \in Seq(Seq(T)) /\ Len(g) = m
  <2>1. g \in [1 .. m -> Seq(T)]
    BY <1>2 DEF Selects
  <2> QED
    BY <2>1
<1>4. q \in Seq(T)
  BY <1>3, FlattenTyped
<1>5. PICK off : PlacedAt(off, g, q)
  BY <1>3, FlattenSplit
<1>6. \A i \in 1 .. m : /\ i \in K => Len(g[i]) = 1 /\ g[i][1] = i
                        /\ i \notin K => Len(g[i]) = 0
  BY DEF Selects
<1>7. /\ off \in [1 .. m + 1 -> Nat]
      /\ \A x \in 1 .. m : \A j \in 1 .. Len(g[x]) : off[x] + j \in 1 .. Len(q) /\ q[off[x] + j] = g[x][j]
      /\ \A i \in 1 .. Len(q) : \E x \in 1 .. m : \E j \in 1 .. Len(g[x]) : i = off[x] + j
  <2>1. PICK gg : gg = g
    OBVIOUS
  <2>2. PlacedAt(off, gg, q) /\ Len(gg) = m
    BY <1>3, <1>5, <2>1
  <2>3. /\ off \in [1 .. m + 1 -> Nat]
        /\ \A x \in 1 .. m : \A j \in 1 .. Len(gg[x]) : off[x] + j \in 1 .. Len(q) /\ q[off[x] + j] = gg[x][j]
        /\ \A i \in 1 .. Len(q) : \E x \in 1 .. m : \E j \in 1 .. Len(gg[x]) : i = off[x] + j
    BY <2>2, Zenon DEF PlacedAt
  <2> QED
    BY <2>1, <2>3, Zenon
<1>8. ASSUME NEW j \in 1 .. Len(q)
      PROVE  \E x \in 1 .. m : x \in K /\ j = off[x] + 1 /\ q[j] = x
  <2>1. PICK x \in 1 .. m : \E y \in 1 .. Len(g[x]) : j = off[x] + y
    BY <1>7
  <2>2. PICK y \in 1 .. Len(g[x]) : j = off[x] + y
    BY <2>1
  <2>3. x \in K /\ y = 1
    <3>1. CASE x \notin K
      <4>1. Len(g[x]) = 0
        BY <1>6, <3>1
      <4>2. y \in 1 .. 0
        BY <2>2, <4>1
      <4> QED
        BY <4>2
    <3>2. CASE x \in K
      <4>1. Len(g[x]) = 1
        BY <1>6, <3>2
      <4>2. y \in 1 .. 1
        BY <2>2, <4>1
      <4> QED
        BY <3>2, <4>2
    <3> QED
      BY <3>1, <3>2
  <2>4. q[off[x] + 1] = g[x][1]
    BY <1>7, <2>2, <2>3
  <2> QED
    BY <1>6, <2>2, <2>3, <2>4
<1>9. ASSUME NEW a \in 1 .. Len(q), NEW b \in 1 .. Len(q), a < b PROVE q[a] < q[b]
  <2>1. PICK x \in 1 .. m : x \in K /\ a = off[x] + 1 /\ q[a] = x
    BY <1>8
  <2>2. PICK y \in 1 .. m : y \in K /\ b = off[y] + 1 /\ q[b] = y
    BY <1>8
  <2>3. off[x] \in Nat /\ off[y] \in Nat /\ off[x] < off[y]
    BY <1>7, <1>9, <2>1, <2>2
  <2>4. ~(y < x)
    <3> SUFFICES ASSUME y < x PROVE FALSE
      OBVIOUS
    <3>1. off[y] + Len(g[y]) <= off[x]
      BY <1>3, <1>5, PlacesOrder
    <3>2. Len(g[y]) = 1
      BY <1>6, <2>2
    <3> QED
      BY <2>3, <3>1, <3>2
  <2>5. x # y
    BY <2>3
  <2> QED
    BY <2>1, <2>2, <2>4, <2>5
<1>10. ASSUME NEW i \in 1 .. m, i \in K PROVE \E j \in 1 .. Len(q) : q[j] = i
  <2>1. Len(g[i]) = 1 /\ g[i][1] = i
    BY <1>6, <1>10
  <2>2. 1 \in 1 .. Len(g[i])
    BY <2>1
  <2>3. off[i] + 1 \in 1 .. Len(q) /\ q[off[i] + 1] = i
    BY <1>7, <2>1, <2>2
  <2> QED
    BY <2>3
<1>11. Len(q) \in Nat /\ DOMAIN q = 1 .. Len(q)
  BY <1>4
<1>12. \A j \in 1 .. Len(q) : q[j] \in 1 .. m /\ q[j] \in K
  BY <1>8
<1> QED
  BY <1>2, <1>4, <1>9, <1>10, <1>11, <1>12

-----------------------------------------------------------------------------
(* A ray and the chords it is cut into, as numbers *)

(* The ends of disjoint chords lo[i] .. hi[i] that are on a ray from 0 to  *)
(* last: the j-th is at e[j], of chord sh[j], which the ray enters there   *)
(* if out[j] and leaves otherwise.                                         *)
RayCut(len, e, out, sh, I, lo, hi, last) ==
  /\ len \in Nat /\ last \in Nat /\ e \in [1 .. len -> Nat]
  /\ \A j \in 1 .. len : out[j] \in BOOLEAN /\ sh[j] \in I /\ e[j] <= last
  /\ \A i \in I : lo[i] \in Int /\ hi[i] \in Int /\ lo[i] < hi[i]
  /\ \A a, b \in 1 .. len : a < b => e[a] < e[b]
  /\ \A j \in 1 .. len : out[j] => e[j] = lo[sh[j]] /\ e[j] < last
  /\ \A j \in 1 .. len : ~out[j] => e[j] = hi[sh[j]]
  /\ \A i, j \in I : i # j => hi[i] < lo[j] \/ hi[j] < lo[i]
  /\ \A i \in I : 0 < lo[i] /\ lo[i] < last => \E j \in 1 .. len : e[j] = lo[i]
  /\ \A i \in I : 0 < hi[i] /\ hi[i] < last => \E j \in 1 .. len : e[j] = hi[i]

(* Point y lies between the ends j - 1 and j.                              *)
Slot(len, e, y, j) ==
  /\ j \in 1 .. len + 1
  /\ j = 1 \/ e[j - 1] < y
  /\ j = len + 1 \/ y <= e[j]

(* Every point lies between two successive ends. *)
LEMMA SlotExists ==
  ASSUME NEW len \in Nat, NEW e \in [1 .. len -> Nat], NEW y \in Int
  PROVE  \E j : Slot(len, e, y, j)
<1> DEFINE T == {j \in 1 .. len + 1 : j = len + 1 \/ y <= e[j]}
<1>1. T \subseteq Nat /\ len + 1 \in T
  OBVIOUS
<1>2. PICK j \in T : \A i \in T : j <= i
  <2> HIDE DEF T
  <2> QED
    BY <1>1, LeastNat
<1>3. j \in 1 .. len + 1 /\ (j = len + 1 \/ y <= e[j])
  OBVIOUS
<1>4. ASSUME j # 1 PROVE e[j - 1] < y
  <2>1. j - 1 \in 1 .. len /\ ~(j <= j - 1)
    BY <1>3, <1>4
  <2>2. j - 1 \notin T
    BY <1>2, <2>1
  <2>3. ~(y <= e[j - 1]) /\ e[j - 1] \in Nat
    BY <2>1, <2>2
  <2> QED
    BY <2>3
<1> QED
  BY <1>3, <1>4 DEF Slot

(* They are the only two. *)
LEMMA SlotUnique ==
  ASSUME NEW len \in Nat, NEW e \in [1 .. len -> Nat], NEW y \in Int,
         \A a, b \in 1 .. len : a < b => e[a] < e[b],
         NEW i, Slot(len, e, y, i), NEW j, Slot(len, e, y, j)
  PROVE  i = j
<1>1. ASSUME NEW a, Slot(len, e, y, a), NEW b, Slot(len, e, y, b), a < b
      PROVE  FALSE
  <2>1. a \in 1 .. len /\ y <= e[a] /\ b - 1 \in 1 .. len /\ e[b - 1] < y /\ b \in 1 .. len + 1
    BY <1>1 DEF Slot
  <2>2. e[a] \in Nat /\ e[b - 1] \in Nat
    BY <2>1
  <2>3. e[b - 1] < e[a]
    BY <2>1, <2>2
  <2>4. a <= b - 1
    BY <1>1, <2>1
  <2>5. a = b - 1 \/ a < b - 1
    BY <2>1, <2>4
  <2>6. a = b - 1 \/ e[a] < e[b - 1]
    BY <2>1, <2>5
  <2> QED
    BY <2>2, <2>3, <2>6
<1>2. i \in Int /\ j \in Int
  BY DEF Slot
<1>3. ~(i < j) /\ ~(j < i)
  BY <1>1
<1> QED
  BY <1>2, <1>3

(* No two entries follow each other. *)
LEMMA EntriesApart ==
  ASSUME NEW len, NEW e, NEW out, NEW sh, NEW I, NEW lo, NEW hi, NEW last,
         RayCut(len, e, out, sh, I, lo, hi, last),
         NEW j \in 2 .. len, out[j], out[j - 1]
  PROVE  FALSE
<1>0. len \in Nat /\ last \in Nat /\ j \in 1 .. len /\ j - 1 \in 1 .. len
  BY DEF RayCut
<1>1. PICK a \in I, b \in I : a = sh[j - 1] /\ b = sh[j]
  <2>1. sh[j - 1] \in I /\ sh[j] \in I
    BY <1>0 DEF RayCut
  <2> QED
    BY <2>1
<1>2. PICK la \in Int, ha \in Int, lb \in Int, hb \in Int :
        la = lo[a] /\ ha = hi[a] /\ lb = lo[b] /\ hb = hi[b]
  <2>1. lo[a] \in Int /\ hi[a] \in Int /\ lo[b] \in Int /\ hi[b] \in Int
    BY <1>1 DEF RayCut
  <2> QED
    BY <2>1
<1>3. la < ha /\ lb < hb /\ (a # b => ha < lb \/ hb < la)
  BY <1>1, <1>2 DEF RayCut
<1>4. e[j - 1] = la /\ e[j] = lb /\ lb < last /\ la < lb /\ la \in Nat
  <2>1. e[j - 1] = la /\ e[j] = lb /\ lb < last
    BY <1>0, <1>1, <1>2 DEF RayCut
  <2>2. e[j - 1] < e[j] /\ e[j - 1] \in Nat
    BY <1>0 DEF RayCut
  <2> QED
    BY <2>1, <2>2
<1>5. ha < lb
  BY <1>1, <1>2, <1>3, <1>4
<1>6. PICK c \in 1 .. len : e[c] = ha
  <2>1. 0 < ha /\ ha < last
    BY <1>0, <1>3, <1>4, <1>5
  <2> QED
    BY <1>1, <1>2, <2>1 DEF RayCut
<1>7. \A x, z \in 1 .. len : e[x] \in Nat /\ (x < z => e[x] < e[z])
  BY DEF RayCut
<1>8. ~(c <= j - 1) /\ ~(c >= j)
  <2>1. c < j - 1 => e[c] < e[j - 1]
    BY <1>0, <1>7
  <2>2. j < c => e[j] < e[c]
    BY <1>0, <1>7
  <2> QED
    BY <1>0, <1>3, <1>4, <1>5, <1>6, <2>1, <2>2
<1> QED
  BY <1>0, <1>8

(* An end of a chord that is strictly between the ends of the ray is not   *)
(* strictly within a slot.                                                 *)
LEMMA NothingBetween ==
  ASSUME NEW len, NEW e, NEW out, NEW sh, NEW I, NEW lo, NEW hi, NEW last,
         RayCut(len, e, out, sh, I, lo, hi, last),
         NEW y \in 0 .. last, NEW j, Slot(len, e, y, j),
         NEW i \in I, NEW v, v = lo[i] \/ v = hi[i], 0 < v, v < last
  PROVE  /\ j = 1 => y <= v
         /\ j = len + 1 => v <= y
         /\ j # 1 => v <= e[j - 1] \/ y <= v
         /\ j # len + 1 => v <= y \/ e[j] <= v
<1>0. len \in Nat /\ last \in Nat /\ v \in Int
  BY DEF RayCut
<1>1. PICK c \in 1 .. len : e[c] = v
  BY DEF RayCut
<1>2. \A x, z \in 1 .. len : e[x] \in Nat /\ (x < z => e[x] < e[z])
  BY DEF RayCut
<1>3. j \in 1 .. len + 1 /\ (j = 1 \/ e[j - 1] < y) /\ (j = len + 1 \/ y <= e[j])
  BY DEF Slot
<1>4. CASE c < j
  <2>1. j - 1 \in 1 .. len /\ e[j - 1] < y /\ e[j - 1] \in Nat
    BY <1>0, <1>1, <1>2, <1>3, <1>4
  <2>2. v <= e[j - 1]
    <3>1. c = j - 1 \/ c < j - 1
      BY <1>3, <1>4
    <3> QED
      BY <1>1, <1>2, <2>1, <3>1
  <2> QED
    BY <1>0, <1>3, <1>4, <2>1, <2>2
<1>5. CASE c >= j
  <2>1. j \in 1 .. len /\ y <= e[j] /\ e[j] \in Nat
    BY <1>0, <1>1, <1>2, <1>3, <1>5
  <2>2. e[j] <= v
    <3>1. c = j \/ j < c
      BY <1>3, <1>5
    <3> QED
      BY <1>1, <1>2, <2>1, <3>1
  <2> QED
    BY <1>0, <1>3, <1>5, <2>1, <2>2
<1> QED
  BY <1>0, <1>3, <1>4, <1>5

(* A slot is fluid: it ends at an entry, or behind the last exit. *)
ClosedSlot(len, out, j) == IF j = len + 1 THEN len = 0 \/ ~out[len] ELSE out[j]

(* A point that is no end of a chord is in none of them iff its slot is    *)
(* fluid.                                                                  *)
LEMMA FluidSlot ==
  ASSUME NEW len, NEW e, NEW out, NEW sh, NEW I, NEW lo, NEW hi, NEW last,
         RayCut(len, e, out, sh, I, lo, hi, last),
         NEW y \in 0 .. last, NEW j, Slot(len, e, y, j),
         \A i \in I : y # lo[i] /\ y # hi[i],
         len = 0 => ~ \E i \in I : lo[i] < y /\ y < hi[i]
  PROVE  ClosedSlot(len, out, j) <=> ~ \E i \in I : lo[i] < y /\ y < hi[i]
<1>0. len \in Nat /\ last \in Nat /\ j \in 1 .. len + 1 /\ y \in Int /\ 0 <= y /\ y <= last
  BY DEF RayCut, Slot
<1>1. \A i \in I : lo[i] \in Int /\ hi[i] \in Int /\ lo[i] < hi[i]
  BY DEF RayCut
<1>2. \A a, b \in I : a # b => hi[a] < lo[b] \/ hi[b] < lo[a]
  BY DEF RayCut
<1>3. \A c \in 1 .. len : /\ e[c] \in Nat /\ e[c] <= last /\ sh[c] \in I /\ out[c] \in BOOLEAN
                          /\ out[c] => e[c] = lo[sh[c]] /\ e[c] < last
                          /\ ~out[c] => e[c] = hi[sh[c]]
  BY DEF RayCut
<1>4. ASSUME j \in 1 .. len, out[j], NEW i \in I, lo[i] < y, y < hi[i] PROVE FALSE
  <2>1. PICK a \in I : a = sh[j]
    BY <1>3, <1>4
  <2>2. e[j] = lo[a] /\ e[j] < last /\ y <= e[j] /\ j # len + 1
    BY <1>0, <1>3, <1>4, <2>1 DEF Slot
  <2>3. PICK la \in Int, ha \in Int, li \in Int, hh \in Int :
          la = lo[a] /\ ha = hi[a] /\ li = lo[i] /\ hh = hi[i]
    BY <1>1
  <2>4. y < la /\ la < ha /\ li < y /\ y < hh /\ la < last
    BY <1>1, <1>4, <2>2, <2>3
  <2>5. a # i /\ (hh < la \/ ha < li)
    BY <1>2, <2>3, <2>4
  <2>6. hh < la /\ 0 < hh /\ hh < last
    BY <1>0, <2>4, <2>5
  <2>7. hh <= y \/ e[j] <= hh
    BY <2>2, <2>3, <2>6, NothingBetween
  <2> QED
    BY <2>2, <2>3, <2>4, <2>6, <2>7
<1>5. ASSUME j \in 1 .. len, ~out[j] PROVE \E i \in I : lo[i] < y /\ y < hi[i]
  <2>1. PICK a \in I : a = sh[j]
    BY <1>3, <1>5
  <2>2. e[j] = hi[a] /\ e[j] <= last /\ y <= e[j] /\ j # len + 1
    BY <1>0, <1>3, <1>5, <2>1 DEF Slot
  <2>3. PICK la \in Int, ha \in Int : la = lo[a] /\ ha = hi[a]
    BY <1>1
  <2>4. y < ha /\ la < ha /\ y # la /\ ha <= last
    BY <1>1, <2>2, <2>3
  <2>5. ~(y < la)
    <3> SUFFICES ASSUME y < la PROVE FALSE
      OBVIOUS
    <3>1. 0 < la /\ la < last
      BY <1>0, <2>4
    <3>2. la <= y \/ e[j] <= la
      BY <2>2, <2>3, <3>1, NothingBetween
    <3> QED
      BY <2>2, <2>3, <2>4, <3>2
  <2> QED
    BY <2>3, <2>4, <2>5
<1>6. ASSUME j = len + 1, len # 0, ~out[len], NEW i \in I, lo[i] < y, y < hi[i] PROVE FALSE
  <2>0. len \in 1 .. len
    BY <1>0, <1>6
  <2>1. PICK a \in I : a = sh[len]
    BY <1>3, <2>0
  <2>2. e[len] = hi[a] /\ e[len] < y /\ e[len] \in Nat /\ j # 1 /\ j - 1 = len
    BY <1>0, <1>3, <1>6, <2>0, <2>1 DEF Slot
  <2>3. PICK la \in Int, ha \in Int, li \in Int, hh \in Int :
          la = lo[a] /\ ha = hi[a] /\ li = lo[i] /\ hh = hi[i]
    BY <1>1
  <2>4. la < ha /\ li < y /\ y < hh /\ ha < y /\ 0 <= ha
    BY <1>1, <1>6, <2>2, <2>3
  <2>5. a # i /\ (hh < la \/ ha < li)
    BY <1>2, <2>3, <2>4
  <2>6. ha < li /\ 0 < li /\ li < last
    BY <1>0, <2>4, <2>5
  <2>7. li <= e[len] \/ y <= li
    BY <2>2, <2>3, <2>6, NothingBetween
  <2> QED
    BY <2>2, <2>3, <2>4, <2>6, <2>7
<1>7. ASSUME j = len + 1, len # 0, out[len] PROVE \E i \in I : lo[i] < y /\ y < hi[i]
  <2>0. len \in 1 .. len
    BY <1>0, <1>7
  <2>1. PICK a \in I : a = sh[len]
    BY <1>3, <2>0
  <2>2. e[len] = lo[a] /\ e[len] < y /\ e[len] \in Nat /\ j # 1 /\ j - 1 = len
    BY <1>0, <1>3, <1>7, <2>0, <2>1 DEF Slot
  <2>3. PICK la \in Int, ha \in Int : la = lo[a] /\ ha = hi[a]
    BY <1>1
  <2>4. la < y /\ la < ha /\ y # ha /\ 0 <= la
    BY <1>1, <2>2, <2>3
  <2>5. ~(ha < y)
    <3> SUFFICES ASSUME ha < y PROVE FALSE
      OBVIOUS
    <3>1. 0 < ha /\ ha < last
      BY <1>0, <2>4
    <3>2. ha <= e[len] \/ y <= ha
      BY <2>2, <2>3, <3>1, NothingBetween
    <3> QED
      BY <2>2, <2>3, <2>4, <3>2
  <2> QED
    BY <2>3, <2>4, <2>5
<1>8. CASE j = len + 1
  BY <1>0, <1>3, <1>6, <1>7, <1>8 DEF ClosedSlot
<1>9. CASE j # len + 1
  <2>1. j \in 1 .. len
    BY <1>0, <1>9
  <2>2. out[j] \in BOOLEAN
    BY <1>3, <2>1
  <2>3. ClosedSlot(len, out, j) = out[j]
    BY <1>9 DEF ClosedSlot
  <2> QED
    BY <1>4, <1>5, <2>1, <2>2, <2>3
<1> QED
  BY <1>8, <1>9

-----------------------------------------------------------------------------
(* The rays of the mesh *)

(* Where an intersection is, in exact arithmetic. *)
Exact(d, m) == m.t - Shift(m.shape, d)

(* The records of a ray, in order. *)
Enumerates(h, d, r) ==
  /\ h \in Seq(1 .. Len(R[d])) /\ Len(h) \in Nat /\ DOMAIN h = 1 .. Len(h)
  /\ \A j \in 1 .. Len(h) : h[j] \in 1 .. Len(R[d]) /\ R[d][h[j]].ray = r
  /\ \A a, b \in 1 .. Len(h) : a < b => h[a] < h[b]
  /\ \A i \in 1 .. Len(R[d]) : R[d][i].ray = r => \E j \in 1 .. Len(h) : h[j] = i

(* The intersections of a ray are the records of it. *)
LEMMA HitsOnIs ==
  ASSUME MeshInv, NEW d \in Dirs, NEW r, NEW h, h = HitsOn(d, r)
  PROVE  Enumerates(h, d, r)
<1> DEFINE K == {i \in 1 .. Len(R[d]) : R[d][i].ray = r}
           g == [i \in 1 .. Len(R[d]) |-> IF i \in K THEN <<i>> ELSE <<>>]
<1>1. Len(R[d]) \in Nat /\ DOMAIN R[d] = 1 .. Len(R[d])
  BY DEF MeshInv, MeshTyped
<1>2. h = FlattenSeq(g)
  <2>1. g = [i \in DOMAIN R[d] |-> IF R[d][i].ray = r THEN <<i>> ELSE <<>>]
    BY <1>1
  <2> QED
    BY <2>1 DEF HitsOn
<1>3. PICK m \in Nat : m = Len(R[d])
  BY <1>1
<1> HIDE DEF K
<1>4. /\ h \in Seq(1 .. Len(R[d])) /\ Len(h) \in Nat /\ DOMAIN h = 1 .. Len(h)
      /\ \A j \in 1 .. Len(h) : h[j] \in 1 .. Len(R[d]) /\ h[j] \in K
      /\ \A a, b \in 1 .. Len(h) : a < b => h[a] < h[b]
      /\ \A i \in 1 .. Len(R[d]) : i \in K => \E j \in 1 .. Len(h) : h[j] = i
  <2>1. PICK Q : Q = K
    OBVIOUS
  <2>2. PICK f : f = [i \in 1 .. m |-> IF i \in Q THEN <<i>> ELSE <<>>]
    OBVIOUS
  <2>3. h = FlattenSeq(f)
    BY <1>2, <1>3, <2>1, <2>2
  <2>4. Selects(f, m, Q)
    BY <2>2, SelectsIs
  <2>5. /\ h \in Seq(1 .. m) /\ Len(h) \in Nat /\ DOMAIN h = 1 .. Len(h)
        /\ \A j \in 1 .. Len(h) : h[j] \in 1 .. m /\ h[j] \in Q
        /\ \A a, b \in 1 .. Len(h) : a < b => h[a] < h[b]
        /\ \A i \in 1 .. m : i \in Q => \E j \in 1 .. Len(h) : h[j] = i
    BY <2>3, <2>4, SelectedAre
  <2> QED
    BY <1>3, <2>1, <2>5
<1> QED
  BY <1>4 DEF K, Enumerates

(* The exact position of a whole number of cells and a part of one.        *)
LEMMA CellNumbers ==
  ASSUME NEW x \in Int, NEW c \in Nat, NEW a \in Int, NEW out \in BOOLEAN,
         a = (x \div 64) + (IF out THEN 1 ELSE 0),
         a \in 0 .. c - 1, (IF out THEN a - 1 ELSE a + 1) \in 0 .. c - 1
  PROVE  x \in Nat /\ x < 64 * (c - 1)
<1>1. CASE out
  <2>1. x \div 64 >= 0 /\ x \div 64 <= c - 2
    BY <1>1
  <2> QED
    BY <2>1
<1>2. CASE ~out
  <2>1. x \div 64 >= 0 /\ x \div 64 <= c - 2
    BY <1>2
  <2> QED
    BY <2>1
<1> QED
  BY <1>1, <1>2

(* A record is of an end of the chord of a shape, in the cell of that end. *)
LEMMA RecordFacts ==
  ASSUME FoundInv, Regular, NEW d \in Active, NEW i \in 1 .. Len(R[d]),
         NEW m, m = R[d][i], NEW x, x = Exact(d, m)
  PROVE  /\ HitAt(HitOfRecord(m), d, m.ray) /\ m.ray \in 0 .. Rays(d) - 1
         /\ m.shape \in DOMAIN cfg.shapes /\ Cuts(m.shape, d, m.ray) /\ m.outside \in BOOLEAN
         /\ m.outside => x = Enter(m.shape, d, m.ray)
         /\ ~m.outside => x = Leave(m.shape, d, m.ray)
         /\ x \in Nat /\ x < Length(d) /\ m.t = x + Shift(m.shape, d)
         /\ Shift(m.shape, d) \in Int /\ m.t \in Int
         /\ m.at = (x \div 64) + (IF m.outside THEN 1 ELSE 0)
<1>0. d \in Dirs /\ cfg \in Configs /\ R \in [Dirs -> Seq(Hits)]
  BY DEF FoundInv, MeshInv, MeshTyped, Active
<1>1. Recorded(d, m)
  BY <1>0 DEF FoundInv, MeshInv, AllRecorded
<1>2. m \in Hits
  BY <1>1 DEF Recorded
<1>3. m.ray \in Nat /\ m.t \in Int /\ m.outside \in BOOLEAN /\ m.at \in Int
  BY <1>2 DEF Hits
<1>4. PICK h : h = HitOfRecord(m)
  OBVIOUS
<1>5. h.t = m.t /\ h.outside = m.outside /\ h.shape = m.shape
  BY <1>4 DEF HitOfRecord
<1>6. HitAt(h, d, m.ray)
  BY <1>0, <1>4 DEF FoundInv, Genuine
<1>7. CandidateOf(h, d, Origin(d, m.ray))
  BY <1>6 DEF HitAt, Hitting
<1>8. PICK w : w = Shift(m.shape, d)
  OBVIOUS
<1>9. /\ m.shape \in DOMAIN cfg.shapes /\ Cuts(m.shape, d, m.ray)
      /\ m.outside => m.t = Enter(m.shape, d, m.ray) + w
      /\ ~m.outside => m.t = Leave(m.shape, d, m.ray) + w
  BY <1>0, <1>3, <1>5, <1>7, <1>8, CandidateEnds
<1>10. PICK e, l : e = Enter(m.shape, d, m.ray) /\ l = Leave(m.shape, d, m.ray)
  OBVIOUS
<1>11. e \in Int /\ l \in Int /\ w \in Int
  <2>1. Chord(m.shape, d, e, l, w)
    BY <1>0, <1>3, <1>8, <1>9, <1>10, ChordFacts
  <2> QED
    BY <2>1 DEF Chord
<1>12. x = m.t - w /\ x \in Int /\ m.t = x + w
  BY <1>3, <1>8, <1>11 DEF Exact
<1>13. (m.outside => x = e) /\ (~m.outside => x = l)
  BY <1>3, <1>9, <1>10, <1>11, <1>12
<1>14. Bracketed(d, m)
  BY <1>1 DEF Recorded
<1>15. PICK c \in Nat : n[d] = c
  BY <1>0, ConfigFacts
<1>16. /\ m.at = (x \div 64) + (IF m.outside THEN 1 ELSE 0)
       /\ m.at \in 0 .. c - 1 /\ (IF m.outside THEN m.at - 1 ELSE m.at + 1) \in 0 .. c - 1
  <2>1. x = m.t - IF cfg.shapes[m.shape].kind = "sphere" THEN cfg.err[d] ELSE 0
    BY <1>8, <1>12 DEF Shift
  <2> QED
    BY <1>14, <1>15, <2>1 DEF Bracketed, Cell
<1>17. x \in Nat /\ x < 64 * (c - 1)
  BY <1>3, <1>12, <1>16, CellNumbers
<1>18. x < Length(d)
  BY <1>15, <1>17 DEF Length, Cell
<1>19. m.ray \in 0 .. Rays(d) - 1
  BY <1>1 DEF Recorded
<1> QED
  BY <1>3, <1>4, <1>6, <1>8, <1>9, <1>10, <1>11, <1>12, <1>13, <1>16, <1>17, <1>18, <1>19

(* Ends found in this order are in this order. *)
LEMMA ExactOrder ==
  ASSUME NEW e1 \in Int, NEW l1 \in Int, NEW e2 \in Int, NEW l2 \in Int,
         NEW err \in {-2, 0, 2}, NEW w1 \in {0, err}, NEW w2 \in {0, err},
         e1 + 32 <= l1, e2 + 32 <= l2, l1 + 4 < e2 \/ l2 + 4 < e1,
         NEW x1 \in Int, NEW x2 \in Int, x1 = e1 \/ x1 = l1, x2 = e2 \/ x2 = l2,
         x1 + w1 < x2 + w2
  PROVE  x1 < x2
OBVIOUS

(* The records of a ray are in the order of the ends they are of. *)
LEMMA RecordsOrder ==
  ASSUME FoundInv, Regular, Apart, NEW d \in Active,
         NEW i \in 1 .. Len(R[d]), NEW j \in 1 .. Len(R[d]), i < j, R[d][i].ray = R[d][j].ray
  PROVE  Exact(d, R[d][i]) < Exact(d, R[d][j])
<1>0. d \in Dirs /\ cfg \in Configs
  BY DEF FoundInv, MeshInv, MeshTyped, Active
<1>1. PICK a, b : a = R[d][i] /\ b = R[d][j]
  OBVIOUS
<1>2. PICK x, y : x = Exact(d, a) /\ y = Exact(d, b)
  OBVIOUS
<1>3. PICK r : r = a.ray /\ r = b.ray
  BY <1>1
<1>4. /\ r \in 0 .. Rays(d) - 1
      /\ a.shape \in DOMAIN cfg.shapes /\ Cuts(a.shape, d, r) /\ a.outside \in BOOLEAN
      /\ a.outside => x = Enter(a.shape, d, r)
      /\ ~a.outside => x = Leave(a.shape, d, r)
      /\ x \in Nat /\ a.t = x + Shift(a.shape, d)
  <2>1. /\ a.ray \in 0 .. Rays(d) - 1
        /\ a.shape \in DOMAIN cfg.shapes /\ Cuts(a.shape, d, a.ray) /\ a.outside \in BOOLEAN
        /\ a.outside => x = Enter(a.shape, d, a.ray)
        /\ ~a.outside => x = Leave(a.shape, d, a.ray)
        /\ x \in Nat /\ a.t = x + Shift(a.shape, d)
    BY <1>1, <1>2, RecordFacts, SMTT(20)
  <2> QED
    BY <1>3, <2>1
<1>5. /\ b.shape \in DOMAIN cfg.shapes /\ Cuts(b.shape, d, r) /\ b.outside \in BOOLEAN
      /\ b.outside => y = Enter(b.shape, d, r)
      /\ ~b.outside => y = Leave(b.shape, d, r)
      /\ y \in Nat /\ b.t = y + Shift(b.shape, d)
  BY <1>1, <1>2, <1>3, RecordFacts, SMTT(20)
<1>6. a.t < b.t
  BY <1>0, <1>1, <1>3 DEF FoundInv, Sorted
<1>7. PICK e1, l1, w1 : e1 = Enter(a.shape, d, r) /\ l1 = Leave(a.shape, d, r) /\ w1 = Shift(a.shape, d)
  OBVIOUS
<1>8. PICK e2, l2, w2 : e2 = Enter(b.shape, d, r) /\ l2 = Leave(b.shape, d, r) /\ w2 = Shift(b.shape, d)
  OBVIOUS
<1>9. e1 \in Int /\ l1 \in Int /\ w1 \in {-2, 0, 2} /\ e1 + 32 <= l1
  <2>1. Chord(a.shape, d, e1, l1, w1)
    BY <1>0, <1>4, <1>7, ChordFacts
  <2> QED
    BY <2>1 DEF Chord
<1>10. e2 \in Int /\ l2 \in Int /\ w2 \in {-2, 0, 2} /\ e2 + 32 <= l2
  <2>1. Chord(b.shape, d, e2, l2, w2)
    BY <1>0, <1>4, <1>5, <1>8, ChordFacts
  <2> QED
    BY <2>1 DEF Chord
<1>11. x + w1 < y + w2
  BY <1>4, <1>5, <1>6, <1>7, <1>8
<1>12. CASE a.shape = b.shape
  <2>1. w1 = w2
    BY <1>7, <1>8, <1>12
  <2> QED
    BY <1>1, <1>2, <1>4, <1>5, <1>9, <1>11, <2>1
<1>13. CASE a.shape # b.shape
  <2>1. l1 + 4 < e2 \/ l2 + 4 < e1
    BY <1>4, <1>5, <1>7, <1>8, <1>13 DEF Apart, SnapTol
  <2>2. PICK err \in {-2, 0, 2} : err = cfg.err[d]
    <3>1. cfg.err \in [Dirs -> {-SnapTol, 0, SnapTol}]
      BY <1>0, ConfigFacts
    <3> QED
      BY <1>0, <3>1 DEF SnapTol
  <2>3. w1 \in {0, err} /\ w2 \in {0, err}
    BY <1>7, <1>8, <2>2 DEF Shift
  <2>4. (x = e1 \/ x = l1) /\ (y = e2 \/ y = l2) /\ x \in Int /\ y \in Int
    BY <1>4, <1>5, <1>7, <1>8
  <2>5. PICK p \in Int, q \in Int, u \in {0, err}, w \in {0, err} : p = x /\ q = y /\ u = w1 /\ w = w2
    BY <2>3, <2>4
  <2>6. p + u < q + w /\ (p = e1 \/ p = l1) /\ (q = e2 \/ q = l2)
    BY <1>11, <2>4, <2>5
  <2>7. p < q
    BY <1>9, <1>10, <1>11, <2>1, <2>2, <2>3, <2>6, ExactOrder
  <2> QED
    BY <1>1, <1>2, <2>5, <2>7
<1> QED
  BY <1>12, <1>13

(* When the search is done every end of a chord that is between the ends   *)
(* of a ray has been recorded.                                             *)
LEMMA EndRecorded ==
  ASSUME FoundInv, Regular, Apart, phase # "cast", NEW d \in Active, NEW r \in 0 .. Rays(d) - 1,
         NEW i \in DOMAIN cfg.shapes, Cuts(i, d, r), NEW out \in BOOLEAN,
         NEW e, e = IF out THEN Enter(i, d, r) ELSE Leave(i, d, r), 0 < e, e < Length(d)
  PROVE  \E a \in 1 .. Len(R[d]) : R[d][a].ray = r /\ Exact(d, R[d][a]) = e
<1>0. d \in Dirs /\ cfg \in Configs /\ r \in Int
  BY DEF FoundInv, MeshInv, MeshTyped, Active
<1>1. PICK g : /\ Hitting(g, d, Origin(d, r), 0, Length(d))
               /\ g.shape = i /\ g.outside = out /\ g.t = e + Shift(i, d)
  BY <1>0, EndFound
<1>2. HitAt(g, d, r) /\ Past(d, r, g.t)
  BY <1>1 DEF HitAt, Past
<1>3. Noted(d, r, g)
  BY <1>0, <1>2 DEF FoundInv, Searched
<1>4. PICK a \in 1 .. Len(R[d]) : /\ R[d][a].ray = r /\ R[d][a].t = g.t
                                  /\ R[d][a].outside = g.outside /\ R[d][a].shape = g.shape
  BY <1>3 DEF Noted
<1>5. Exact(d, R[d][a]) = (e + Shift(i, d)) - Shift(i, d)
  BY <1>1, <1>4 DEF Exact
<1>6. e \in Int /\ Shift(i, d) \in Int
  <2>1. Chord(i, d, Enter(i, d, r), Leave(i, d, r), Shift(i, d))
    BY <1>0, ChordFacts
  <2> QED
    BY <2>1 DEF Chord
<1> QED
  BY <1>4, <1>5, <1>6

(* The shapes that a ray meets. *)
Met(d, r) == {i \in DOMAIN cfg.shapes : Cuts(i, d, r)}

(* The ends on a ray, on which side of its shape each is, and of which      *)
(* shape.                                                                  *)
EndsOn(d, h) == [j \in DOMAIN h |-> Exact(d, R[d][h[j]])]
(* See EndsOn. *)
SidesOn(d, h) == [j \in DOMAIN h |-> R[d][h[j]].outside]
(* See EndsOn. *)
ShapesOn(d, h) == [j \in DOMAIN h |-> R[d][h[j]].shape]

(* Where the ray enters and leaves the shapes it meets. *)
Enters(d, r) == [i \in Met(d, r) |-> Enter(i, d, r)]
(* See Enters. *)
Leaves(d, r) == [i \in Met(d, r) |-> Leave(i, d, r)]

(* When the search is done a ray has the ends of all chords it is cut into. *)
LEMMA RayIsCut ==
  ASSUME FoundInv, Regular, Apart, phase # "cast", NEW d \in Active, NEW r \in 0 .. Rays(d) - 1,
         NEW h, h = HitsOn(d, r), NEW len, len = Len(h),
         NEW e, e = EndsOn(d, h), NEW out, out = SidesOn(d, h), NEW sh, sh = ShapesOn(d, h),
         NEW lo, lo = Enters(d, r), NEW hi, hi = Leaves(d, r)
  PROVE  /\ RayCut(len, e, out, sh, Met(d, r), lo, hi, Length(d))
         /\ \A j \in 1 .. len : R[d][h[j]].at = (e[j] \div 64) + (IF out[j] THEN 1 ELSE 0)
<1>0. d \in Dirs /\ cfg \in Configs /\ r \in Int /\ MeshInv
  BY DEF FoundInv, MeshInv, MeshTyped, Active
<1>1. /\ len \in Nat /\ DOMAIN h = 1 .. len /\ Enumerates(h, d, r)
      /\ \A j \in 1 .. len : h[j] \in 1 .. Len(R[d]) /\ R[d][h[j]].ray = r
      /\ \A a, b \in 1 .. len : a < b => h[a] < h[b]
      /\ \A i \in 1 .. Len(R[d]) : R[d][i].ray = r => \E j \in 1 .. len : h[j] = i
  <2>1. Enumerates(h, d, r)
    BY <1>0, HitsOnIs
  <2> QED
    BY <2>1, Zenon DEF Enumerates
<1>2. PICK last \in Nat : last = Length(d)
  <2>1. n[d] \in Nat \ {0}
    BY <1>0, ConfigFacts
  <2> QED
    BY <2>1 DEF Length, Cell
<1>3. ASSUME NEW i \in Met(d, r)
      PROVE  /\ i \in DOMAIN cfg.shapes /\ Cuts(i, d, r)
             /\ lo[i] = Enter(i, d, r) /\ hi[i] = Leave(i, d, r)
             /\ lo[i] \in Int /\ hi[i] \in Int /\ lo[i] < hi[i]
  <2>1. i \in DOMAIN cfg.shapes /\ Cuts(i, d, r)
    BY DEF Met
  <2>2. PICK a, b : a = Enter(i, d, r) /\ b = Leave(i, d, r)
    OBVIOUS
  <2>3. Chord(i, d, a, b, Shift(i, d))
    BY <1>0, <2>1, <2>2, ChordFacts
  <2>4. a \in Int /\ b \in Int /\ a < b
    BY <2>3 DEF Chord
  <2>5. lo[i] = a /\ hi[i] = b
    BY <2>2 DEF Enters, Leaves
  <2> QED
    BY <2>1, <2>2, <2>4, <2>5
<1>4. ASSUME NEW j \in 1 .. len
      PROVE  /\ out[j] \in BOOLEAN /\ sh[j] \in Met(d, r) /\ e[j] \in Nat /\ e[j] < last
             /\ out[j] => e[j] = lo[sh[j]]
             /\ ~out[j] => e[j] = hi[sh[j]]
             /\ R[d][h[j]].at = (e[j] \div 64) + (IF out[j] THEN 1 ELSE 0)
  <2>1. PICK m, x : m = R[d][h[j]] /\ x = Exact(d, m)
    OBVIOUS
  <2>2. h[j] \in 1 .. Len(R[d]) /\ m.ray = r
    BY <1>1, <2>1
  <2>3. /\ m.shape \in DOMAIN cfg.shapes /\ Cuts(m.shape, d, r) /\ m.outside \in BOOLEAN
        /\ m.outside => x = Enter(m.shape, d, r)
        /\ ~m.outside => x = Leave(m.shape, d, r)
        /\ x \in Nat /\ x < Length(d)
        /\ m.at = (x \div 64) + (IF m.outside THEN 1 ELSE 0)
    BY <2>1, <2>2, RecordFacts
  <2>4. e[j] = x /\ out[j] = m.outside /\ sh[j] = m.shape
    BY <1>1, <2>1 DEF EndsOn, SidesOn, ShapesOn
  <2>5. m.shape \in Met(d, r)
    BY <2>3 DEF Met
  <2>6. lo[m.shape] = Enter(m.shape, d, r) /\ hi[m.shape] = Leave(m.shape, d, r)
    BY <1>3, <2>5
  <2> QED
    BY <1>2, <2>1, <2>3, <2>4, <2>5, <2>6
<1>5. ASSUME NEW a \in 1 .. len, NEW b \in 1 .. len, a < b PROVE e[a] < e[b]
  <2>1. /\ h[a] \in 1 .. Len(R[d]) /\ h[b] \in 1 .. Len(R[d]) /\ h[a] < h[b]
        /\ R[d][h[a]].ray = r /\ R[d][h[b]].ray = r
    BY <1>1, <1>5
  <2>2. Exact(d, R[d][h[a]]) < Exact(d, R[d][h[b]])
    BY <2>1, RecordsOrder
  <2>3. e[a] = Exact(d, R[d][h[a]]) /\ e[b] = Exact(d, R[d][h[b]])
    BY <1>1 DEF EndsOn
  <2> QED
    BY <2>2, <2>3
<1>6. ASSUME NEW i \in Met(d, r), NEW v, v = lo[i] \/ v = hi[i], 0 < v, v < last
      PROVE  \E j \in 1 .. len : e[j] = v
  <2>1. PICK o \in BOOLEAN : v = IF o THEN Enter(i, d, r) ELSE Leave(i, d, r)
    BY <1>3, <1>6
  <2>2. PICK a \in 1 .. Len(R[d]) : R[d][a].ray = r /\ Exact(d, R[d][a]) = v
    BY <1>2, <1>3, <1>6, <2>1, EndRecorded
  <2>3. PICK j \in 1 .. len : h[j] = a
    BY <1>1, <2>2
  <2>4. e[j] = Exact(d, R[d][h[j]])
    BY <1>1 DEF EndsOn
  <2> QED
    BY <2>2, <2>3, <2>4
<1>7. ASSUME NEW i \in Met(d, r), NEW j \in Met(d, r), i # j PROVE hi[i] < lo[j] \/ hi[j] < lo[i]
  <2>1. Leave(i, d, r) + 2 * SnapTol < Enter(j, d, r) \/ Leave(j, d, r) + 2 * SnapTol < Enter(i, d, r)
    BY <1>3, <1>7 DEF Apart
  <2>2. hi[i] + 4 < lo[j] \/ hi[j] + 4 < lo[i]
    BY <1>3, <2>1 DEF SnapTol
  <2>3. hi[i] \in Int /\ hi[j] \in Int /\ lo[i] \in Int /\ lo[j] \in Int
    BY <1>3
  <2> QED
    BY <2>2, <2>3
<1>8. e \in [1 .. len -> Nat] /\ \A j \in 1 .. len : e[j] <= last
  <2>1. DOMAIN e = 1 .. len /\ e = [j \in 1 .. len |-> e[j]]
    BY <1>1 DEF EndsOn, Enumerates
  <2>2. \A j \in 1 .. len : e[j] \in Nat /\ e[j] < last
    BY <1>4
  <2> QED
    BY <1>2, <2>1, <2>2
<1>9. \A i \in Met(d, r) : /\ 0 < lo[i] /\ lo[i] < last => \E j \in 1 .. len : e[j] = lo[i]
                           /\ 0 < hi[i] /\ hi[i] < last => \E j \in 1 .. len : e[j] = hi[i]
  BY <1>6
<1>10. \A j \in 1 .. len : /\ out[j] => e[j] = lo[sh[j]] /\ e[j] < last
                           /\ ~out[j] => e[j] = hi[sh[j]]
                           /\ out[j] \in BOOLEAN /\ sh[j] \in Met(d, r)
  BY <1>4
<1>11. \A i \in Met(d, r) : lo[i] \in Int /\ hi[i] \in Int /\ lo[i] < hi[i]
  BY <1>3
<1>12. /\ \A a, b \in 1 .. len : a < b => e[a] < e[b]
       /\ \A i, j \in Met(d, r) : i # j => hi[i] < lo[j] \/ hi[j] < lo[i]
  BY <1>5, <1>7
<1>13. RayCut(len, e, out, sh, Met(d, r), lo, hi, last)
  BY <1>1, <1>2, <1>8, <1>9, <1>10, <1>11, <1>12, Zenon DEF RayCut
<1> QED
  BY <1>2, <1>4, <1>13

-----------------------------------------------------------------------------
(* Points and shapes *)

(* A number of whole m and a rest. *)
LEMMA WholeAndRest ==
  ASSUME NEW a \in Nat, NEW m \in Nat \ {0}, NEW b \in 0 .. m - 1
  PROVE  (a * m + b) \div m = a /\ (a * m + b) % m = b
<1>1. PICK x \in Nat : x = a * m + b
  OBVIOUS
<1>2. PICK q \in Int, s \in Int : q = x \div m /\ s = x % m /\ x = m * q + s /\ 0 <= s /\ s < m
  <2>1. x \div m \in Int /\ x % m \in Int
    OBVIOUS
  <2>2. x = m * (x \div m) + (x % m) /\ 0 <= x % m /\ x % m < m
    OBVIOUS
  <2> QED
    BY <2>1, <2>2
<1>3. ~(q >= a + 1)
  <2> SUFFICES ASSUME q >= a + 1 PROVE FALSE
    OBVIOUS
  <2>1. PICK z \in Nat : q = (a + 1) + z
    <3>1. q - (a + 1) \in Nat /\ q = (a + 1) + (q - (a + 1))
      OBVIOUS
    <3> QED
      BY <3>1
  <2>2. m * q = m * a + m + m * z /\ m * z >= 0 /\ m * a = a * m
    BY <2>1
  <2> QED
    BY <1>1, <1>2, <2>2
<1>4. ~(q <= a - 1)
  <2> SUFFICES ASSUME q <= a - 1 PROVE FALSE
    OBVIOUS
  <2>1. PICK z \in Nat : a = (q + 1) + z
    <3>1. a - (q + 1) \in Nat /\ a = (q + 1) + (a - (q + 1))
      OBVIOUS
    <3> QED
      BY <3>1
  <2>2. a * m = m * q + m + m * z /\ m * z >= 0
    BY <2>1
  <2> QED
    BY <1>1, <1>2, <2>2
<1>5. q = a
  BY <1>3, <1>4
<1>6. s = b
  BY <1>1, <1>2, <1>5
<1> QED
  BY <1>1, <1>2, <1>5, <1>6

(* Every point is on the grid, and on one ray of a direction. *)
LEMMA PointOnRay ==
  ASSUME cfg \in Configs, NEW pt \in Points, NEW d \in Dirs, NEW r, r = RayOf(d, pt)
  PROVE  /\ pt \in [Dirs -> Nat] /\ \A e \in Dirs : pt[e] \in 0 .. n[e] - 1
         /\ r \in 0 .. Rays(d) - 1
         /\ \A e \in Dirs \ {d} : Origin(d, r)[e] = pt[e]
<1>0. \A e \in Dirs : n[e] \in Nat \ {0}
  BY ConfigFacts
<1>1. PICK a \in 0 .. n[0] - 1, b \in 0 .. n[1] - 1, c \in 0 .. n[2] - 1 :
        pt = [e \in Dirs |-> <<a, b, c>>[e + 1]]
  BY DEF Points
<1>2. pt[0] = a /\ pt[1] = b /\ pt[2] = c
  BY <1>1 DEF Dirs
<1>3. \A e \in Dirs : pt[e] \in 0 .. n[e] - 1 /\ pt[e] \in Nat
  BY <1>0, <1>1, <1>2 DEF Dirs
<1>4. pt \in [Dirs -> Nat]
  BY <1>1, <1>3
<1>5. PICK s \in Dirs, f \in Dirs : s = Slow(d) /\ f = Fast(d)
  BY Across
<1>6. PICK p \in Nat, q \in Nat, ns \in Nat \ {0}, nf \in Nat \ {0} :
        p = pt[s] /\ q = pt[f] /\ ns = n[s] /\ nf = n[f]
  BY <1>0, <1>3
<1>7. p \in 0 .. ns - 1 /\ q \in 0 .. nf - 1
  BY <1>3, <1>5, <1>6
<1>8. r = p * nf + q
  BY <1>5, <1>6 DEF RayOf
<1>9. r \div nf = p /\ r % nf = q
  BY <1>7, <1>8, WholeAndRest
<1>10. r \in 0 .. Rays(d) - 1
  <2>1. Rays(d) = ns * nf
    BY <1>5, <1>6 DEF Rays
  <2>2. p * nf <= (ns - 1) * nf
    BY <1>6, <1>7
  <2>3. (ns - 1) * nf = ns * nf - nf /\ p * nf \in Nat /\ ns * nf \in Nat
    OBVIOUS
  <2> QED
    BY <1>7, <1>8, <2>1, <2>2, <2>3
<1>11. \A e \in Dirs \ {d} : Origin(d, r)[e] = pt[e]
  <2>1. \A e \in Dirs \ {d} : e = s \/ e = f
    BY <1>5, Across
  <2>2. s # f /\ s # d /\ f # d
    BY <1>5, Across
  <2>3. Origin(d, r)[s] = r \div nf
    BY <1>5, <1>6, <2>2 DEF Origin
  <2>4. Origin(d, r)[f] = r % nf
    BY <1>5, <1>6, <2>2 DEF Origin
  <2> QED
    BY <1>6, <1>9, <2>1, <2>3, <2>4
<1> QED
  BY <1>3, <1>4, <1>10, <1>11

(* Half a chord against the distance of a grid point from its middle. *)
LEMMA HalfChordCuts ==
  ASSUME NEW q \in Nat \ {0}, NEW u \in Int
  PROVE  /\ HalfChord(q) \in Nat
         /\ Square(u) < q <=> -HalfChord(q) < 16 * u /\ 16 * u < HalfChord(q)
         /\ Square(u) = q <=> 16 * u = HalfChord(q) \/ 16 * u = -HalfChord(q)
<1>1. PICK m \in Nat : m = Root(q)
  BY RootIs
<1>2. Square(m) <= q /\ q < Square(m + 1)
  BY <1>1, RootIs
<1>3. PICK h \in Nat : h = HalfChord(q)
  BY ChordIs
<1>4. h = 16 * m + IF Square(m) = q THEN 0 ELSE 8
  BY <1>1, <1>3 DEF HalfChord, Quarter
<1>5. PICK a \in Nat : (a = u \/ a = -u) /\ Square(a) = Square(u)
  <2>1. CASE u >= 0
    BY <2>1
  <2>2. CASE u < 0
    <3>1. -u \in Nat /\ Square(-u) = Square(u)
      BY <2>2 DEF Square
    <3> QED
      BY <3>1
  <2> QED
    BY <2>1, <2>2
<1>6. /\ a <= m => Square(a) <= Square(m)
      /\ a >= m => Square(m) <= Square(a)
      /\ a >= m + 1 => Square(m + 1) <= Square(a)
      /\ a < m => Square(a) < Square(m)
  <2>1. ASSUME a < m PROVE Square(a) < Square(m)
    <3>1. Square(a + 1) <= Square(m)
      BY <2>1, SquareGrows
    <3>2. Square(a + 1) = Square(a) + 2 * a + 1 /\ Square(a) \in Nat /\ Square(m) \in Nat
      BY DEF Square
    <3> QED
      BY <3>1, <3>2
  <2> QED
    BY <2>1, SquareGrows
<1>7. Square(a) \in Nat /\ Square(m) \in Nat /\ Square(m + 1) \in Nat
  BY DEF Square
<1>8. (Square(a) < q <=> 16 * a < h) /\ (Square(a) = q <=> 16 * a = h)
  <2>1. CASE Square(m) = q
    <3>1. h = 16 * m
      BY <1>4, <2>1
    <3>2. CASE a < m
      BY <1>6, <1>7, <2>1, <3>1, <3>2
    <3>3. CASE a = m
      BY <1>7, <2>1, <3>1, <3>3
    <3>4. CASE a >= m + 1
      <4>1. Square(a) >= Square(m + 1)
        BY <1>6, <3>4
      <4>2. Square(a) > q /\ 16 * a > h
        BY <1>2, <1>7, <3>1, <3>4, <4>1
      <4> QED
        BY <1>7, <3>1, <4>2
    <3> QED
      BY <3>2, <3>3, <3>4
  <2>2. CASE Square(m) # q
    <3>1. h = 16 * m + 8
      BY <1>4, <2>2
    <3>2. CASE a <= m
      <4>1. Square(a) < q
        BY <1>2, <1>6, <1>7, <2>2, <3>2
      <4> QED
        BY <1>7, <3>1, <3>2, <4>1
    <3>3. CASE a >= m + 1
      <4>1. Square(a) > q
        BY <1>2, <1>6, <1>7, <3>3
      <4> QED
        BY <1>7, <3>1, <3>3, <4>1
    <3> QED
      BY <3>2, <3>3
  <2> QED
    BY <2>1, <2>2
<1>9. /\ Square(u) < q <=> -h < 16 * u /\ 16 * u < h
      /\ Square(u) = q <=> 16 * u = h \/ 16 * u = -h
  <2>1. CASE a = u
    BY <1>8, <2>1
  <2>2. CASE a = -u
    <3>1. Square(u) = Square(a)
      BY <1>5
    <3> QED
      BY <1>8, <2>2, <3>1
  <2> QED
    BY <1>5, <2>1, <2>2
<1> QED
  BY <1>3, <1>9

(* The square of the distance along the ray, of those across it. *)
LEMMA SphereOnRay ==
  ASSUME cfg \in Configs, NEW s, IsSphere(s), NEW pt \in Points, NEW d \in Dirs,
         NEW r, r = RayOf(d, pt), NEW u, u = (4 * pt[d]) - s.c[d],
         NEW q, q = Discriminant(s, d, Origin(d, r))
  PROVE  /\ u \in Int /\ q \in Int /\ s.c[d] \in Int
         /\ InsideOf(s, pt) <=> Square(u) < q
         /\ SurfaceOf(s, pt) <=> Square(u) = q
<1>1. pt \in [Dirs -> Nat] /\ \A e \in Dirs \ {d} : Origin(d, r)[e] = pt[e]
  BY PointOnRay
<1>2. s.c \in [Dirs -> Int] /\ s.r2 \in Int /\ s.kind = "sphere"
  BY DEF IsSphere
<1> DEFINE sq(e) == Square(4 * pt[e] - s.c[e])
<1>3. \A e \in Dirs : sq(e) \in Int
  BY <1>1, <1>2 DEF Square
<1>4. q = s.r2 - sq(Slow(d)) - sq(Fast(d))
  BY <1>1, Across DEF Discriminant
<1>5. sq(d) = Square(u)
  OBVIOUS
<1>6. /\ InsideOf(s, pt) <=> sq(0) + sq(1) + sq(2) < s.r2
      /\ SurfaceOf(s, pt) <=> sq(0) + sq(1) + sq(2) = s.r2
  BY <1>2 DEF InsideOf, SurfaceOf
<1>7. u \in Int /\ s.c[d] \in Int
  BY <1>1, <1>2
<1> HIDE DEF sq
<1>8. sq(0) + sq(1) + sq(2) = sq(Slow(d)) + sq(Fast(d)) + sq(d)
  BY <1>3 DEF Slow, Fast, Dirs
<1>9. PICK x \in Int, y \in Int, z \in Int : x = sq(Slow(d)) /\ y = sq(Fast(d)) /\ z = sq(d)
  BY <1>3, Across
<1>10. q = (s.r2 - x) - y /\ q \in Int
  BY <1>2, <1>4, <1>9
<1>11. sq(0) + sq(1) + sq(2) = x + y + z
  BY <1>8, <1>9
<1>12. (x + y + z < s.r2 <=> z < q) /\ (x + y + z = s.r2 <=> z = q)
  BY <1>2, <1>10
<1> QED
  BY <1>5, <1>6, <1>7, <1>9, <1>10, <1>11, <1>12

(* A grid point of a ray is inside a shape when it is strictly within its  *)
(* chord, and on the surface at the ends of the chord.                     *)
LEMMA ShapeOnRay ==
  ASSUME cfg \in Configs, Regular, Apart, NEW d \in Active, NEW pt \in Points,
         NEW r, r = RayOf(d, pt), NEW i \in DOMAIN cfg.shapes,
         NEW y, y = 64 * pt[d], NEW e, e = Enter(i, d, r), NEW l, l = Leave(i, d, r)
  PROVE  /\ InsideOf(cfg.shapes[i], pt) <=> (Cuts(i, d, r) /\ e < y /\ y < l)
         /\ Cuts(i, d, r) /\ (y = e \/ y = l) => SurfaceOf(cfg.shapes[i], pt)
<1>0. d \in Dirs
  BY DEF Active
<1>1. PICK s : s = cfg.shapes[i]
  OBVIOUS
<1>2. /\ pt \in [Dirs -> Nat] /\ r \in 0 .. Rays(d) - 1 /\ pt[d] \in 0 .. n[d] - 1
      /\ \A x \in Dirs \ {d} : Origin(d, r)[x] = pt[x]
  BY <1>0, PointOnRay
<1>3. n[d] \in Nat \ {0}
  BY <1>0, ConfigFacts
<1>4. CASE IsSphere(s)
  <2>1. PICK u, q, c : u = (4 * pt[d]) - s.c[d] /\ q = Discriminant(s, d, Origin(d, r)) /\ c = s.c[d]
    OBVIOUS
  <2>2. /\ u \in Int /\ q \in Int /\ c \in Int
        /\ InsideOf(s, pt) <=> Square(u) < q
        /\ SurfaceOf(s, pt) <=> Square(u) = q
    BY <1>0, <1>4, <2>1, SphereOnRay
  <2>3. Cuts(i, d, r) <=> q > 0
    BY <1>1, <1>4, <2>1 DEF Cuts, IsSphere
  <2>4. e = (16 * c) - HalfChord(q) /\ l = (16 * c) + HalfChord(q)
    BY <1>1, <1>4, <2>1 DEF Enter, Leave, IsSphere
  <2>5. CASE q > 0
    <3>1. PICK h \in Nat : h = HalfChord(q)
      BY <2>2, <2>5, ChordIs
    <3>2. /\ Square(u) < q <=> -h < 16 * u /\ 16 * u < h
          /\ Square(u) = q <=> 16 * u = h \/ 16 * u = -h
      BY <2>2, <2>5, <3>1, HalfChordCuts
    <3>3. PICK p \in Nat : p = pt[d]
      BY <1>0, <1>2
    <3>4. 16 * u = y - 16 * c /\ y \in Int
      BY <2>1, <2>2, <3>3
    <3>5. (-h < 16 * u /\ 16 * u < h) <=> (e < y /\ y < l)
      BY <2>2, <2>4, <3>1, <3>4
    <3>6. (16 * u = h \/ 16 * u = -h) <=> (y = e \/ y = l)
      BY <2>2, <2>4, <3>1, <3>4
    <3> QED
      BY <1>1, <2>2, <2>3, <2>5, <3>2, <3>5, <3>6
  <2>6. CASE ~(q > 0)
    <3>1. Square(u) >= 0
      BY <2>2 DEF Square
    <3>2. ~(Square(u) < q)
      BY <2>2, <2>6, <3>1 DEF Square
    <3> QED
      BY <1>1, <2>2, <2>3, <2>6, <3>2
  <2> QED
    BY <2>5, <2>6
<1>5. CASE IsRect(s)
  <2>1. s.kind = "yz_rect" /\ s.kind # "sphere" /\ s.x \in Nat /\ s.normal \in {-1, 1}
    BY <1>5 DEF IsRect
  <2>2. PICK x \in Nat, nu \in {-1, 1} : x = s.x /\ nu = s.normal
    BY <2>1
  <2>3. /\ InsideOf(s, pt) <=> nu * (64 * pt[0] - x) < 0
        /\ SurfaceOf(s, pt) <=> 64 * pt[0] = x
    BY <2>1, <2>2 DEF InsideOf, SurfaceOf, Cell
  <2>4. Cuts(i, d, r) <=> d = 0
    BY <1>1, <2>1 DEF Cuts
  <2>5. PICK last \in Nat : last = Length(d) /\ y <= last /\ y \in Nat
    <3>1. PICK a \in Nat, b \in Nat : a = pt[d] /\ b = n[d]
      BY <1>0, <1>2, <1>3
    <3>2. a <= b - 1 /\ b >= 1
      BY <1>2, <1>3, <3>1
    <3>3. Length(d) = 64 * (b - 1) /\ y = 64 * a
      BY <3>1 DEF Length, Cell
    <3> QED
      BY <3>2, <3>3
  <2>6. CASE d = 0
    <3>1. 64 * pt[0] = y
      BY <2>6
    <3>2. CASE nu = -1
      <4>1. e = x /\ l = x + last + 64
        BY <1>1, <2>1, <2>2, <2>5, <3>2 DEF Enter, Leave, Cell
      <4>2. (-1) * (y - x) < 0 <=> x < y
        BY <2>5
      <4>3. y < l /\ y # l
        BY <2>5, <4>1
      <4> QED
        BY <1>1, <2>3, <2>4, <2>6, <3>1, <3>2, <4>1, <4>2, <4>3
    <3>3. CASE nu = 1
      <4>1. e = -64 /\ l = x
        BY <1>1, <2>1, <2>2, <2>5, <3>3 DEF Enter, Leave, Cell
      <4>2. 1 * (y - x) < 0 <=> y < x
        BY <2>5
      <4>3. e < y /\ y # e
        BY <2>5, <4>1
      <4> QED
        BY <1>1, <2>3, <2>4, <2>6, <3>1, <3>3, <4>1, <4>2, <4>3
    <3> QED
      BY <3>2, <3>3
  <2>7. CASE d # 0
    <3> SUFFICES ASSUME InsideOf(s, pt) PROVE FALSE
      BY <1>1, <2>4, <2>7
    <3>1. \E z \in DOMAIN Candidates(s, d, Origin(d, r)) : TRUE
      BY <1>1 DEF Apart
    <3>2. Candidates(s, d, Origin(d, r)) # <<>>
      BY <3>1
    <3>3. s.x = Cell * Origin(d, r)[0]
      BY <2>1, <2>7, <3>2 DEF Candidates
    <3>4. Origin(d, r)[0] = pt[0] /\ pt[0] \in Nat
      BY <1>2, <2>7 DEF Dirs
    <3>5. s.x % Cell = 0
      BY <3>3, <3>4 DEF Cell
    <3>6. SnapTol < s.x % Cell
      BY <1>1, <2>1 DEF Regular
    <3> QED
      BY <3>5, <3>6 DEF SnapTol
  <2> QED
    BY <2>6, <2>7
<1> QED
  BY <1>1, <1>4, <1>5, ShapeIs

-----------------------------------------------------------------------------
(* The pieces of a ray *)

(* A piece is closed at the j-th intersection of a ray, or at its wall. *)
Closes(d, h, j) == IF j > Len(h) THEN Left(d, h, j) # Nobody ELSE R[d][h[j]].outside

(* The piece that is closed there. *)
PieceAt(d, r, h, j) ==
  [ray |-> r, start |-> Boundary(d, Left(d, h, j), 0),
   end |-> Boundary(d, IF j > Len(h) THEN Wall ELSE h[j], n[d] - 1)]

(* The intersections, or the wall, at which the pieces of a ray are closed. *)
ClosedAt(ends, d, r, h) ==
  /\ Len(ends) \in Nat /\ DOMAIN Pieces(d, r) = 1 .. Len(ends)
  /\ \A i \in 1 .. Len(ends) : /\ ends[i] \in 1 .. Len(h) + 1 /\ Closes(d, h, ends[i])
                               /\ Pieces(d, r)[i] = PieceAt(d, r, h, ends[i])
  /\ \A a, b \in 1 .. Len(ends) : a < b => ends[a] < ends[b]
  /\ \A j \in 1 .. Len(h) + 1 : Closes(d, h, j) => \E i \in 1 .. Len(ends) : ends[i] = j

(* The pieces of a ray are closed in order. *)
LEMMA PiecesAre ==
  ASSUME MeshInv, NEW d \in Dirs, NEW r, NEW h, h = HitsOn(d, r)
  PROVE  \E ends : ClosedAt(ends, d, r, h)
<1>1. Len(h) \in Nat
  <2>1. Enumerates(h, d, r)
    BY HitsOnIs
  <2> QED
    BY <2>1 DEF Enumerates
<1> DEFINE closed(j) == IF j > Len(h) THEN Left(d, h, j) # Nobody ELSE R[d][h[j]].outside
           chosen == [j \in 1 .. Len(h) + 1 |-> IF closed(j) THEN <<j>> ELSE <<>>]
           end(j) == IF j > Len(h) THEN Wall ELSE h[j]
           K == {j \in 1 .. Len(h) + 1 : Closes(d, h, j)}
<1>2. PICK ends : ends = FlattenSeq(chosen)
  OBVIOUS
<1>3. Pieces(d, r) = [i \in DOMAIN ends |->
                        [ray |-> r, start |-> Boundary(d, Left(d, h, ends[i]), 0),
                         end |-> Boundary(d, end(ends[i]), n[d] - 1)]]
  BY <1>2 DEF Pieces
<1>4. chosen = [j \in 1 .. Len(h) + 1 |-> IF j \in K THEN <<j>> ELSE <<>>]
  BY DEF Closes
<1>5a. PICK m \in Nat : m = Len(h) + 1
  BY <1>1
<1>5. PICK f : f = chosen
  OBVIOUS
<1> HIDE DEF chosen, K
<1>6. Selects(f, m, K)
  <2>1. PICK Q : Q = K
    OBVIOUS
  <2>2. f = [j \in 1 .. m |-> IF j \in Q THEN <<j>> ELSE <<>>]
    BY <1>4, <1>5, <1>5a, <2>1
  <2> QED
    BY <2>1, <2>2, SelectsIs
<1>7. ends = FlattenSeq(f)
  BY <1>2, <1>5
<1>8. /\ ends \in Seq(1 .. m) /\ Len(ends) \in Nat /\ DOMAIN ends = 1 .. Len(ends)
      /\ \A j \in 1 .. Len(ends) : ends[j] \in 1 .. m /\ ends[j] \in K
      /\ \A a, b \in 1 .. Len(ends) : a < b => ends[a] < ends[b]
      /\ \A i \in 1 .. m : i \in K => \E j \in 1 .. Len(ends) : ends[j] = i
  BY <1>6, <1>7, SelectedAre, SMTT(20)
<1>9. ASSUME NEW i \in 1 .. Len(ends)
      PROVE  /\ ends[i] \in 1 .. Len(h) + 1 /\ Closes(d, h, ends[i])
             /\ Pieces(d, r)[i] = PieceAt(d, r, h, ends[i])
  <2>1. ends[i] \in 1 .. Len(h) + 1 /\ Closes(d, h, ends[i])
    BY <1>5a, <1>8 DEF K
  <2>2. Pieces(d, r)[i] = [ray |-> r, start |-> Boundary(d, Left(d, h, ends[i]), 0),
                           end |-> Boundary(d, end(ends[i]), n[d] - 1)]
    BY <1>3, <1>8
  <2> QED
    BY <2>1, <2>2 DEF PieceAt
<1>10. DOMAIN Pieces(d, r) = 1 .. Len(ends)
  BY <1>3, <1>8
<1>11. ASSUME NEW j \in 1 .. Len(h) + 1, Closes(d, h, j) PROVE \E i \in 1 .. Len(ends) : ends[i] = j
  <2>1. j \in K /\ j \in 1 .. m
    BY <1>5a, <1>11 DEF K
  <2> QED
    BY <1>8, <2>1
<1> QED
  BY <1>8, <1>9, <1>10, <1>11 DEF ClosedAt

(* On a ray whose chords are found, a piece is closed where the slot       *)
(* before it is fluid, it was started, and its fluid points are those of   *)
(* the slot.                                                               *)
LEMMA PieceIsSlot ==
  ASSUME FoundInv, Regular, Apart, phase # "cast", NEW d \in Active, NEW r \in 0 .. Rays(d) - 1,
         NEW h, h = HitsOn(d, r), NEW j \in 1 .. Len(h) + 1
  PROVE  /\ Closes(d, h, j) <=> ClosedSlot(Len(h), SidesOn(d, h), j)
         /\ Closes(d, h, j) => Left(d, h, j) # Nobody
         /\ Closes(d, h, j) => \A x \in 0 .. n[d] - 1 :
              x \in Fluid(PieceAt(d, r, h, j)) <=> Slot(Len(h), EndsOn(d, h), 64 * x, j)
<1>0. d \in Dirs /\ cfg \in Configs /\ MeshInv /\ R \in [Dirs -> Seq(Hits)]
  BY DEF FoundInv, MeshInv, MeshTyped, Active
<1>1. PICK len, e, out, sh, lo, hi : /\ len = Len(h) /\ e = EndsOn(d, h) /\ out = SidesOn(d, h)
                                     /\ sh = ShapesOn(d, h) /\ lo = Enters(d, r) /\ hi = Leaves(d, r)
  OBVIOUS
<1>2. /\ RayCut(len, e, out, sh, Met(d, r), lo, hi, Length(d))
      /\ \A i \in 1 .. len : R[d][h[i]].at = (e[i] \div 64) + (IF out[i] THEN 1 ELSE 0)
  BY <1>1, RayIsCut
<1>3. /\ len \in Nat /\ DOMAIN h = 1 .. len
      /\ \A i \in 1 .. len : h[i] \in 1 .. Len(R[d])
  <2>1. Enumerates(h, d, r)
    BY <1>0, HitsOnIs
  <2> QED
    BY <1>1, <2>1 DEF Enumerates
<1>4. \A i \in 1 .. len : e[i] \in Nat /\ out[i] \in BOOLEAN
  BY <1>2 DEF RayCut
<1>5. \A i \in 1 .. len : out[i] = R[d][h[i]].outside
  BY <1>1, <1>3 DEF SidesOn
<1>6. \A i \in 1 .. len : h[i] # Wall /\ h[i] # Nobody
  BY <1>3 DEF Wall, Nobody
<1>7. Closes(d, h, j) <=> ClosedSlot(len, out, j)
  <2>1. CASE j = len + 1
    <3>1. j > Len(h)
      BY <1>1, <1>3, <2>1
    <3>2. CASE len = 0
      <4>1. Left(d, h, j) = Wall
        BY <2>1, <3>2 DEF Left
      <4> QED
        BY <2>1, <3>1, <3>2, <4>1 DEF Closes, ClosedSlot, Wall, Nobody
    <3>3. CASE len # 0
      <4>1. j # 1 /\ j - 1 = len /\ len \in 1 .. len
        BY <1>3, <2>1, <3>3
      <4>2. Left(d, h, j) = IF out[len] THEN Nobody ELSE h[len]
        BY <1>5, <4>1 DEF Left
      <4>3. Left(d, h, j) # Nobody <=> ~out[len]
        BY <1>4, <1>6, <4>1, <4>2
      <4> QED
        BY <2>1, <3>1, <3>3, <4>3 DEF Closes, ClosedSlot
    <3> QED
      BY <3>2, <3>3
  <2>2. CASE j # len + 1
    <3>1. ~(j > Len(h)) /\ j \in 1 .. len
      BY <1>1, <1>3, <2>2
    <3> QED
      BY <1>5, <2>2, <3>1 DEF Closes, ClosedSlot
  <2> QED
    BY <2>1, <2>2
<1>8. ASSUME Closes(d, h, j) PROVE Left(d, h, j) # Nobody /\ (j # 1 => ~out[j - 1])
  <2>1. CASE j = 1
    BY <2>1 DEF Left, Wall, Nobody
  <2>2. CASE j # 1
    <3>1. j - 1 \in 1 .. len
      BY <1>1, <1>3, <2>2
    <3>2. ~out[j - 1]
      <4> SUFFICES ASSUME out[j - 1] PROVE FALSE
        OBVIOUS
      <4>1. CASE j = len + 1
        <5>1. len # 0 /\ j - 1 = len
          BY <1>3, <2>2, <4>1
        <5> QED
          BY <1>7, <1>8, <4>1, <5>1 DEF ClosedSlot
      <4>2. CASE j # len + 1
        <5>1. out[j]
          BY <1>7, <1>8, <4>2 DEF ClosedSlot
        <5>2. j \in 2 .. len
          BY <1>1, <1>3, <2>2, <4>2
        <5> QED
          BY <1>2, <5>1, <5>2, EntriesApart
      <4> QED
        BY <4>1, <4>2
    <3>3. Left(d, h, j) = h[j - 1]
      BY <1>5, <2>2, <3>1, <3>2 DEF Left
    <3> QED
      BY <1>6, <3>1, <3>2, <3>3
  <2> QED
    BY <2>1, <2>2
<1>9. ASSUME Closes(d, h, j), NEW x \in 0 .. n[d] - 1
      PROVE  x \in Fluid(PieceAt(d, r, h, j)) <=> Slot(len, e, 64 * x, j)
  <2>0. PICK nd \in Nat : nd = n[d] /\ x \in Nat /\ x <= nd - 1
    <3>1. n[d] \in Nat
      BY <1>0, ConfigFacts
    <3> QED
      BY <3>1
  <2> DEFINE p == PieceAt(d, r, h, j)
             first == p.start.at + IF p.start.object = Wall THEN 0 ELSE 1
             last == p.end.at - IF p.end.object = Wall THEN 0 ELSE 1
  <2>1. p.start = Boundary(d, Left(d, h, j), 0)
        /\ p.end = Boundary(d, IF j > len THEN Wall ELSE h[j], nd - 1)
    BY <1>1, <2>0 DEF PieceAt
  <2>2. Fluid(p) = first .. last
    BY DEF Fluid
  <2> HIDE DEF p
  <2>3. first \in Int /\ (first <= x <=> (j = 1 \/ e[j - 1] < 64 * x))
    <3>1. CASE j = 1
      <4>1. p.start.at = 0 /\ p.start.object = Wall
        BY <2>1, <3>1 DEF Left, Boundary
      <4> QED
        BY <2>0, <3>1, <4>1
    <3>2. CASE j # 1
      <4>1. j - 1 \in 1 .. len
        BY <1>1, <1>3, <3>2
      <4>2. PICK b \in Nat : b = e[j - 1] /\ ~out[j - 1] /\ R[d][h[j - 1]].at = b \div 64
        BY <1>2, <1>4, <1>8, <1>9, <3>2, <4>1
      <4>3. Left(d, h, j) = h[j - 1]
        BY <1>5, <3>2, <4>1, <4>2 DEF Left
      <4>4. p.start.at = b \div 64 /\ p.start.object # Wall
        BY <1>6, <2>1, <4>1, <4>2, <4>3 DEF Boundary
      <4>5. first = (b \div 64) + 1
        BY <4>4
      <4>6. (b \div 64) + 1 <= x <=> b < 64 * x
        BY <2>0
      <4> QED
        BY <3>2, <4>2, <4>5, <4>6
    <3> QED
      BY <3>1, <3>2
  <2>4. last \in Int /\ (x <= last <=> (j = len + 1 \/ 64 * x <= e[j]))
    <3>1. CASE j = len + 1
      <4>1. j > len
        BY <1>3, <3>1
      <4>2. p.end.at = nd - 1 /\ p.end.object = Wall
        BY <2>1, <4>1 DEF Boundary
      <4> QED
        BY <2>0, <3>1, <4>2
    <3>2. CASE j # len + 1
      <4>1. j \in 1 .. len /\ ~(j > len)
        BY <1>1, <1>3, <3>2
      <4>2. out[j]
        BY <1>7, <1>9, <3>2 DEF ClosedSlot
      <4>3. PICK b \in Nat : b = e[j] /\ R[d][h[j]].at = (b \div 64) + 1
        BY <1>2, <1>4, <4>1, <4>2
      <4>4. p.end.at = (b \div 64) + 1 /\ p.end.object # Wall
        BY <1>6, <2>1, <4>1, <4>3 DEF Boundary
      <4>5. last = b \div 64
        BY <4>4
      <4>6. x <= b \div 64 <=> 64 * x <= b
        BY <2>0
      <4> QED
        BY <3>2, <4>3, <4>5, <4>6
    <3> QED
      BY <3>1, <3>2
  <2> HIDE DEF first, last
  <2>5. x \in Fluid(p) <=> first <= x /\ x <= last
    BY <2>0, <2>2, <2>3, <2>4
  <2>6. j \in 1 .. len + 1
    BY <1>1
  <2>7. Slot(len, e, 64 * x, j) <=> (j = 1 \/ e[j - 1] < 64 * x) /\ (j = len + 1 \/ 64 * x <= e[j])
    BY <2>6 DEF Slot
  <2> QED
    BY <2>3, <2>4, <2>5, <2>7 DEF p
<1> QED
  BY <1>1, <1>7, <1>8, <1>9

-----------------------------------------------------------------------------
(* The pieces of a direction *)

(* The pieces of the rays of a direction, ray by ray. *)
PiecesOf(d) == [x \in 1 .. Rays(d) |-> Pieces(d, x - 1)]

(* The lines of an active direction are these, joined. *)
LEMMA LinesPlaced ==
  ASSUME MeshInv, NEW d \in Active
  PROVE  /\ PiecesOf(d) \in Seq(Seq(Pieced(d)))
         /\ Len(PiecesOf(d)) = Rays(d) /\ Rays(d) \in Nat
         /\ LinesOf(d) \in Seq(Pieced(d))
         /\ \E off : PlacedAt(off, PiecesOf(d), LinesOf(d))
<1>1. d \in Dirs /\ cfg \in Configs /\ n[d] # 1
  <2>1. d \in Dirs /\ cfg \in Configs /\ n[d] > 1
    BY DEF Active, MeshInv, MeshTyped
  <2> QED
    BY <2>1, ConfigFacts
<1>2. Rays(d) \in Nat
  BY <1>1, ConfigFacts, Across DEF Rays
<1>3. \A x \in 1 .. Rays(d) : Pieces(d, x - 1) \in Seq(Pieced(d))
  BY <1>1, <1>2, PiecesTyped
<1>4. PICK T, q : T = Seq(Pieced(d)) /\ q = PiecesOf(d)
  OBVIOUS
<1>5. q \in Seq(T) /\ Len(q) = Rays(d)
  <2>1. q \in [1 .. Rays(d) -> T]
    BY <1>3, <1>4 DEF PiecesOf
  <2> QED
    BY <1>2, <2>1
<1>6. q \in Seq(Seq(Pieced(d)))
  BY <1>4, <1>5
<1>7. LinesOf(d) = FlattenSeq(q)
  BY <1>1, <1>4 DEF LinesOf, PiecesOf
<1>8. \E off : PlacedAt(off, q, FlattenSeq(q))
  BY <1>6, FlattenSplit
<1>9. FlattenSeq(q) \in Seq(Pieced(d))
  BY <1>6, FlattenTyped
<1> QED
  BY <1>2, <1>4, <1>5, <1>6, <1>7, <1>8, <1>9

(* The line at a place is a piece of its ray. *)
LEMMA LineAt ==
  ASSUME MeshInv, NEW d \in Active, NEW off, PlacedAt(off, PiecesOf(d), LinesOf(d)),
         NEW r \in 0 .. Rays(d) - 1, NEW h, h = HitsOn(d, r), NEW ends, ClosedAt(ends, d, r, h)
  PROVE  /\ \A j \in 1 .. Len(ends) : /\ off[r + 1] + j \in 1 .. Len(LinesOf(d))
                                      /\ LinesOf(d)[off[r + 1] + j] = PieceAt(d, r, h, ends[j])
         /\ \A i \in 1 .. Len(LinesOf(d)) : LinesOf(d)[i].ray = r =>
              \E j \in 1 .. Len(ends) : i = off[r + 1] + j
         /\ off[r + 1] \in Nat /\ Len(PiecesOf(d)[r + 1]) = Len(ends)
<1>0. d \in Dirs /\ Rays(d) \in Nat /\ r \in Nat
  BY LinesPlaced DEF Active
<1>1. PICK ss, q : ss = PiecesOf(d) /\ q = LinesOf(d) /\ PlacedAt(off, ss, q)
  OBVIOUS
<1>2. /\ Len(ss) = Rays(d) /\ \A x \in 1 .. Rays(d) : ss[x] = Pieces(d, x - 1)
      /\ ss \in Seq(Seq(Pieced(d)))
  BY <1>1, LinesPlaced DEF PiecesOf
<1>3. r + 1 \in 1 .. Len(ss) /\ (r + 1) - 1 = r
  BY <1>0, <1>2
<1>4. PICK p : p = Pieces(d, r)
  OBVIOUS
<1>5. ss[r + 1] = p /\ Len(p) = Len(ends)
  <2>1. ss[r + 1] = p
    BY <1>2, <1>3, <1>4
  <2>2. p \in Seq(Pieced(d)) /\ DOMAIN p = 1 .. Len(ends) /\ Len(ends) \in Nat
    BY <1>2, <1>3, <1>4, <2>1 DEF ClosedAt
  <2>3. Len(p) \in Nat /\ DOMAIN p = 1 .. Len(p)
    BY <2>2
  <2> QED
    BY <2>1, <2>2, <2>3
<1>6. ASSUME NEW j \in 1 .. Len(ends)
      PROVE  off[r + 1] + j \in 1 .. Len(q) /\ q[off[r + 1] + j] = PieceAt(d, r, h, ends[j])
  <2>1. p[j] = PieceAt(d, r, h, ends[j])
    BY <1>4 DEF ClosedAt
  <2>2. j \in 1 .. Len(ss[r + 1])
    BY <1>5
  <2>3. off[r + 1] + j \in 1 .. Len(q) /\ q[off[r + 1] + j] = ss[r + 1][j]
    BY <1>1, <1>3, <2>2 DEF PlacedAt
  <2> QED
    BY <1>5, <2>1, <2>3
<1>7. ASSUME NEW i \in 1 .. Len(q), q[i].ray = r
      PROVE  \E j \in 1 .. Len(ends) : i = off[r + 1] + j
  <2>1. PICK x \in 1 .. Len(ss), j \in Nat : j \in 1 .. Len(ss[x]) /\ i = off[x] + j
    <3>1. \E x \in 1 .. Len(ss) : \E j \in 1 .. Len(ss[x]) : i = off[x] + j
      BY <1>1 DEF PlacedAt
    <3> QED
      BY <3>1
  <2>2. q[i] = ss[x][j]
    BY <1>1, <2>1 DEF PlacedAt
  <2>3. x - 1 \in 0 .. Rays(d) - 1 /\ ss[x] = Pieces(d, x - 1)
    BY <1>0, <1>2, <2>1
  <2>4a. PICK y \in 0 .. Rays(d) - 1 : y = x - 1
    BY <2>3
  <2>4b. PICK g : g = HitsOn(d, y)
    OBVIOUS
  <2>5. PICK other : ClosedAt(other, d, y, g)
    BY <1>0, <2>4b, PiecesAre
  <2>6. PICK z : z = ss[x] /\ z = Pieces(d, y) /\ z \in Seq(Pieced(d))
    BY <1>2, <2>1, <2>3, <2>4a
  <2>7. j \in DOMAIN z
    BY <2>1, <2>6
  <2>8. z[j] = PieceAt(d, y, g, other[j])
    BY <2>5, <2>6, <2>7 DEF ClosedAt
  <2>9. z[j].ray = y
    BY <2>8 DEF PieceAt
  <2>10. x = r + 1
    BY <1>0, <1>7, <2>1, <2>2, <2>4a, <2>6, <2>9
  <2> QED
    BY <1>5, <2>1, <2>10
<1>8. off[r + 1] \in Nat
  <2>1. r + 1 \in 1 .. Len(ss) + 1 /\ off \in [1 .. Len(ss) + 1 -> Nat]
    BY <1>0, <1>1, <1>2 DEF PlacedAt
  <2> QED
    BY <2>1
<1> QED
  BY <1>1, <1>5, <1>6, <1>7, <1>8

(* A point is on the piece of its slot, if that is closed, and on no other. *)
LEMMA OnlyPiece ==
  ASSUME FoundInv, Regular, Apart, phase # "cast", NEW d \in Active, NEW pt \in Points,
         lines[d] = LinesOf(d), NEW r, r = RayOf(d, pt), NEW h, h = HitsOn(d, r),
         NEW J, Slot(Len(h), EndsOn(d, h), 64 * pt[d], J)
  PROVE  /\ Closes(d, h, J) => \E i : /\ PiecesWith(d, pt) = {i}
                                      /\ i \in 1 .. Len(lines[d])
                                      /\ lines[d][i] = PieceAt(d, r, h, J)
         /\ ~Closes(d, h, J) => PiecesWith(d, pt) = {}
<1>0. d \in Dirs /\ cfg \in Configs /\ MeshInv
  BY DEF FoundInv, MeshInv, MeshTyped, Active
<1>1. r \in 0 .. Rays(d) - 1 /\ pt[d] \in 0 .. n[d] - 1
  BY <1>0, PointOnRay
<1>2. PICK off : PlacedAt(off, PiecesOf(d), LinesOf(d))
  BY <1>0, LinesPlaced
<1>3. PICK ends : ClosedAt(ends, d, r, h)
  BY <1>0, PiecesAre
<1>4. PICK q : q = lines[d] /\ q = LinesOf(d) /\ q \in Seq(Pieced(d))
  BY <1>0, LinesPlaced
<1>5. /\ \A j \in 1 .. Len(ends) : /\ off[r + 1] + j \in 1 .. Len(q)
                                   /\ q[off[r + 1] + j] = PieceAt(d, r, h, ends[j])
      /\ \A i \in 1 .. Len(q) : q[i].ray = r => \E j \in 1 .. Len(ends) : i = off[r + 1] + j
      /\ off[r + 1] \in Nat
  <2>1. /\ \A j \in 1 .. Len(ends) : /\ off[r + 1] + j \in 1 .. Len(LinesOf(d))
                                     /\ LinesOf(d)[off[r + 1] + j] = PieceAt(d, r, h, ends[j])
        /\ \A i \in 1 .. Len(LinesOf(d)) : LinesOf(d)[i].ray = r =>
             \E j \in 1 .. Len(ends) : i = off[r + 1] + j
        /\ off[r + 1] \in Nat
    BY <1>0, <1>1, <1>2, <1>3, LineAt
  <2> QED
    BY <1>4, <2>1
<1>6. PICK w : w = PiecesWith(d, pt)
  OBVIOUS
<1>7. \A i : i \in w <=> i \in 1 .. Len(q) /\ q[i].ray = r /\ pt[d] \in Fluid(q[i])
  BY <1>4, <1>6 DEF PiecesWith
<1>8. /\ Len(ends) \in Nat
      /\ \A i \in 1 .. Len(ends) : ends[i] \in 1 .. Len(h) + 1 /\ Closes(d, h, ends[i])
      /\ \A a, b \in 1 .. Len(ends) : a < b => ends[a] < ends[b]
      /\ \A j \in 1 .. Len(h) + 1 : Closes(d, h, j) => \E i \in 1 .. Len(ends) : ends[i] = j
  BY <1>3 DEF ClosedAt
<1>9. PICK len, e : len = Len(h) /\ e = EndsOn(d, h)
  OBVIOUS
<1>10. /\ len \in Nat /\ e \in [1 .. len -> Nat] /\ 64 * pt[d] \in Int
       /\ \A a, b \in 1 .. len : a < b => e[a] < e[b]
  <2>1. PICK out, sh, lo, hi : out = SidesOn(d, h) /\ sh = ShapesOn(d, h) /\ lo = Enters(d, r) /\ hi = Leaves(d, r)
    OBVIOUS
  <2>2. RayCut(len, e, out, sh, Met(d, r), lo, hi, Length(d))
    BY <1>1, <1>9, <2>1, RayIsCut
  <2> QED
    BY <1>1, <2>2 DEF RayCut
<1>11. ASSUME NEW i \in 1 .. Len(ends)
       PROVE  /\ PieceAt(d, r, h, ends[i]).ray = r
              /\ pt[d] \in Fluid(PieceAt(d, r, h, ends[i])) <=> Slot(len, e, 64 * pt[d], ends[i])
  <2>1. PICK j \in 1 .. Len(h) + 1 : j = ends[i] /\ Closes(d, h, j)
    BY <1>8
  <2>2. pt[d] \in Fluid(PieceAt(d, r, h, j)) <=> Slot(Len(h), EndsOn(d, h), 64 * pt[d], j)
    BY <1>1, <2>1, PieceIsSlot
  <2> QED
    BY <1>9, <2>1, <2>2 DEF PieceAt
<1>12. ASSUME NEW i \in w
       PROVE  \E j \in 1 .. Len(ends) : i = off[r + 1] + j /\ ends[j] = J
  <2>1. i \in 1 .. Len(q) /\ q[i].ray = r /\ pt[d] \in Fluid(q[i])
    BY <1>7
  <2>2. PICK j \in 1 .. Len(ends) : i = off[r + 1] + j
    BY <1>5, <2>1
  <2>3. q[i] = PieceAt(d, r, h, ends[j])
    BY <1>5, <2>2
  <2>4. Slot(len, e, 64 * pt[d], ends[j])
    BY <1>11, <2>1, <2>3
  <2>5. ends[j] = J
    BY <1>9, <1>10, <2>4, SlotUnique
  <2> QED
    BY <2>2, <2>5
<1>13. ASSUME ~Closes(d, h, J) PROVE w = {}
  <2> SUFFICES ASSUME NEW i \in w PROVE FALSE
    OBVIOUS
  <2>1. PICK j \in 1 .. Len(ends) : ends[j] = J
    BY <1>12
  <2> QED
    BY <1>8, <1>13, <2>1
<1>14. ASSUME Closes(d, h, J)
       PROVE  \E i : w = {i} /\ i \in 1 .. Len(q) /\ q[i] = PieceAt(d, r, h, J)
  <2>1. J \in 1 .. Len(h) + 1
    BY DEF Slot
  <2>2. PICK j \in 1 .. Len(ends) : ends[j] = J
    BY <1>8, <1>14, <2>1
  <2>3. PICK i : i = off[r + 1] + j
    OBVIOUS
  <2>4. i \in 1 .. Len(q) /\ q[i] = PieceAt(d, r, h, J)
    BY <1>5, <2>2, <2>3
  <2>5. i \in w
    BY <1>7, <1>9, <1>11, <2>2, <2>4
  <2>6. ASSUME NEW x \in w PROVE x = i
    <3>1. PICK y \in 1 .. Len(ends) : x = off[r + 1] + y /\ ends[y] = J
      BY <1>12
    <3>2. ~(y < j) /\ ~(j < y)
      <4>1. J \in Int
        BY <2>1
      <4> QED
        BY <1>8, <2>2, <3>1, <4>1
    <3>3. y = j
      BY <3>2
    <3> QED
      BY <2>3, <3>1, <3>3
  <2>7. w = {i}
    BY <2>5, <2>6
  <2> QED
    BY <2>4, <2>7
<1> QED
  BY <1>4, <1>6, <1>13, <1>14

(* On a line through a point that is on no surface, a fluid slot is one    *)
(* that is in no shape.                                                    *)
LEMMA SlotOutside ==
  ASSUME FoundInv, Regular, Apart, phase # "cast", NEW d \in Active, NEW pt \in Points,
         NEW r, r = RayOf(d, pt), NEW h, h = HitsOn(d, r),
         NEW J, Slot(Len(h), EndsOn(d, h), 64 * pt[d], J), ~OnSurface(pt)
  PROVE  Closes(d, h, J) <=> ~Inside(pt)
<1>0. d \in Dirs /\ cfg \in Configs /\ MeshInv
  BY DEF FoundInv, MeshInv, MeshTyped, Active
<1>1. /\ r \in 0 .. Rays(d) - 1 /\ pt[d] \in 0 .. n[d] - 1 /\ n[d] \in Nat
  BY <1>0, PointOnRay, ConfigFacts
<1>2. PICK len, e, out, sh : /\ len = Len(h) /\ e = EndsOn(d, h)
                             /\ out = SidesOn(d, h) /\ sh = ShapesOn(d, h)
  OBVIOUS
<1>3. PICK lo, hi, last, I : /\ lo = Enters(d, r) /\ hi = Leaves(d, r)
                             /\ last = Length(d) /\ I = Met(d, r)
  OBVIOUS
<1>4. RayCut(len, e, out, sh, I, lo, hi, last)
  BY <1>1, <1>2, <1>3, RayIsCut
<1>5. PICK y \in 0 .. last : y = 64 * pt[d]
  BY <1>1, <1>3 DEF Length, Cell
<1>6. Slot(len, e, y, J)
  BY <1>2, <1>5
<1>7. ASSUME NEW i \in DOMAIN cfg.shapes
      PROVE  /\ InsideOf(cfg.shapes[i], pt) <=> i \in I /\ lo[i] < y /\ y < hi[i]
             /\ i \in I => y # lo[i] /\ y # hi[i]
  <2>1. PICK a, b : a = Enter(i, d, r) /\ b = Leave(i, d, r)
    OBVIOUS
  <2>2. /\ InsideOf(cfg.shapes[i], pt) <=> (Cuts(i, d, r) /\ a < y /\ y < b)
        /\ Cuts(i, d, r) /\ (y = a \/ y = b) => SurfaceOf(cfg.shapes[i], pt)
    BY <1>0, <1>5, <2>1, ShapeOnRay
  <2>3. i \in I <=> Cuts(i, d, r)
    BY <1>3 DEF Met
  <2>4. i \in I => lo[i] = a /\ hi[i] = b
    BY <1>3, <2>1 DEF Enters, Leaves
  <2>5. ~SurfaceOf(cfg.shapes[i], pt)
    BY DEF OnSurface
  <2> QED
    BY <2>2, <2>3, <2>4, <2>5
<1>8. I \subseteq DOMAIN cfg.shapes
  BY <1>3 DEF Met
<1>9. Inside(pt) <=> \E i \in I : lo[i] < y /\ y < hi[i]
  BY <1>7, <1>8 DEF Inside
<1>10. \A i \in I : y # lo[i] /\ y # hi[i]
  BY <1>7, <1>8
<1>11. ASSUME NEW i \in I, lo[i] < y, y < hi[i] PROVE len # 0
  <2>1. i \in DOMAIN cfg.shapes /\ InsideOf(cfg.shapes[i], pt)
    BY <1>7, <1>8, <1>11
  <2>2. PICK tried : tried = Candidates(cfg.shapes[i], d, Origin(d, r))
    OBVIOUS
  <2>3. PICK x \in DOMAIN tried : Within(cfg.shapes[i], tried[x].t, 0, Length(d))
    BY <2>1, <2>2 DEF Apart
  <2>4. PICK g : g = [t |-> tried[x].t, outside |-> tried[x].outside, shape |-> i]
    OBVIOUS
  <2>5. HitAt(g, d, r)
    BY <2>1, <2>2, <2>3, <2>4 DEF HitAt, Hitting, CandidateOf
  <2>6. Noted(d, r, g)
    BY <1>0, <1>1, <2>5 DEF FoundInv, Searched, Past
  <2>7. PICK c \in 1 .. Len(R[d]) : R[d][c].ray = r
    BY <2>6 DEF Noted
  <2>8. Enumerates(h, d, r)
    BY <1>0, HitsOnIs
  <2>9. \E j \in 1 .. Len(h) : h[j] = c
    BY <2>7, <2>8 DEF Enumerates
  <2> QED
    BY <1>2, <2>9
<1>12. ClosedSlot(len, out, J) <=> ~ \E i \in I : lo[i] < y /\ y < hi[i]
  BY <1>4, <1>6, <1>10, <1>11, FluidSlot
<1>13. Closes(d, h, J) <=> ClosedSlot(len, out, J)
  <2>1. J \in 1 .. Len(h) + 1
    BY DEF Slot
  <2> QED
    BY <1>1, <1>2, <2>1, PieceIsSlot
<1> QED
  BY <1>9, <1>12, <1>13

(* Every point is in a slot of its ray. *)
LEMMA PointInSlot ==
  ASSUME FoundInv, Regular, Apart, phase # "cast", NEW d \in Active, NEW pt \in Points,
         NEW r, r = RayOf(d, pt), NEW h, h = HitsOn(d, r)
  PROVE  \E J : Slot(Len(h), EndsOn(d, h), 64 * pt[d], J)
<1>0. d \in Dirs /\ cfg \in Configs
  BY DEF FoundInv, MeshInv, MeshTyped, Active
<1>1. r \in 0 .. Rays(d) - 1 /\ 64 * pt[d] \in Int
  BY <1>0, PointOnRay
<1>2. PICK len, e, out, sh : /\ len = Len(h) /\ e = EndsOn(d, h)
                             /\ out = SidesOn(d, h) /\ sh = ShapesOn(d, h)
  OBVIOUS
<1>3. PICK lo, hi : lo = Enters(d, r) /\ hi = Leaves(d, r)
  OBVIOUS
<1>4. RayCut(len, e, out, sh, Met(d, r), lo, hi, Length(d))
  BY <1>1, <1>2, <1>3, RayIsCut
<1>5. len \in Nat /\ e \in [1 .. len -> Nat]
  BY <1>4 DEF RayCut
<1> QED
  BY <1>1, <1>2, <1>5, SlotExists

(* The pieces are those of the rays once they have been made. *)
Lined == phase \in {"fluid", "done"} => \A d \in Active : lines[d] = LinesOf(d)
(* None was closed that had not been started. *)
Started == Regular /\ Apart => "left boundary" \notin failed
(* What holds of a mesh whose shapes are apart, and of its pieces. *)
PiecesInv == FoundInv /\ Lined /\ Started

(* The pieces divide the fluid. *)
LEMMA InvDivides == ASSUME PiecesInv, Regular, Apart PROVE PiecesDivideFluid
<1>0. FoundInv
  BY DEF PiecesInv
<1>1. "left boundary" \notin failed
  BY DEF PiecesInv, Started
<1>2. ASSUME phase \in {"fluid", "done"}, NEW d \in Active, NEW pt \in Points
      PROVE  LET c == Cardinality(PiecesWith(d, pt)) IN
             IF OnSurface(pt) THEN c <= 1 ELSE c = IF Inside(pt) THEN 0 ELSE 1
  <2>1. phase # "cast" /\ lines[d] = LinesOf(d)
    BY <1>2 DEF PiecesInv, Lined
  <2>2. PICK r, h : r = RayOf(d, pt) /\ h = HitsOn(d, RayOf(d, pt))
    OBVIOUS
  <2>3. PICK J : Slot(Len(h), EndsOn(d, h), 64 * pt[d], J)
    BY <1>0, <2>1, <2>2, PointInSlot
  <2>4. PICK c : c = Cardinality(PiecesWith(d, pt))
    OBVIOUS
  <2>5. Closes(d, h, J) => c = 1
    <3>1. SUFFICES ASSUME Closes(d, h, J) PROVE c = 1
      OBVIOUS
    <3>2. PICK i : PiecesWith(d, pt) = {i}
      BY <1>0, <2>1, <2>2, <2>3, <3>1, OnlyPiece
    <3> QED
      BY <2>4, <3>2, FS_Singleton
  <2>6. ~Closes(d, h, J) => c = 0
    <3>1. SUFFICES ASSUME ~Closes(d, h, J) PROVE c = 0
      OBVIOUS
    <3>2. PiecesWith(d, pt) = {}
      BY <1>0, <2>1, <2>2, <2>3, <3>1, OnlyPiece
    <3> QED
      BY <2>4, <3>2, FS_EmptySet
  <2>7. ~OnSurface(pt) => (Closes(d, h, J) <=> ~Inside(pt))
    BY <1>0, <2>1, <2>2, <2>3, SlotOutside
  <2>8. IF OnSurface(pt) THEN c <= 1 ELSE c = IF Inside(pt) THEN 0 ELSE 1
    BY <2>5, <2>6, <2>7
  <2> QED
    BY <2>4, <2>8
<1> QED
  BY <1>1, <1>2 DEF PiecesDivideFluid

(* Every line was started. *)
LEMMA LinesStarted ==
  ASSUME FoundInv, Regular, Apart, phase # "cast", NEW d \in Dirs, NEW i \in DOMAIN LinesOf(d)
  PROVE  LinesOf(d)[i].start.object # Nobody
<1>0. cfg \in Configs /\ MeshInv
  BY DEF FoundInv, MeshInv, MeshTyped
<1>1. d \in Active
  <2>1. n[d] # 1
    BY DEF LinesOf
  <2> QED
    BY <1>0, <2>1, ConfigFacts DEF Active
<1>2. PICK off : PlacedAt(off, PiecesOf(d), LinesOf(d))
  BY <1>0, <1>1, LinesPlaced
<1>3. PICK q, ss : q = LinesOf(d) /\ ss = PiecesOf(d) /\ q \in Seq(Pieced(d)) /\ ss \in Seq(Seq(Pieced(d)))
  BY <1>0, <1>1, LinesPlaced
<1>4. i \in 1 .. Len(q)
  BY <1>3
<1>5. PICK x \in 1 .. Len(ss), j \in Nat : j \in 1 .. Len(ss[x]) /\ i = off[x] + j
  <2>1. \E x \in 1 .. Len(ss) : \E j \in 1 .. Len(ss[x]) : i = off[x] + j
    BY <1>2, <1>3, <1>4 DEF PlacedAt
  <2> QED
    BY <2>1
<1>6. q[i] = ss[x][j]
  BY <1>2, <1>3, <1>5 DEF PlacedAt
<1>7. PICK r \in 0 .. Rays(d) - 1 : r = x - 1 /\ ss[x] = Pieces(d, r)
  <2>1. Len(ss) = Rays(d) /\ Rays(d) \in Nat
    BY <1>0, <1>1, <1>3, LinesPlaced
  <2>2. x - 1 \in 0 .. Rays(d) - 1 /\ x \in 1 .. Rays(d)
    BY <2>1
  <2> QED
    BY <1>3, <2>2 DEF PiecesOf
<1>8. PICK h : h = HitsOn(d, r)
  OBVIOUS
<1>9. PICK ends : ClosedAt(ends, d, r, h)
  BY <1>0, <1>8, PiecesAre
<1>10. j \in 1 .. Len(ends)
  <2>1. PICK z : z = ss[x] /\ z \in Seq(Pieced(d)) /\ z = Pieces(d, r)
    BY <1>3, <1>7
  <2>2. DOMAIN z = 1 .. Len(ends)
    BY <1>9, <2>1 DEF ClosedAt
  <2> QED
    BY <1>5, <2>1, <2>2
<1>11. PICK m \in 1 .. Len(h) + 1 : m = ends[j] /\ Closes(d, h, m) /\ q[i] = PieceAt(d, r, h, m)
  BY <1>6, <1>7, <1>9, <1>10 DEF ClosedAt
<1>12. Left(d, h, m) # Nobody
  BY <1>1, <1>8, <1>11, PieceIsSlot
<1>13. q[i].start.object = Left(d, h, m)
  BY <1>11 DEF PieceAt, Boundary
<1> QED
  BY <1>3, <1>12, <1>13

(* Nothing about pieces is changed but by making them. *)
LEMMA PiecesStart == Init => PiecesInv
  BY FoundStart DEF Init, PiecesInv, Lined, Started

(* The lines of a mesh depend on its intersections. *)
LEMMA LinesKept ==
  ASSUME cfg' = cfg, R' = R
  PROVE  /\ \A d : LinesOf(d)' = LinesOf(d)
         /\ (Active' = Active) /\ (Regular' = Regular) /\ (Apart' = Apart)
<1>1. \A d : LinesOf(d)' = LinesOf(d)
  BY SMTT(20) DEF LinesOf, Pieces, HitsOn, Left, Boundary, Rays, n
<1>2. Active' = Active
  BY DEF Active, n
<1> QED
  BY <1>1, <1>2, HitsKept, ConfigKept

(* Every step keeps what holds of the pieces. *)
LEMMA PiecesStep == ASSUME PiecesInv, [Next]_vars PROVE PiecesInv'
<1>0. FoundInv' /\ FoundInv
  BY FoundStep DEF PiecesInv
<1>1. CASE Hit \/ NextRay
  <2>1. ~(phase' \in {"fluid", "done"}) /\ failed' = failed /\ cfg' = cfg
    BY <1>1 DEF Hit, NextRay
  <2>2. (Regular' = Regular) /\ (Apart' = Apart)
    BY <2>1, HitsKept, ConfigKept
  <2> QED
    BY <1>0, <2>1, <2>2 DEF PiecesInv, Lined, Started
<1>2. CASE InitSolid
  <2>1. /\ ~(phase' \in {"fluid", "done"}) /\ cfg' = cfg
        /\ "left boundary" \in failed' => "left boundary" \in failed
    BY <1>2 DEF InitSolid
  <2>2. (Regular' = Regular) /\ (Apart' = Apart)
    BY <2>1, HitsKept, ConfigKept
  <2> QED
    BY <1>0, <2>1, <2>2 DEF PiecesInv, Lined, Started
<1>3. CASE InitLines
  <2>1. cfg' = cfg /\ R' = R /\ phase = "lines"
    BY <1>3 DEF InitLines
  <2>2. lines' = [d \in Dirs |-> LinesOf(d)]
    BY <1>3 DEF InitLines
  <2>3. \A d : LinesOf(d)' = LinesOf(d)
    BY <2>1, LinesKept
  <2>4. (Active' = Active) /\ (Regular' = Regular) /\ (Apart' = Apart)
    BY <2>1, LinesKept
  <2>5. Lined'
    BY <2>2, <2>3 DEF Lined, Active
  <2>6. ASSUME Regular, Apart PROVE "left boundary" \notin failed'
    <3>1. ~ \E d \in Dirs : \E i \in DOMAIN lines'[d] : lines'[d][i].start.object = Nobody
      BY <1>0, <2>1, <2>2, <2>6, LinesStarted
    <3> QED
      BY <1>3, <2>6, <3>1 DEF InitLines, PiecesInv, Started
  <2> QED
    BY <1>0, <2>4, <2>5, <2>6 DEF PiecesInv, Started
<1>4. CASE InitFluid \/ Built \/ UNCHANGED vars
  <2>1. /\ cfg' = cfg /\ R' = R /\ lines' = lines /\ failed' = failed
        /\ phase' \in {"fluid", "done"} => phase \in {"fluid", "done"}
    BY <1>4 DEF InitFluid, Built, vars
  <2>2. \A d : LinesOf(d)' = LinesOf(d)
    BY <2>1, LinesKept
  <2>3. (Active' = Active) /\ (Regular' = Regular) /\ (Apart' = Apart)
    BY <2>1, LinesKept
  <2> QED
    BY <1>0, <2>1, <2>2, <2>3 DEF PiecesInv, Lined, Started
<1> QED
  BY <1>1, <1>2, <1>3, <1>4 DEF Next

(* On a regular mesh whose shapes are apart, the pieces of lines made in   *)
(* each active direction divide the fluid, and none is closed without      *)
(* having been started.                                                    *)
THEOREM PiecesStayDivided == Spec => [](Regular /\ Apart => PiecesDivideFluid)
<1>1. Init => PiecesInv
  BY PiecesStart
<1>2. PiecesInv /\ [Next]_vars => PiecesInv'
  BY PiecesStep
<1>3. PiecesInv => (Regular /\ Apart => PiecesDivideFluid)
  BY InvDivides
<1> QED
  BY <1>1, <1>2, <1>3, PTL DEF Spec

-----------------------------------------------------------------------------
(* Successive ranges of numbers *)

(* Ranges a[i] .. b[i] - 1, one after the other. *)
Tiles(a, b, m) ==
  /\ m \in Nat
  /\ \A i \in 1 .. m : a[i] \in Nat /\ b[i] \in Nat /\ a[i] <= b[i]
  /\ \A i, j \in 1 .. m : i < j => b[i] <= a[j]

(* A number is in one of them. *)
Covered(a, b, m, y) == \E i \in 1 .. m : a[i] <= y /\ y < b[i]

(* The ranges that do not continue the one before. *)
Breaks(a, b, m) == {i \in 1 .. m : i = 1 \/ b[i - 1] # a[i]}

(* The numbers of a set, in order. *)
Picks(q, m, K) ==
  /\ Len(q) \in Nat /\ DOMAIN q = 1 .. Len(q)
  /\ \A j \in 1 .. Len(q) : q[j] \in 1 .. m /\ q[j] \in K
  /\ \A x, y \in 1 .. Len(q) : x < y => q[x] < q[y]
  /\ \A i \in 1 .. m : i \in K => \E j \in 1 .. Len(q) : q[j] = i

(* Ranges joined up to where one does not continue the one before. *)
Merges(lo, hi, a, b, m, q) ==
  \A j \in 1 .. Len(q) :
    /\ lo[j] = a[q[j]]
    /\ hi[j] = b[IF j = Len(q) THEN m ELSE q[j + 1] - 1]

(* They cover the same numbers. *)
LEMMA MergedTiles ==
  ASSUME NEW a, NEW b, NEW m, Tiles(a, b, m), NEW q, Picks(q, m, Breaks(a, b, m)),
         NEW lo, NEW hi, Merges(lo, hi, a, b, m, q), NEW len, len = Len(q)
  PROVE  /\ Tiles(lo, hi, len)
         /\ \A y \in Nat : Covered(lo, hi, len, y) <=> Covered(a, b, m, y)
<1>0. m \in Nat /\ len \in Nat
  BY DEF Tiles, Picks
<1> DEFINE last(j) == IF j = len THEN m ELSE q[j + 1] - 1
<1>1. \A i \in 1 .. m : a[i] \in Nat /\ b[i] \in Nat /\ a[i] <= b[i]
  BY DEF Tiles
<1>2. \A i, j \in 1 .. m : i < j => b[i] <= a[j]
  BY DEF Tiles
<1>3. \A i, j \in 1 .. m : i <= j => a[i] <= a[j] /\ b[i] <= b[j] /\ a[i] <= b[j]
  <2> SUFFICES ASSUME NEW i \in 1 .. m, NEW j \in 1 .. m, i <= j
               PROVE  a[i] <= a[j] /\ b[i] <= b[j] /\ a[i] <= b[j]
    OBVIOUS
  <2>1. PICK ai \in Nat, bi \in Nat, aj \in Nat, bj \in Nat :
          ai = a[i] /\ bi = b[i] /\ aj = a[j] /\ bj = b[j] /\ ai <= bi /\ aj <= bj
    BY <1>1
  <2>2. CASE i = j
    BY <2>1, <2>2
  <2>3. CASE i # j
    <3>1. bi <= aj
      BY <1>2, <2>1, <2>3
    <3> QED
      BY <2>1, <3>1
  <2> QED
    BY <2>2, <2>3
<1>4. \A x \in 1 .. len : q[x] \in 1 .. m
  BY DEF Picks
<1>5. \A x, y \in 1 .. len : x < y => q[x] < q[y]
  BY DEF Picks
<1>6. ASSUME NEW j \in 1 .. len
      PROVE  last(j) \in 1 .. m /\ q[j] <= last(j) /\ lo[j] = a[q[j]] /\ hi[j] = b[last(j)]
  <2>1. q[j] \in 1 .. m
    BY <1>4
  <2>2. j # len => j + 1 \in 1 .. len /\ q[j + 1] \in 1 .. m /\ q[j] < q[j + 1]
    BY <1>0, <1>4, <1>5
  <2>3. last(j) \in 1 .. m /\ q[j] <= last(j)
    BY <1>0, <2>1, <2>2
  <2> QED
    BY <2>3 DEF Merges
<1>7. \A j \in 1 .. len : lo[j] \in Nat /\ hi[j] \in Nat /\ lo[j] <= hi[j]
  BY <1>1, <1>3, <1>4, <1>6
<1>8. ASSUME NEW j \in 1 .. len, NEW c \in 1 .. len, j < c PROVE hi[j] <= lo[c]
  <2>1. j + 1 \in 1 .. len /\ j # len
    BY <1>0, <1>8
  <2>2. q[j + 1] <= q[c]
    BY <1>4, <1>5, <1>8, <2>1
  <2>3. last(j) < q[c]
    BY <1>4, <2>1, <2>2
  <2>4. hi[j] = b[last(j)] /\ lo[c] = a[q[c]] /\ last(j) \in 1 .. m /\ q[c] \in 1 .. m
    BY <1>4, <1>6
  <2> QED
    BY <1>2, <2>3, <2>4
<1>9. Tiles(lo, hi, len)
  BY <1>0, <1>7, <1>8 DEF Tiles
<1>10. ASSUME NEW y \in Nat, NEW i \in 1 .. m, a[i] <= y, y < b[i]
       PROVE  \E j \in 1 .. len : lo[j] <= y /\ y < hi[j]
  <2> DEFINE T == {x \in 1 .. len + 1 : x = len + 1 \/ i < q[x]}
  <2>1. T \subseteq Nat /\ len + 1 \in T
    BY <1>0
  <2>2. PICK c \in T : \A x \in T : c <= x
    <3> HIDE DEF T
    <3> QED
      BY <2>1, LeastNat
  <2>3. c \in 1 .. len + 1 /\ (c = len + 1 \/ i < q[c])
    OBVIOUS
  <2>4. c # 1
    <3>1. 1 \in 1 .. m /\ 1 \in Breaks(a, b, m)
      BY <1>0 DEF Breaks
    <3>2. PICK x \in 1 .. len : q[x] = 1
      BY <3>1 DEF Picks
    <3>3. 1 \in 1 .. len /\ q[1] <= 1
      BY <1>0, <1>4, <1>5, <3>2
    <3> QED
      BY <1>0, <1>4, <2>3, <3>3
  <2>5. PICK j \in 1 .. len : j = c - 1
    BY <1>0, <2>3, <2>4
  <2>6. ~(j \in T)
    BY <2>2, <2>3, <2>5
  <2>7. q[j] <= i
    BY <1>0, <1>4, <2>5, <2>6
  <2>8. i <= last(j)
    <3>1. CASE j = len
      BY <3>1
    <3>2. CASE j # len
      <4>1. c = j + 1 /\ c \in 1 .. len /\ i < q[c] /\ q[c] \in 1 .. m
        BY <1>0, <1>4, <2>3, <2>5, <3>2
      <4> QED
        BY <3>2, <4>1
    <3> QED
      BY <3>1, <3>2
  <2>9. lo[j] = a[q[j]] /\ hi[j] = b[last(j)] /\ last(j) \in 1 .. m /\ q[j] \in 1 .. m
    BY <1>4, <1>6
  <2>10. a[q[j]] <= a[i] /\ b[i] <= b[last(j)]
    BY <1>3, <2>7, <2>8, <2>9
  <2>11. lo[j] \in Nat /\ hi[j] \in Nat /\ a[i] \in Nat /\ b[i] \in Nat
    BY <1>1, <1>7
  <2> QED
    BY <1>10, <2>9, <2>10, <2>11
<1>11. ASSUME NEW y \in Nat, NEW j \in 1 .. len, lo[j] <= y, y < hi[j]
       PROVE  \E i \in 1 .. m : a[i] <= y /\ y < b[i]
  <2>1. PICK s \in 1 .. m, t \in 1 .. m : s = q[j] /\ t = last(j) /\ s <= t
    BY <1>4, <1>6
  <2>2. a[s] <= y /\ y < b[t]
    BY <1>6, <1>11, <2>1
  <2> DEFINE T == {x \in 1 .. m : s <= x /\ y < b[x]}
  <2>3. T \subseteq Nat /\ t \in T
    BY <2>1, <2>2
  <2>4. PICK i \in T : \A x \in T : i <= x
    <3> HIDE DEF T
    <3> QED
      BY <2>3, LeastNat
  <2>5. i \in 1 .. m /\ s <= i /\ y < b[i] /\ i <= t
    BY <2>3, <2>4
  <2>6. CASE i = s
    BY <2>2, <2>5, <2>6
  <2>7. CASE i # s
    <3>1. i - 1 \in 1 .. m /\ s <= i - 1 /\ ~(i - 1 \in T)
      BY <2>1, <2>4, <2>5, <2>7
    <3>2. b[i - 1] <= y
      BY <1>1, <3>1
    <3>3. ~(i \in Breaks(a, b, m))
      <4> SUFFICES ASSUME i \in Breaks(a, b, m) PROVE FALSE
        OBVIOUS
      <4>1. PICK x \in 1 .. len : q[x] = i
        BY <2>5 DEF Picks
      <4>2. x > j
        BY <1>4, <1>5, <2>1, <2>5, <2>7, <4>1
      <4>3. j # len /\ j + 1 \in 1 .. len /\ q[j + 1] <= q[x]
        BY <1>0, <1>4, <1>5, <4>2
      <4>4. t = q[j + 1] - 1
        BY <2>1, <4>3
      <4> QED
        BY <1>4, <2>5, <4>1, <4>3, <4>4
    <3>4. b[i - 1] = a[i]
      BY <2>5, <3>3 DEF Breaks
    <3> QED
      BY <2>5, <3>2, <3>4
  <2> QED
    BY <2>6, <2>7
<1>12. \A y \in Nat : Covered(lo, hi, len, y) <=> Covered(a, b, m, y)
  BY <1>10, <1>11 DEF Covered
<1> QED
  BY <1>9, <1>12

(* The ranges as pairs. *)
Pairs(slices, lo, hi, len) ==
  /\ len \in Nat /\ DOMAIN slices = 1 .. len
  /\ \A j \in 1 .. len : slices[j][1] = lo[j] /\ slices[j][2] = hi[j]

(* Gathered, they are the numbers that they cover, in increasing order. *)
LEMMA GatherTiles ==
  ASSUME NEW lo, NEW hi, NEW len, Tiles(lo, hi, len), NEW slices, Pairs(slices, lo, hi, len),
         NEW q, q = Gather(slices)
  PROVE  /\ q \in Seq(Nat)
         /\ \A i \in 2 .. Len(q) : q[i - 1] < q[i]
         /\ \A y \in Nat : (\E i \in 1 .. Len(q) : q[i] = y) <=> Covered(lo, hi, len, y)
<1>0. len \in Nat /\ DOMAIN slices = 1 .. len
  BY DEF Pairs
<1>1. \A i \in 1 .. len : lo[i] \in Nat /\ hi[i] \in Nat /\ lo[i] <= hi[i]
  BY DEF Tiles
<1>2. \A i, j \in 1 .. len : i < j => hi[i] <= lo[j]
  BY DEF Tiles
<1> DEFINE range(i) == [j \in 1 .. slices[i][2] - slices[i][1] |-> slices[i][1] + j - 1]
<1>3. PICK ss : ss = [i \in 1 .. len |-> range(i)]
  OBVIOUS
<1>4. ASSUME NEW i \in 1 .. len
      PROVE  /\ ss[i] \in Seq(Nat) /\ Len(ss[i]) = hi[i] - lo[i]
             /\ \A j \in 1 .. Len(ss[i]) : ss[i][j] = lo[i] + (j - 1)
  <2>1. PICK u \in Nat, v \in Nat : u = lo[i] /\ v = hi[i] /\ u <= v
    BY <1>1
  <2>2. ss[i] = [j \in 1 .. v - u |-> u + j - 1]
    BY <1>3, <2>1 DEF Pairs
  <2>3. PICK z : z = ss[i] /\ z = [j \in 1 .. v - u |-> u + j - 1]
    BY <2>2
  <2>4. z \in [1 .. v - u -> Nat] /\ v - u \in Nat
    BY <2>1, <2>3
  <2>5. z \in Seq(Nat) /\ Len(z) = v - u
    BY <2>4
  <2>6. \A j \in 1 .. v - u : z[j] = u + (j - 1)
    BY <2>1, <2>3
  <2> QED
    BY <2>1, <2>3, <2>5, <2>6
<1>5. ss \in Seq(Seq(Nat)) /\ Len(ss) = len
  <2>1. ss \in [1 .. len -> Seq(Nat)]
    BY <1>3, <1>4
  <2> QED
    BY <1>0, <2>1
<1>6. q = FlattenSeq(ss)
  BY <1>0, <1>3 DEF Gather
<1> HIDE DEF range
<1>7. q \in Seq(Nat)
  BY <1>5, <1>6, FlattenTyped
<1>8. PICK off : PlacedAt(off, ss, q)
  BY <1>5, <1>6, FlattenSplit
<1>9. ASSUME NEW i \in 1 .. Len(q)
      PROVE  \E x \in 1 .. len : \E j \in 1 .. Len(ss[x]) : i = off[x] + j /\ q[i] = lo[x] + (j - 1)
  <2>1. PICK x \in 1 .. len, j \in Nat : j \in 1 .. Len(ss[x]) /\ i = off[x] + j
    <3>1. \E x \in 1 .. len : \E j \in 1 .. Len(ss[x]) : i = off[x] + j
      BY <1>5, <1>8 DEF PlacedAt
    <3>2. \A x \in 1 .. len : Len(ss[x]) \in Nat
      BY <1>4
    <3> QED
      BY <3>1, <3>2
  <2>2. q[i] = ss[x][j]
    BY <1>5, <1>8, <2>1 DEF PlacedAt
  <2>3. ss[x][j] = lo[x] + (j - 1)
    BY <1>4, <2>1
  <2> QED
    BY <2>1, <2>2, <2>3
<1>10. ASSUME NEW i \in 1 .. Len(q), NEW c \in 1 .. Len(q), i < c PROVE q[i] < q[c]
  <2>1. PICK x \in 1 .. len, j \in Nat : j \in 1 .. Len(ss[x]) /\ i = off[x] + j /\ q[i] = lo[x] + (j - 1)
    <3>1. Len(q) \in Nat /\ \A z \in 1 .. len : Len(ss[z]) \in Nat
      BY <1>4, <1>7
    <3> QED
      BY <1>9, <3>1, SMTT(20)
  <2>2. PICK y \in 1 .. len, l \in Nat : l \in 1 .. Len(ss[y]) /\ c = off[y] + l /\ q[c] = lo[y] + (l - 1)
    <3>1. Len(q) \in Nat /\ \A z \in 1 .. len : Len(ss[z]) \in Nat
      BY <1>4, <1>7
    <3> QED
      BY <1>9, <3>1
  <2>3. off[x] \in Nat /\ off[y] \in Nat
    <3>1. off \in [1 .. Len(ss) + 1 -> Nat]
      BY <1>8 DEF PlacedAt
    <3>2. x \in 1 .. Len(ss) + 1 /\ y \in 1 .. Len(ss) + 1
      BY <1>0, <1>5
    <3> QED
      BY <3>1, <3>2
  <2>4. PICK u \in Nat, v \in Nat, w \in Nat, z \in Nat :
          /\ u = lo[x] /\ v = hi[x] /\ w = lo[y] /\ z = hi[y]
          /\ Len(ss[x]) = v - u /\ Len(ss[y]) = z - w /\ u <= v /\ w <= z
    BY <1>1, <1>4
  <2>4a. /\ j \in 1 .. v - u /\ l \in 1 .. z - w
         /\ q[i] = u + (j - 1) /\ q[c] = w + (l - 1)
    BY <2>1, <2>2, <2>4
  <2>5. ~(y < x)
    <3> SUFFICES ASSUME y < x PROVE FALSE
      OBVIOUS
    <3>1. off[y] + Len(ss[y]) <= off[x]
      BY <1>5, <1>8, PlacesOrder
    <3> QED
      BY <1>10, <2>1, <2>2, <2>3, <2>4, <3>1, SMTT(20)
  <2>6. CASE x < y
    <3>1. v <= w
      BY <1>2, <2>4, <2>6
    <3> QED
      BY <2>4a, <3>1
  <2>7. CASE x = y
    <3>1. PICK o \in Nat : o = off[x] /\ o = off[y]
      BY <2>3, <2>7
    <3>2. i = o + j /\ c = o + l
      BY <2>1, <2>2, <3>1
    <3>3. j < l
      BY <1>10, <3>1, <3>2
    <3>4. u = w
      BY <2>4, <2>7
    <3> QED
      BY <2>4a, <3>3, <3>4
  <2> QED
    BY <2>5, <2>6, <2>7
<1>11. \A i \in 2 .. Len(q) : q[i - 1] < q[i]
  <2>1. Len(q) \in Nat
    BY <1>7
  <2>2. \A i \in 2 .. Len(q) : i - 1 \in 1 .. Len(q) /\ i \in 1 .. Len(q) /\ i - 1 < i
    BY <2>1
  <2> QED
    BY <1>10, <2>2
<1>12. ASSUME NEW y \in Nat, NEW i \in 1 .. Len(q), q[i] = y PROVE Covered(lo, hi, len, y)
  <2>1. PICK x \in 1 .. len : \E j \in 1 .. Len(ss[x]) : q[i] = lo[x] + (j - 1)
    BY <1>9
  <2>2. PICK u \in Nat, v \in Nat : u = lo[x] /\ v = hi[x] /\ u <= v /\ Len(ss[x]) = v - u
    BY <1>1, <1>4
  <2>3. PICK j \in 1 .. v - u : y = u + (j - 1)
    BY <1>12, <2>1, <2>2
  <2>4. u <= y /\ y < v
    BY <2>3
  <2> QED
    BY <2>2, <2>4 DEF Covered
<1>13. ASSUME NEW y \in Nat, Covered(lo, hi, len, y) PROVE \E i \in 1 .. Len(q) : q[i] = y
  <2>1. PICK x \in 1 .. len : lo[x] <= y /\ y < hi[x]
    BY <1>13 DEF Covered
  <2>2. PICK u \in Nat, v \in Nat : u = lo[x] /\ v = hi[x] /\ u <= v /\ Len(ss[x]) = v - u
    BY <1>1, <1>4
  <2>3. PICK j \in 1 .. v - u : y = u + (j - 1)
    <3>1. (y - u) + 1 \in 1 .. v - u /\ y = u + (((y - u) + 1) - 1)
      BY <2>1, <2>2
    <3> QED
      BY <3>1
  <2>4. j \in 1 .. Len(ss[x]) /\ ss[x][j] = y
    BY <1>4, <2>2, <2>3
  <2>5. off[x] + j \in 1 .. Len(q) /\ q[off[x] + j] = ss[x][j]
    BY <1>5, <1>8, <2>4 DEF PlacedAt
  <2> QED
    BY <2>4, <2>5
<1> QED
  BY <1>7, <1>11, <1>12, <1>13

-----------------------------------------------------------------------------
(* The fluid selection *)

(* The first point of slot j of a ray, and the first beyond it. *)
SlotFrom(e, j) == IF j = 1 THEN 0 ELSE (e[j - 1] \div 64) + 1
(* See SlotFrom. *)
SlotTo(e, len, j, last) == IF j = len + 1 THEN last ELSE (e[j] \div 64) + 1

(* The points of a slot. *)
LEMMA SlotRange ==
  ASSUME NEW len \in Nat, NEW e \in [1 .. len -> Nat], NEW j \in 1 .. len + 1,
         NEW m \in Nat, NEW x \in 0 .. m - 1
  PROVE  Slot(len, e, 64 * x, j) <=> SlotFrom(e, j) <= x /\ x < SlotTo(e, len, j, m)
<1>1. (j = 1 \/ e[j - 1] < 64 * x) <=> SlotFrom(e, j) <= x
  <2>1. CASE j = 1
    BY <2>1 DEF SlotFrom
  <2>2. CASE j # 1
    <3>1. PICK b \in Nat : b = e[j - 1]
      <4>1. j - 1 \in 1 .. len
        BY <2>2
      <4> QED
        BY <4>1
    <3>2. b < 64 * x <=> (b \div 64) + 1 <= x
      OBVIOUS
    <3> QED
      BY <2>2, <3>1, <3>2 DEF SlotFrom
  <2> QED
    BY <2>1, <2>2
<1>2. (j = len + 1 \/ 64 * x <= e[j]) <=> x < SlotTo(e, len, j, m)
  <2>1. CASE j = len + 1
    BY <2>1 DEF SlotTo
  <2>2. CASE j # len + 1
    <3>1. PICK b \in Nat : b = e[j]
      BY <2>2
    <3>2. 64 * x <= b <=> x < (b \div 64) + 1
      OBVIOUS
    <3> QED
      BY <2>2, <3>1, <3>2 DEF SlotTo
  <2> QED
    BY <2>1, <2>2
<1> QED
  BY <1>1, <1>2 DEF Slot

(* Slots are within the ray, one after the other. *)
LEMMA SlotBounds ==
  ASSUME NEW len, NEW e, NEW out, NEW sh, NEW I, NEW lo, NEW hi, NEW m \in Nat \ {0},
         RayCut(len, e, out, sh, I, lo, hi, 64 * (m - 1)),
         NEW j \in 1 .. len + 1
  PROVE  /\ SlotFrom(e, j) \in Nat /\ SlotTo(e, len, j, m) \in Nat
         /\ SlotFrom(e, j) <= SlotTo(e, len, j, m) /\ SlotTo(e, len, j, m) <= m
         /\ \A i \in 1 .. len + 1 : i < j => SlotTo(e, len, i, m) <= SlotFrom(e, j)
<1>0. len \in Nat
  BY DEF RayCut
<1>1. ASSUME NEW i \in 1 .. len PROVE e[i] \in Nat /\ e[i] \div 64 \in Nat /\ (e[i] \div 64) + 1 <= m
  <2>1. PICK b \in Nat : b = e[i] /\ b <= 64 * (m - 1)
    BY DEF RayCut
  <2>2. b \div 64 \in Nat /\ (b \div 64) + 1 <= m
    BY <2>1
  <2> QED
    BY <2>1, <2>2
<1>2. ASSUME NEW i \in 1 .. len, NEW c \in 1 .. len, i <= c PROVE e[i] \div 64 <= e[c] \div 64
  <2>1. PICK b \in Nat, z \in Nat : b = e[i] /\ z = e[c]
    BY <1>1
  <2>2. b <= z
    <3>1. i = c \/ e[i] < e[c]
      BY <1>0, <1>2 DEF RayCut
    <3> QED
      BY <2>1, <3>1
  <2>3. b \div 64 <= z \div 64
    BY <2>2
  <2> QED
    BY <2>1, <2>3
<1>3. ASSUME j # 1 PROVE j - 1 \in 1 .. len
  BY <1>0, <1>3
<1>4. SlotFrom(e, j) \in Nat /\ SlotFrom(e, j) <= m
  BY <1>0, <1>1, <1>3 DEF SlotFrom
<1>5. SlotTo(e, len, j, m) \in Nat /\ SlotTo(e, len, j, m) <= m
  BY <1>0, <1>1 DEF SlotTo
<1>6. SlotFrom(e, j) <= SlotTo(e, len, j, m)
  <2>1. CASE j = 1 \/ j = len + 1
    BY <1>4, <1>5, <2>1 DEF SlotFrom, SlotTo
  <2>2. CASE j # 1 /\ j # len + 1
    <3>1. j - 1 \in 1 .. len /\ j \in 1 .. len /\ j - 1 <= j
      BY <1>0, <2>2
    <3>2. e[j - 1] \div 64 <= e[j] \div 64
      BY <1>2, <3>1
    <3> QED
      BY <1>1, <2>2, <3>1, <3>2 DEF SlotFrom, SlotTo
  <2> QED
    BY <2>1, <2>2
<1>7. ASSUME NEW i \in 1 .. len + 1, i < j PROVE SlotTo(e, len, i, m) <= SlotFrom(e, j)
  <2>1. i \in 1 .. len /\ j - 1 \in 1 .. len /\ i <= j - 1 /\ j # 1 /\ i # len + 1
    BY <1>0, <1>7
  <2>2. e[i] \div 64 <= e[j - 1] \div 64
    BY <1>2, <2>1
  <2> QED
    BY <1>1, <2>1, <2>2 DEF SlotFrom, SlotTo
<1> QED
  BY <1>4, <1>5, <1>6, <1>7

(* The objects and the points of a piece are those of its slot. *)
LEMMA PieceEnds ==
  ASSUME FoundInv, Regular, Apart, phase # "cast", NEW d \in Active, NEW r \in 0 .. Rays(d) - 1,
         NEW h, h = HitsOn(d, r), NEW j \in 1 .. Len(h) + 1, Closes(d, h, j),
         NEW p, p = PieceAt(d, r, h, j), NEW e, e = EndsOn(d, h), NEW len, len = Len(h)
  PROVE  /\ p.ray = r /\ p.start.at \in Int /\ p.end.at \in Int
         /\ p.start.at + (IF p.start.object = Wall THEN 0 ELSE 1) = SlotFrom(e, j)
         /\ p.end.at + (IF p.end.object = Wall THEN 1 ELSE 0) = SlotTo(e, len, j, n[d])
         /\ p.start.object = (IF j = 1 THEN Wall ELSE h[j - 1])
         /\ p.end.object = (IF j > len THEN Wall ELSE h[j])
<1>0. d \in Dirs /\ cfg \in Configs /\ MeshInv
  BY DEF FoundInv, MeshInv, MeshTyped, Active
<1>1. PICK out, sh : out = SidesOn(d, h) /\ sh = ShapesOn(d, h)
  OBVIOUS
<1>2. PICK lo, hi : lo = Enters(d, r) /\ hi = Leaves(d, r)
  OBVIOUS
<1>3. /\ RayCut(len, e, out, sh, Met(d, r), lo, hi, Length(d))
      /\ \A i \in 1 .. len : R[d][h[i]].at = (e[i] \div 64) + (IF out[i] THEN 1 ELSE 0)
  BY <1>1, <1>2, RayIsCut
<1>4. /\ len \in Nat /\ DOMAIN h = 1 .. len
      /\ \A i \in 1 .. len : h[i] \in 1 .. Len(R[d])
  <2>1. Enumerates(h, d, r)
    BY <1>0, HitsOnIs
  <2> QED
    BY <2>1 DEF Enumerates
<1>5. \A i \in 1 .. len : e[i] \in Nat /\ out[i] \in BOOLEAN /\ out[i] = R[d][h[i]].outside
  <2>1. \A i \in 1 .. len : e[i] \in Nat /\ out[i] \in BOOLEAN
    BY <1>3 DEF RayCut
  <2>2. \A i \in 1 .. len : out[i] = R[d][h[i]].outside
    BY <1>1, <1>4 DEF SidesOn
  <2> QED
    BY <2>1, <2>2
<1>6. \A i \in 1 .. len : h[i] # Wall /\ h[i] # Nobody
  BY <1>4 DEF Wall, Nobody
<1>7. /\ ClosedSlot(len, out, j) /\ Left(d, h, j) # Nobody
  BY <1>1, PieceIsSlot
<1>8. PICK nd \in Nat : nd = n[d]
  BY <1>0, ConfigFacts
<1>9. /\ p.ray = r /\ p.start = Boundary(d, Left(d, h, j), 0)
      /\ p.end = Boundary(d, IF j > len THEN Wall ELSE h[j], nd - 1)
  BY <1>8 DEF PieceAt
<1>10. /\ p.start.at \in Int /\ p.start.object = (IF j = 1 THEN Wall ELSE h[j - 1])
       /\ p.start.at + (IF p.start.object = Wall THEN 0 ELSE 1) = SlotFrom(e, j)
  <2>1. CASE j = 1
    <3>1. p.start.at = 0 /\ p.start.object = Wall
      BY <1>9, <2>1 DEF Left, Boundary
    <3> QED
      BY <2>1, <3>1 DEF SlotFrom
  <2>2. CASE j # 1
    <3>1. j - 1 \in 1 .. len
      BY <1>4, <2>2
    <3>2. ~out[j - 1] /\ Left(d, h, j) = h[j - 1]
      BY <1>5, <1>7, <2>2, <3>1 DEF Left
    <3>3. PICK b \in Nat : b = e[j - 1] /\ R[d][h[j - 1]].at = b \div 64
      BY <1>3, <1>5, <3>1, <3>2
    <3>4. p.start.at = b \div 64 /\ p.start.object = h[j - 1] /\ p.start.object # Wall
      BY <1>6, <1>9, <3>1, <3>2, <3>3 DEF Boundary
    <3> QED
      BY <2>2, <3>3, <3>4 DEF SlotFrom
  <2> QED
    BY <2>1, <2>2
<1>11. /\ p.end.at \in Int /\ p.end.object = (IF j > len THEN Wall ELSE h[j])
       /\ p.end.at + (IF p.end.object = Wall THEN 1 ELSE 0) = SlotTo(e, len, j, nd)
  <2>1. CASE j = len + 1
    <3>1. j > len
      BY <1>4, <2>1
    <3>2. p.end.at = nd - 1 /\ p.end.object = Wall
      BY <1>9, <3>1 DEF Boundary
    <3>3. SlotTo(e, len, j, nd) = nd
      BY <2>1 DEF SlotTo
    <3> QED
      BY <3>1, <3>2, <3>3
  <2>2. CASE j # len + 1
    <3>1. j \in 1 .. len /\ ~(j > len)
      BY <1>4, <2>2
    <3>2. out[j]
      BY <1>7, <2>2 DEF ClosedSlot
    <3>3. PICK b \in Nat : b = e[j] /\ R[d][h[j]].at = (b \div 64) + 1
      BY <1>3, <1>5, <3>1, <3>2
    <3>4. p.end.at = (b \div 64) + 1 /\ p.end.object = h[j] /\ p.end.object # Wall
      BY <1>6, <1>9, <3>1, <3>3 DEF Boundary
    <3>5. SlotTo(e, len, j, nd) = (b \div 64) + 1
      BY <2>2, <3>3 DEF SlotTo
    <3> QED
      BY <3>1, <3>4, <3>5
  <2> QED
    BY <2>1, <2>2
<1> QED
  BY <1>8, <1>9, <1>10, <1>11

(* A line is the piece that is closed at J of ray r. *)
PieceHere(d, i, r, J) ==
  /\ r \in 0 .. Rays(d) - 1 /\ J \in 1 .. Len(HitsOn(d, r)) + 1
  /\ Closes(d, HitsOn(d, r), J)
  /\ LinesOf(d)[i] = PieceAt(d, r, HitsOn(d, r), J)

(* The place of a line among the rays and their pieces. *)
LinePlace(d, off, i, x, j, ends) ==
  /\ x \in 1 .. Rays(d) /\ i = off[x] + j /\ j \in Nat /\ off[x] \in Nat
  /\ j \in 1 .. Len(PiecesOf(d)[x]) /\ Len(PiecesOf(d)[x]) = Len(ends)
  /\ ClosedAt(ends, d, x - 1, HitsOn(d, x - 1))
  /\ PieceHere(d, i, x - 1, ends[j])

(* Every line has one. *)
LEMMA LineHasPlace ==
  ASSUME MeshInv, NEW d \in Active, NEW off, PlacedAt(off, PiecesOf(d), LinesOf(d)),
         NEW i \in 1 .. Len(LinesOf(d))
  PROVE  \E x, j, ends : LinePlace(d, off, i, x, j, ends)
<1>0. d \in Dirs
  BY DEF Active
<1>1. PICK q, ss : q = LinesOf(d) /\ ss = PiecesOf(d) /\ q \in Seq(Pieced(d)) /\ ss \in Seq(Seq(Pieced(d)))
  BY LinesPlaced
<1>2. Len(ss) = Rays(d) /\ Rays(d) \in Nat
  BY <1>1, LinesPlaced
<1>3. PICK x \in 1 .. Len(ss), j \in Nat : j \in 1 .. Len(ss[x]) /\ i = off[x] + j
  <2>1. \E x \in 1 .. Len(ss) : \E j \in 1 .. Len(ss[x]) : i = off[x] + j
    BY <1>1 DEF PlacedAt
  <2> QED
    BY <2>1
<1>4. PICK r \in 0 .. Rays(d) - 1 : r = x - 1 /\ ss[x] = Pieces(d, r)
  <2>1. x - 1 \in 0 .. Rays(d) - 1 /\ x \in 1 .. Rays(d)
    BY <1>2
  <2> QED
    BY <1>1, <2>1 DEF PiecesOf
<1>5. PICK h : h = HitsOn(d, r)
  OBVIOUS
<1>6. PICK ends : ClosedAt(ends, d, r, h)
  BY <1>0, <1>5, PiecesAre
<1>7. PICK p : p = ss[x] /\ p = Pieces(d, r) /\ p \in Seq(Pieced(d))
  BY <1>1, <1>4
<1>8. Len(p) = Len(ends)
  <2>1. DOMAIN p = 1 .. Len(ends) /\ Len(ends) \in Nat
    BY <1>6, <1>7 DEF ClosedAt
  <2> QED
    BY <1>7, <2>1
<1>9. j \in 1 .. Len(ends)
  BY <1>3, <1>7, <1>8
<1>10. /\ ends[j] \in 1 .. Len(h) + 1 /\ Closes(d, h, ends[j])
       /\ p[j] = PieceAt(d, r, h, ends[j])
  BY <1>6, <1>7, <1>9 DEF ClosedAt
<1>11. q[i] = ss[x][j]
  BY <1>1, <1>3 DEF PlacedAt
<1>12. PieceHere(d, i, r, ends[j])
  BY <1>1, <1>5, <1>7, <1>10, <1>11 DEF PieceHere
<1>13. off[x] \in Nat
  <2>1. off \in [1 .. Len(ss) + 1 -> Nat]
    BY <1>1 DEF PlacedAt
  <2>2. x \in 1 .. Len(ss) + 1
    BY <1>2
  <2> QED
    BY <2>1, <2>2
<1>14. x \in 1 .. Rays(d) /\ j \in 1 .. Len(PiecesOf(d)[x]) /\ Len(PiecesOf(d)[x]) = Len(ends)
  BY <1>1, <1>2, <1>3, <1>7, <1>8
<1>15. LinePlace(d, off, i, x, j, ends)
  BY <1>3, <1>4, <1>5, <1>6, <1>12, <1>13, <1>14 DEF LinePlace
<1> QED
  BY <1>15

(* Lines are in the order of the rays, and on a ray in that of its slots. *)
LEMMA LinesOrder ==
  ASSUME MeshInv, NEW d \in Active,
         NEW i \in 1 .. Len(LinesOf(d)), NEW c \in 1 .. Len(LinesOf(d)), i < c
  PROVE  \E r, y, I, J : /\ PieceHere(d, i, r, I) /\ PieceHere(d, c, y, J)
                         /\ r < y \/ (r = y /\ I < J)
<1>1. PICK off : PlacedAt(off, PiecesOf(d), LinesOf(d))
  BY LinesPlaced
<1>2. PICK x, j, ends : LinePlace(d, off, i, x, j, ends)
  BY <1>1, LineHasPlace
<1>3. PICK z, l, other : LinePlace(d, off, c, z, l, other)
  BY <1>1, LineHasPlace
<1>4. PICK ss : ss = PiecesOf(d) /\ ss \in Seq(Seq(Pieced(d))) /\ Len(ss) = Rays(d) /\ Rays(d) \in Nat
  BY LinesPlaced
<1>5. /\ x \in 1 .. Len(ss) /\ j \in Nat /\ off[x] \in Nat /\ i = off[x] + j
      /\ j \in 1 .. Len(ss[x]) /\ Len(ss[x]) = Len(ends)
  BY <1>2, <1>4 DEF LinePlace
<1>6. /\ z \in 1 .. Len(ss) /\ l \in Nat /\ off[z] \in Nat /\ c = off[z] + l
      /\ l \in 1 .. Len(ss[z]) /\ Len(ss[z]) = Len(other)
  BY <1>3, <1>4 DEF LinePlace
<1>7. ~(z < x)
  <2> SUFFICES ASSUME z < x PROVE FALSE
    OBVIOUS
  <2>1. off[z] + Len(ss[z]) <= off[x]
    BY <1>1, <1>4, <1>5, <1>6, PlacesOrder
  <2>2. Len(ss[z]) \in Nat
    BY <1>4, <1>6
  <2>3. PICK a \in Nat, b \in Nat, w \in Nat : a = off[x] /\ b = off[z] /\ w = Len(ss[z])
    BY <1>5, <1>6, <2>2
  <2>4. i = a + j /\ c = b + l /\ l <= w /\ j >= 1
    BY <1>5, <1>6, <2>3
  <2>5. b + w <= a
    BY <2>1, <2>3
  <2> QED
    BY <1>5, <1>6, <2>4, <2>5
<1>8. PICK r, y, I, J : r = x - 1 /\ y = z - 1 /\ I = ends[j] /\ J = other[l]
  OBVIOUS
<1>9. PieceHere(d, i, r, I) /\ PieceHere(d, c, y, J)
  BY <1>2, <1>3, <1>8 DEF LinePlace
<1>10. CASE x < z
  <2>1. r < y
    BY <1>5, <1>6, <1>8, <1>10
  <2> QED
    BY <1>9, <2>1
<1>11. CASE x = z
  <2>1. PICK a \in Nat : a = off[x] /\ a = off[z]
    BY <1>5, <1>11
  <2>2. j < l
    BY <1>5, <1>6, <2>1
  <2>3. PICK h, p : h = HitsOn(d, r) /\ p = Pieces(d, r)
    OBVIOUS
  <2>4. ClosedAt(ends, d, r, h) /\ ClosedAt(other, d, r, h)
    BY <1>2, <1>3, <1>8, <1>11, <2>3 DEF LinePlace
  <2>5. /\ \A u \in 1 .. Len(ends) : Closes(d, h, ends[u])
        /\ \A u, v \in 1 .. Len(ends) : u < v => ends[u] < ends[v]
        /\ \A u \in 1 .. Len(ends) : ends[u] \in 1 .. Len(h) + 1
    BY <2>4 DEF ClosedAt
  <2>6. l \in 1 .. Len(ends) /\ j \in 1 .. Len(ends)
    BY <1>5, <1>6, <1>11
  <2>7. PieceHere(d, c, r, ends[l])
    <3>1. p[l] = PieceAt(d, r, h, ends[l])
      BY <2>3, <2>4, <2>6 DEF ClosedAt
    <3>2. p[l] = PieceAt(d, r, h, other[l])
      <4>1. l \in 1 .. Len(other)
        BY <1>6
      <4> QED
        BY <2>3, <2>4, <4>1 DEF ClosedAt
    <3>3. LinesOf(d)[c] = PieceAt(d, r, h, other[l]) /\ r \in 0 .. Rays(d) - 1
      BY <1>8, <1>9, <1>11, <2>3 DEF PieceHere
    <3> QED
      BY <2>3, <2>5, <2>6, <3>1, <3>2, <3>3 DEF PieceHere
  <2>8. I < ends[l]
    BY <1>8, <2>2, <2>5, <2>6
  <2> QED
    BY <1>9, <2>7, <2>8
<1> QED
  BY <1>5, <1>6, <1>7, <1>10, <1>11

(* In the highest direction the points of a ray are successive, and so are *)
(* those of successive rays.                                               *)
LEMMA FlatOnRay ==
  ASSUME cfg \in Configs, Active # {}, NEW d, d = HighestDir
  PROVE  /\ d \in Active /\ n[d] \in Nat \ {0}
         /\ \A r \in 0 .. Rays(d) - 1 : \A i \in Int : Flat(At(d, r, i)) = (r * n[d]) + i
         /\ \A pt \in Points : Flat(pt) = (RayOf(d, pt) * n[d]) + pt[d]
<1>1. PICK a \in Nat \ {0}, b \in Nat \ {0}, c \in Nat \ {0} : a = n[0] /\ b = n[1] /\ c = n[2]
  BY ConfigFacts DEF Dirs
<1>2. PICK nd \in Nat \ {0} : nd = n[d]
  BY <1>1 DEF HighestDir
<1>3. d \in Active
  BY <1>1 DEF Active, HighestDir, Dirs
<1>4. ASSUME NEW pt \in Points PROVE Flat(pt) = (RayOf(d, pt) * nd) + pt[d]
  <2>1. PICK x \in Nat, y \in Nat, z \in Nat : x = pt[0] /\ y = pt[1] /\ z = pt[2]
    <3>1. pt \in [Dirs -> Nat]
      BY PointOnRay DEF Dirs
    <3> QED
      BY <3>1 DEF Dirs
  <2>2. \A e \in Dirs : pt[e] \in 0 .. n[e] - 1
    BY PointOnRay DEF Dirs
  <2>3. x <= a - 1 /\ y <= b - 1 /\ z <= c - 1
    BY <1>1, <2>1, <2>2 DEF Dirs
  <2>4. Flat(pt) = (((x * b) * c) + (y * c)) + z
    BY <1>1, <2>1 DEF Flat
  <2>5. CASE c > 1
    <3>1. d = 2 /\ nd = c
      BY <1>1, <1>2, <2>5 DEF HighestDir
    <3>2. RayOf(d, pt) = (x * b) + y /\ pt[d] = z
      BY <1>1, <2>1, <3>1 DEF RayOf, Slow, Fast
    <3>3. (((x * b) * c) + (y * c)) + z = (((x * b) + y) * c) + z
      <4>1. PICK w \in Nat : w = x * b
        OBVIOUS
      <4>2. (w * c) + (y * c) = (w + y) * c
        OBVIOUS
      <4> QED
        BY <4>1, <4>2
    <3> QED
      BY <2>4, <3>1, <3>2, <3>3
  <2>6. CASE c = 1 /\ b > 1
    <3>1. d = 1 /\ nd = b
      BY <1>1, <1>2, <2>6 DEF HighestDir
    <3>2. RayOf(d, pt) = (x * c) + z /\ pt[d] = y
      BY <1>1, <2>1, <3>1 DEF RayOf, Slow, Fast
    <3>3. z = 0 /\ x * c = x /\ (x * b) * c = x * b /\ y * c = y
      BY <2>3, <2>6
    <3>4. RayOf(d, pt) = x
      BY <3>2, <3>3
    <3>5. Flat(pt) = (x * b) + y
      BY <2>4, <3>3
    <3> QED
      BY <3>1, <3>2, <3>4, <3>5
  <2>7. CASE c = 1 /\ b = 1
    <3>1. d = 0 /\ nd = a
      BY <1>1, <1>2, <2>7 DEF HighestDir
    <3>2. RayOf(d, pt) = (y * c) + z /\ pt[d] = x
      BY <1>1, <2>1, <3>1 DEF RayOf, Slow, Fast
    <3>3. z = 0 /\ y = 0 /\ (x * b) * c = x
      BY <2>3, <2>7
    <3>4. RayOf(d, pt) = 0 /\ Flat(pt) = x
      BY <2>4, <3>2, <3>3
    <3> QED
      BY <3>2, <3>4
  <2> QED
    BY <2>5, <2>6, <2>7
<1>5. ASSUME NEW r \in 0 .. Rays(d) - 1, NEW i \in Int PROVE Flat(At(d, r, i)) = (r * nd) + i
  <2>0. r \in Nat /\ r \in Int
    OBVIOUS
  <2>1. PICK p : p = At(d, r, i)
    OBVIOUS
  <2>2. PICK s \in Dirs, f \in Dirs : s = Slow(d) /\ f = Fast(d) /\ s # f /\ s # d /\ f # d
    BY <1>3, Across DEF Active
  <2>3. PICK nf \in Nat \ {0} : nf = n[f]
    BY ConfigFacts
  <2>4. p[d] = i /\ p[s] = r \div nf /\ p[f] = r % nf
    <3>1. d \in Dirs
      BY <1>3 DEF Active
    <3>2. Origin(d, r)[s] = r \div nf /\ Origin(d, r)[f] = r % nf
      BY <2>2, <2>3 DEF Origin
    <3>3. p[d] = i /\ p[s] = Origin(d, r)[s] /\ p[f] = Origin(d, r)[f]
      <4>1. s \in Dirs \ {d} /\ f \in Dirs \ {d}
        BY <2>2
      <4> QED
        BY <2>0, <2>1, <3>1, <4>1, OriginIs, SMTT(20)
    <3> QED
      BY <3>2, <3>3
  <2>5. PICK u \in Nat, v \in Nat : u = r \div nf /\ v = r % nf /\ r = (nf * u) + v
    <3>1. r \div nf \in Nat /\ r % nf \in Nat
      BY <2>0
    <3>2. r = (nf * (r \div nf)) + (r % nf)
      BY <2>0
    <3> QED
      BY <3>1, <3>2
  <2>6. Flat(p) = (((p[0] * b) * c) + (p[1] * c)) + p[2]
    BY <1>1 DEF Flat
  <2>7. CASE c > 1
    <3>1. d = 2 /\ nd = c
      BY <1>1, <1>2, <2>7 DEF HighestDir
    <3>2. s = 0 /\ f = 1 /\ nf = b
      BY <1>1, <2>2, <2>3, <3>1 DEF Slow, Fast
    <3>3. Flat(p) = (((u * b) * c) + (v * c)) + i
      BY <2>4, <2>5, <2>6, <3>1, <3>2
    <3>4. r = (u * b) + v
      <4>1. b * u = u * b
        OBVIOUS
      <4> QED
        BY <2>5, <3>2, <4>1
    <3>5. PICK w \in Nat : w = u * b
      OBVIOUS
    <3>6. (w * c) + (v * c) = (w + v) * c
      OBVIOUS
    <3> QED
      BY <2>1, <3>1, <3>3, <3>4, <3>5, <3>6
  <2>8. CASE c = 1 /\ b > 1
    <3>1. d = 1 /\ nd = b
      BY <1>1, <1>2, <2>8 DEF HighestDir
    <3>2. s = 0 /\ f = 2 /\ nf = c
      BY <1>1, <2>2, <2>3, <3>1 DEF Slow, Fast
    <3>3. u = r /\ v = 0
      BY <2>0, <2>5, <2>8, <3>2
    <3>4. Flat(p) = (((r * b) * c) + (i * c)) + 0
      BY <2>4, <2>5, <2>6, <3>1, <3>2, <3>3
    <3>5. PICK w \in Nat : w = r * b
      BY <2>0
    <3> QED
      BY <2>1, <2>8, <3>1, <3>4, <3>5
  <2>9. CASE c = 1 /\ b = 1
    <3>1. d = 0 /\ nd = a
      BY <1>1, <1>2, <2>9 DEF HighestDir
    <3>2. s = 1 /\ f = 2 /\ nf = c
      BY <1>1, <2>2, <2>3, <3>1 DEF Slow, Fast
    <3>3. u = r /\ v = 0
      BY <2>0, <2>5, <2>9, <3>2
    <3>4. Flat(p) = (((i * b) * c) + (r * c)) + 0
      BY <2>4, <2>5, <2>6, <3>1, <3>2, <3>3
    <3>5. Flat(p) = i + r
      BY <2>0, <2>9, <3>4
    <3>6. r = 0
      <4>1. Rays(d) = b * c
        BY <1>1, <3>1 DEF Rays, Slow, Fast
      <4> QED
        BY <2>9, <4>1
    <3> QED
      BY <2>1, <3>5, <3>6
  <2> QED
    BY <2>7, <2>8, <2>9
<1> QED
  BY <1>2, <1>3, <1>4, <1>5

(* The first points of the lines of a direction, and the first beyond them. *)
Firsts(d) == [i \in 1 .. Len(LinesOf(d)) |-> Slice(d, LinesOf(d)[i])[1]]
(* See Firsts. *)
Beyonds(d) == [i \in 1 .. Len(LinesOf(d)) |-> Slice(d, LinesOf(d)[i])[2]]

(* The slice of line i, piece J of ray r, is from f to t on its ray. *)
SliceHere(d, i, r, J, f, t) ==
  /\ r \in Nat /\ f \in Nat /\ t \in Nat /\ f <= t /\ t <= n[d]
  /\ f = SlotFrom(EndsOn(d, HitsOn(d, r)), J)
  /\ t = SlotTo(EndsOn(d, HitsOn(d, r)), Len(HitsOn(d, r)), J, n[d])
  /\ Firsts(d)[i] = (r * n[d]) + f /\ Beyonds(d)[i] = (r * n[d]) + t

(* The ends on a ray are those of a ray that is cut. *)
LEMMA CutHere ==
  ASSUME FoundInv, Regular, Apart, phase # "cast", NEW d \in Active, NEW r \in 0 .. Rays(d) - 1,
         NEW h, h = HitsOn(d, r)
  PROVE  /\ RayCut(Len(h), EndsOn(d, h), SidesOn(d, h), ShapesOn(d, h), Met(d, r),
                   Enters(d, r), Leaves(d, r), 64 * (n[d] - 1))
         /\ Len(h) \in Nat /\ EndsOn(d, h) \in [1 .. Len(h) -> Nat]
<1>1. Length(d) = 64 * (n[d] - 1)
  BY DEF Length, Cell
<1>2. RayCut(Len(h), EndsOn(d, h), SidesOn(d, h), ShapesOn(d, h), Met(d, r),
             Enters(d, r), Leaves(d, r), Length(d))
  BY RayIsCut
<1>3. Len(h) \in Nat /\ EndsOn(d, h) \in [1 .. Len(h) -> Nat]
  BY <1>2, Zenon DEF RayCut
<1> QED
  BY <1>1, <1>2, <1>3

(* In the highest direction the slice of a piece has the points of its slot. *)
LEMMA SliceIs ==
  ASSUME FoundInv, Regular, Apart, phase # "cast", Active # {}, NEW d, d = HighestDir,
         NEW i \in 1 .. Len(LinesOf(d)), NEW r, NEW J, PieceHere(d, i, r, J)
  PROVE  \E f, t : SliceHere(d, i, r, J, f, t)
<1>0. cfg \in Configs /\ d \in Active
  BY FlatOnRay DEF FoundInv, MeshInv, MeshTyped
<1>1. PICK h, p : h = HitsOn(d, r) /\ p = LinesOf(d)[i]
  OBVIOUS
<1>2. PICK e, len : e = EndsOn(d, h) /\ len = Len(h)
  OBVIOUS
<1>3. r \in 0 .. Rays(d) - 1 /\ J \in 1 .. len + 1 /\ Closes(d, h, J) /\ p = PieceAt(d, r, h, J)
  BY <1>1, <1>2 DEF PieceHere
<1>4. PICK out, sh : out = SidesOn(d, h) /\ sh = ShapesOn(d, h)
  OBVIOUS
<1>5. PICK lo, hi, I : lo = Enters(d, r) /\ hi = Leaves(d, r) /\ I = Met(d, r)
  OBVIOUS
<1>6. PICK m \in Nat \ {0} : m = n[d]
  BY <1>0, FlatOnRay
<1>7. RayCut(len, e, out, sh, I, lo, hi, 64 * (m - 1))
  BY <1>0, <1>1, <1>2, <1>3, <1>4, <1>5, <1>6, CutHere
<1>8. PICK f \in Nat, t \in Nat : f = SlotFrom(e, J) /\ t = SlotTo(e, len, J, m) /\ f <= t /\ t <= m
  BY <1>3, <1>7, SlotBounds
<1>9. /\ p.ray = r /\ p.start.at \in Int /\ p.end.at \in Int
      /\ p.start.at + (IF p.start.object = Wall THEN 0 ELSE 1) = f
      /\ p.end.at + (IF p.end.object = Wall THEN 1 ELSE 0) = t
  BY <1>0, <1>1, <1>2, <1>3, <1>6, <1>8, PieceEnds, SMTT(20)
<1>10. PICK u \in Int, v \in Int : u = p.start.at /\ v = p.end.at
  BY <1>9
<1>11. PICK w \in Nat : w = r * m /\ r \in Nat
  BY <1>3
<1>12. Flat(At(d, r, u)) = w + u /\ Flat(At(d, r, v)) = w + v
  BY <1>0, <1>3, <1>6, <1>11, FlatOnRay
<1>13. PICK x \in {0, 1}, y \in {0, 1} : /\ x = (IF p.start.object = Wall THEN 0 ELSE 1)
                                         /\ y = (IF p.end.object = Wall THEN 1 ELSE 0)
  OBVIOUS
<1>14. Slice(d, p) = <<(w + u) + x, (w + v) + y>>
  BY <1>9, <1>10, <1>12, <1>13 DEF Slice
<1>15. u + x = f /\ v + y = t
  BY <1>9, <1>10, <1>13
<1>16. (w + u) + x = w + f /\ (w + v) + y = w + t
  BY <1>15
<1>17. Slice(d, p)[1] = w + f /\ Slice(d, p)[2] = w + t
  BY <1>14, <1>16
<1>18. Firsts(d)[i] = w + f /\ Beyonds(d)[i] = w + t
  BY <1>1, <1>17 DEF Firsts, Beyonds
<1>19. SliceHere(d, i, r, J, f, t)
  BY <1>1, <1>2, <1>6, <1>8, <1>11, <1>18 DEF SliceHere
<1> QED
  BY <1>19

(* The multiples of m are m apart. *)
LEMMA RayAfterRay ==
  ASSUME NEW r \in Nat, NEW y \in Nat, NEW m \in Nat, r < y
  PROVE  (r * m) + m <= y * m
<1>1. PICK c \in Nat : y = (r + 1) + c
  <2>1. (y - r) - 1 \in Nat /\ y = (r + 1) + ((y - r) - 1)
    OBVIOUS
  <2> QED
    BY <2>1
<1>2. y * m = ((r + 1) * m) + (c * m)
  BY <1>1
<1>3. (r + 1) * m = (r * m) + m
  OBVIOUS
<1>4. c * m \in Nat /\ r * m \in Nat
  OBVIOUS
<1> QED
  BY <1>2, <1>3, <1>4

(* A line of an active direction is a piece of some ray. *)
LEMMA LineSomewhere ==
  ASSUME MeshInv, NEW d \in Active, NEW i \in 1 .. Len(LinesOf(d))
  PROVE  \E r, J : PieceHere(d, i, r, J)
<1>1. PICK off : PlacedAt(off, PiecesOf(d), LinesOf(d))
  BY LinesPlaced
<1>2. PICK x, j, ends : LinePlace(d, off, i, x, j, ends)
  BY <1>1, LineHasPlace
<1> QED
  BY <1>2 DEF LinePlace

(* The slices of the highest direction follow each other. *)
LEMMA SlicesTile ==
  ASSUME FoundInv, Regular, Apart, phase # "cast", Active # {}, NEW d, d = HighestDir
  PROVE  Tiles(Firsts(d), Beyonds(d), Len(LinesOf(d)))
<1>0. cfg \in Configs /\ d \in Active /\ MeshInv
  BY FlatOnRay DEF FoundInv, MeshInv, MeshTyped
<1>1. PICK m \in Nat \ {0} : m = n[d]
  BY <1>0, FlatOnRay
<1>2. PICK a, b, len : a = Firsts(d) /\ b = Beyonds(d) /\ len = Len(LinesOf(d)) /\ len \in Nat
  <2>1. Len(LinesOf(d)) \in Nat
    BY <1>0, LinesPlaced
  <2> QED
    BY <2>1
<1>3. ASSUME NEW i \in 1 .. len PROVE a[i] \in Nat /\ b[i] \in Nat /\ a[i] <= b[i]
  <2>1. PICK r, J : PieceHere(d, i, r, J)
    BY <1>0, <1>2, LineSomewhere
  <2>2. PICK f, t : SliceHere(d, i, r, J, f, t)
    BY <1>2, <2>1, SliceIs
  <2>3. /\ r \in Nat /\ f \in Nat /\ t \in Nat /\ f <= t
        /\ a[i] = (r * m) + f /\ b[i] = (r * m) + t
    BY <1>1, <1>2, <2>2 DEF SliceHere
  <2>4. r * m \in Nat
    BY <2>3
  <2> QED
    BY <2>3, <2>4
<1>4. ASSUME NEW i \in 1 .. len, NEW c \in 1 .. len, i < c PROVE b[i] <= a[c]
  <2>1. PICK r, y, I, J : /\ PieceHere(d, i, r, I) /\ PieceHere(d, c, y, J)
                          /\ r < y \/ (r = y /\ I < J)
    BY <1>0, <1>2, <1>4, LinesOrder
  <2>2. PICK f, t : SliceHere(d, i, r, I, f, t)
    BY <1>2, <2>1, SliceIs
  <2>3. PICK g, u : SliceHere(d, c, y, J, g, u)
    BY <1>2, <2>1, SliceIs
  <2>4. /\ r \in Nat /\ t \in Nat /\ t <= m /\ b[i] = (r * m) + t
        /\ y \in Nat /\ g \in Nat /\ a[c] = (y * m) + g
    BY <1>1, <1>2, <2>2, <2>3 DEF SliceHere
  <2>5. PICK v \in Nat, w \in Nat : v = r * m /\ w = y * m
    BY <2>4
  <2>6. CASE r < y
    <3>1. v + m <= w
      BY <2>4, <2>5, <2>6, RayAfterRay
    <3> QED
      BY <2>4, <2>5, <3>1
  <2>7. CASE r = y /\ I < J
    <3>1. PICK h : h = HitsOn(d, r)
      OBVIOUS
    <3>2. PICK hits, e : hits = Len(h) /\ e = EndsOn(d, h)
      OBVIOUS
    <3>3. t = SlotTo(e, hits, I, m) /\ g = SlotFrom(e, J)
      BY <1>1, <2>2, <2>3, <2>7, <3>1, <3>2 DEF SliceHere
    <3>4. r \in 0 .. Rays(d) - 1 /\ I \in 1 .. hits + 1 /\ J \in 1 .. hits + 1
      BY <2>1, <2>7, <3>1, <3>2 DEF PieceHere
    <3>5. PICK out, sh : out = SidesOn(d, h) /\ sh = ShapesOn(d, h)
      OBVIOUS
    <3>6. PICK lo, hi, K : lo = Enters(d, r) /\ hi = Leaves(d, r) /\ K = Met(d, r)
      OBVIOUS
    <3>7. RayCut(hits, e, out, sh, K, lo, hi, 64 * (m - 1))
      BY <1>0, <1>1, <3>1, <3>2, <3>4, <3>5, <3>6, CutHere
    <3>8. t <= g
      BY <2>7, <3>3, <3>4, <3>7, SlotBounds
    <3>9. v = w
      BY <2>5, <2>7
    <3> QED
      BY <2>4, <2>5, <3>8, <3>9
  <2> QED
    BY <2>1, <2>6, <2>7
<1>5. Tiles(a, b, len)
  BY <1>2, <1>3, <1>4 DEF Tiles
<1> QED
  BY <1>2, <1>5

(* They have the points that are on a piece. *)
LEMMA SlicesCover ==
  ASSUME FoundInv, Regular, Apart, phase # "cast", Active # {}, NEW d, d = HighestDir,
         lines[d] = LinesOf(d), NEW pt \in Points
  PROVE  /\ Flat(pt) \in Nat
         /\ Covered(Firsts(d), Beyonds(d), Len(LinesOf(d)), Flat(pt)) <=> PiecesWith(d, pt) # {}
<1>0. cfg \in Configs /\ d \in Active /\ MeshInv /\ d \in Dirs
  BY FlatOnRay DEF FoundInv, MeshInv, MeshTyped, Active
<1>1. PICK m \in Nat \ {0} : m = n[d]
  BY <1>0, FlatOnRay
<1>2. PICK a, b, len : a = Firsts(d) /\ b = Beyonds(d) /\ len = Len(LinesOf(d)) /\ len \in Nat
  <2>1. Len(LinesOf(d)) \in Nat
    BY <1>0, LinesPlaced
  <2> QED
    BY <2>1
<1>3. PICK r \in Nat : r = RayOf(d, pt) /\ r \in 0 .. Rays(d) - 1
  BY <1>0, PointOnRay
<1>4. PICK x \in 0 .. m - 1 : x = pt[d]
  BY <1>0, <1>1, PointOnRay
<1>5. PICK v \in Nat : v = r * m
  OBVIOUS
<1>6. Flat(pt) = v + x
  BY <1>0, <1>1, <1>3, <1>4, <1>5, FlatOnRay
<1>7. PICK h : h = HitsOn(d, r)
  OBVIOUS
<1>8. PICK hits, e : /\ hits = Len(h) /\ hits \in Nat
                     /\ e = EndsOn(d, h) /\ e \in [1 .. hits -> Nat]
  BY <1>0, <1>3, <1>7, CutHere
<1>9. ASSUME PiecesWith(d, pt) # {} PROVE Covered(a, b, len, v + x)
  <2>1. PICK J : Slot(hits, e, 64 * x, J)
    BY <1>0, <1>3, <1>4, <1>7, <1>8, PointInSlot
  <2>2. Slot(Len(h), EndsOn(d, h), 64 * pt[d], J)
    BY <1>4, <1>8, <2>1
  <2>3. PICK i \in 1 .. len : Closes(d, h, J) /\ LinesOf(d)[i] = PieceAt(d, r, h, J)
    BY <1>0, <1>2, <1>3, <1>7, <1>9, <2>2, OnlyPiece
  <2>4. PieceHere(d, i, r, J)
    <3>1. J \in 1 .. Len(h) + 1
      BY <2>2 DEF Slot
    <3> QED
      BY <1>3, <1>7, <2>3, <3>1 DEF PieceHere
  <2>5. PICK f, t : SliceHere(d, i, r, J, f, t)
    BY <1>2, <2>4, SliceIs
  <2>6. /\ f \in Nat /\ t \in Nat /\ a[i] = v + f /\ b[i] = v + t
        /\ f = SlotFrom(e, J) /\ t = SlotTo(e, hits, J, m)
    BY <1>1, <1>2, <1>5, <1>7, <1>8, <2>5 DEF SliceHere
  <2>7. J \in 1 .. hits + 1
    BY <2>1 DEF Slot
  <2>8. f <= x /\ x < t
    BY <1>8, <2>1, <2>6, <2>7, SlotRange
  <2>9. v + f <= v + x /\ v + x < v + t
    BY <2>6, <2>8
  <2> QED
    BY <2>6, <2>9 DEF Covered
<1>10. ASSUME Covered(a, b, len, v + x) PROVE PiecesWith(d, pt) # {}
  <2>1. PICK i \in 1 .. len : a[i] <= v + x /\ v + x < b[i]
    BY <1>10 DEF Covered
  <2>2. PICK y, J : PieceHere(d, i, y, J)
    BY <1>0, <1>2, LineSomewhere
  <2>3. PICK f, t : SliceHere(d, i, y, J, f, t)
    BY <1>2, <2>2, SliceIs
  <2>4. /\ y \in Nat /\ f \in Nat /\ t \in Nat /\ t <= m
        /\ a[i] = (y * m) + f /\ b[i] = (y * m) + t
    BY <1>1, <1>2, <2>3 DEF SliceHere
  <2>5. PICK w \in Nat : w = y * m
    BY <2>4
  <2>6. w + f <= v + x /\ v + x < w + t
    BY <2>1, <2>4, <2>5
  <2>7. ~(y < r)
    <3> SUFFICES ASSUME y < r PROVE FALSE
      OBVIOUS
    <3>1. w + m <= v
      BY <1>5, <2>4, <2>5, RayAfterRay
    <3> QED
      BY <2>4, <2>6, <3>1
  <2>8. ~(r < y)
    <3> SUFFICES ASSUME r < y PROVE FALSE
      OBVIOUS
    <3>1. v + m <= w
      BY <1>5, <2>4, <2>5, RayAfterRay
    <3> QED
      BY <2>4, <2>6, <3>1
  <2>9. y = r
    BY <2>4, <2>7, <2>8
  <2>10. f <= x /\ x < t
    BY <1>5, <2>4, <2>5, <2>6, <2>9
  <2>11. J \in 1 .. hits + 1 /\ Closes(d, h, J)
    BY <1>7, <1>8, <2>2, <2>9 DEF PieceHere
  <2>12. f = SlotFrom(e, J) /\ t = SlotTo(e, hits, J, m)
    BY <1>1, <1>7, <1>8, <2>3, <2>9 DEF SliceHere
  <2>13. Slot(hits, e, 64 * x, J)
    BY <1>8, <2>10, <2>11, <2>12, SlotRange
  <2>14. Slot(Len(h), EndsOn(d, h), 64 * pt[d], J)
    BY <1>4, <1>8, <2>13
  <2>15. \E c : PiecesWith(d, pt) = {c}
    BY <1>0, <1>3, <1>7, <2>11, <2>14, OnlyPiece
  <2> QED
    BY <2>15
<1> QED
  BY <1>2, <1>6, <1>9, <1>10

(* What is gathered from the slices of the highest direction is in order,  *)
(* and has the points that are on a piece.                                 *)
LEMMA FluidGathered ==
  ASSUME FoundInv, Regular, Apart, phase # "cast", Active # {}, NEW d, d = HighestDir,
         lines[d] = LinesOf(d), NEW q, q = Gather(Slices(d))
  PROVE  /\ q \in Seq(Nat)
         /\ \A i \in 2 .. Len(q) : q[i - 1] < q[i]
         /\ \A pt \in Points : (\E i \in 1 .. Len(q) : q[i] = Flat(pt)) <=> PiecesWith(d, pt) # {}
<1>0. cfg \in Configs /\ d \in Active /\ MeshInv
  BY FlatOnRay DEF FoundInv, MeshInv, MeshTyped
<1>1. PICK ls : ls = lines[d] /\ ls = LinesOf(d) /\ ls \in Seq(Pieced(d))
  BY <1>0, LinesPlaced
<1>2. PICK m \in Nat : m = Len(ls) /\ DOMAIN ls = 1 .. m
  BY <1>1
<1>3. PICK a, b : a = Firsts(d) /\ b = Beyonds(d)
  OBVIOUS
<1>4. Tiles(a, b, m)
  BY <1>1, <1>2, <1>3, SlicesTile
<1>5. \A i \in 1 .. m : a[i] = Slice(d, ls[i])[1] /\ b[i] = Slice(d, ls[i])[2]
  BY <1>1, <1>2, <1>3 DEF Firsts, Beyonds
<1> DEFINE s(i) == Slice(d, ls[i])
           breaks == [i \in DOMAIN ls |-> IF i = 1 \/ s(i - 1)[2] # s(i)[1] THEN <<i>> ELSE <<>>]
           begins == FlattenSeq(breaks)
           last(j) == IF j = Len(begins) THEN Len(ls) ELSE begins[j + 1] - 1
<1>6. Slices(d) = [j \in DOMAIN begins |-> <<s(begins[j])[1], s(last(j))[2]>>]
  BY <1>1 DEF Slices
<1>7. PICK K : K = Breaks(a, b, m)
  OBVIOUS
<1>8. breaks = [i \in 1 .. m |-> IF i \in K THEN <<i>> ELSE <<>>]
  <2>1. ASSUME NEW i \in 1 .. m PROVE (i = 1 \/ s(i - 1)[2] # s(i)[1]) <=> i \in K
    <3>1. i # 1 => i - 1 \in 1 .. m
      BY <1>2
    <3>2. i # 1 => b[i - 1] = s(i - 1)[2]
      BY <1>5, <3>1
    <3>3. a[i] = s(i)[1]
      BY <1>5
    <3> QED
      BY <1>7, <3>2, <3>3 DEF Breaks
  <2> QED
    BY <1>2, <2>1
<1>9. PICK g, w : g = breaks /\ w = begins /\ w = FlattenSeq(g)
  OBVIOUS
<1> HIDE DEF breaks
<1>10. Selects(g, m, K)
  BY <1>2, <1>8, <1>9, SelectsIs
<1>11. Picks(w, m, K)
  <2>1. /\ Len(w) \in Nat /\ DOMAIN w = 1 .. Len(w)
        /\ \A j \in 1 .. Len(w) : w[j] \in 1 .. m /\ w[j] \in K
        /\ \A x, y \in 1 .. Len(w) : x < y => w[x] < w[y]
        /\ \A i \in 1 .. m : i \in K => \E j \in 1 .. Len(w) : w[j] = i
    BY <1>2, <1>9, <1>10, SelectedAre
  <2> QED
    BY <2>1, Zenon DEF Picks
<1>12. PICK len \in Nat : len = Len(w) /\ DOMAIN w = 1 .. len
  BY <1>11 DEF Picks
<1>13. PICK lo, hi : /\ lo = [j \in 1 .. len |-> a[w[j]]]
                     /\ hi = [j \in 1 .. len |-> b[IF j = len THEN m ELSE w[j + 1] - 1]]
  OBVIOUS
<1>14. Merges(lo, hi, a, b, m, w)
  BY <1>12, <1>13 DEF Merges
<1>15. /\ Tiles(lo, hi, len)
       /\ \A y \in Nat : Covered(lo, hi, len, y) <=> Covered(a, b, m, y)
  BY <1>4, <1>7, <1>11, <1>12, <1>14, MergedTiles
<1>16. PICK sl : sl = Slices(d)
  OBVIOUS
<1>17. sl = [j \in 1 .. len |-> <<s(w[j])[1], s(IF j = len THEN m ELSE w[j + 1] - 1)[2]>>]
  BY <1>2, <1>6, <1>9, <1>12, <1>16
<1>18. Pairs(sl, lo, hi, len)
  <2>1. ASSUME NEW j \in 1 .. len PROVE sl[j][1] = lo[j] /\ sl[j][2] = hi[j]
    <3>1. w[j] \in 1 .. m
      BY <1>11, <1>12 DEF Picks
    <3>2. PICK x \in 1 .. m : x = (IF j = len THEN m ELSE w[j + 1] - 1)
      <4>1. CASE j = len
        BY <1>2, <3>1, <4>1
      <4>2. CASE j # len
        <5>1. j + 1 \in 1 .. len /\ j < j + 1
          BY <4>2
        <5>2. w[j + 1] \in 1 .. m /\ w[j] < w[j + 1]
          BY <1>11, <1>12, <5>1 DEF Picks
        <5>3. w[j + 1] - 1 \in 1 .. m
          BY <1>2, <3>1, <5>2
        <5> QED
          BY <4>2, <5>3
      <4> QED
        BY <4>1, <4>2
    <3>3. sl[j] = <<s(w[j])[1], s(x)[2]>>
      BY <1>17, <3>2
    <3>4. lo[j] = a[w[j]] /\ hi[j] = b[x]
      BY <1>13, <3>2
    <3>5. a[w[j]] = s(w[j])[1] /\ b[x] = s(x)[2]
      BY <1>5, <3>1, <3>2
    <3> QED
      BY <3>3, <3>4, <3>5
  <2>2. DOMAIN sl = 1 .. len
    BY <1>17
  <2> QED
    BY <2>1, <2>2 DEF Pairs
<1>19. /\ q \in Seq(Nat)
       /\ \A i \in 2 .. Len(q) : q[i - 1] < q[i]
       /\ \A y \in Nat : (\E i \in 1 .. Len(q) : q[i] = y) <=> Covered(lo, hi, len, y)
  BY <1>15, <1>16, <1>18, GatherTiles
<1>20. ASSUME NEW pt \in Points
       PROVE  (\E i \in 1 .. Len(q) : q[i] = Flat(pt)) <=> PiecesWith(d, pt) # {}
  <2>1. PICK y \in Nat : y = Flat(pt)
    BY SlicesCover
  <2>2. Covered(a, b, m, y) <=> PiecesWith(d, pt) # {}
    BY <1>1, <1>2, <1>3, <2>1, SlicesCover
  <2> QED
    BY <1>15, <1>19, <2>1, <2>2
<1> QED
  BY <1>19, <1>20

(* A point that is on no surface is on a piece of the highest direction    *)
(* iff it is in no shape.                                                  *)
LEMMA OnPieceOutside ==
  ASSUME FoundInv, Regular, Apart, phase # "cast", NEW d \in Active, lines[d] = LinesOf(d),
         NEW pt \in Points, ~OnSurface(pt)
  PROVE  PiecesWith(d, pt) # {} <=> ~Inside(pt)
<1>1. PICK r, h : r = RayOf(d, pt) /\ h = HitsOn(d, RayOf(d, pt))
  OBVIOUS
<1>2. PICK J : Slot(Len(h), EndsOn(d, h), 64 * pt[d], J)
  BY <1>1, PointInSlot
<1>3. Closes(d, h, J) <=> ~Inside(pt)
  BY <1>1, <1>2, SlotOutside
<1>4. Closes(d, h, J) => \E i : PiecesWith(d, pt) = {i}
  BY <1>1, <1>2, OnlyPiece
<1>5. ~Closes(d, h, J) => PiecesWith(d, pt) = {}
  BY <1>1, <1>2, OnlyPiece
<1> QED
  BY <1>3, <1>4, <1>5

-----------------------------------------------------------------------------
(* The solid marks *)

(* No two exits follow each other. *)
LEMMA ExitsApart ==
  ASSUME NEW len, NEW e, NEW out, NEW sh, NEW I, NEW lo, NEW hi, NEW last,
         RayCut(len, e, out, sh, I, lo, hi, last),
         NEW j \in 2 .. len, ~out[j], ~out[j - 1]
  PROVE  FALSE
<1>0. len \in Nat /\ last \in Nat /\ j \in 1 .. len /\ j - 1 \in 1 .. len
  BY DEF RayCut
<1>1. PICK a \in I, b \in I : a = sh[j - 1] /\ b = sh[j]
  <2>1. sh[j - 1] \in I /\ sh[j] \in I
    BY <1>0 DEF RayCut
  <2> QED
    BY <2>1
<1>2. PICK la \in Int, ha \in Int, lb \in Int, hb \in Int :
        la = lo[a] /\ ha = hi[a] /\ lb = lo[b] /\ hb = hi[b]
  <2>1. lo[a] \in Int /\ hi[a] \in Int /\ lo[b] \in Int /\ hi[b] \in Int
    BY <1>1 DEF RayCut
  <2> QED
    BY <2>1
<1>3. la < ha /\ lb < hb /\ (a # b => ha < lb \/ hb < la)
  BY <1>1, <1>2 DEF RayCut
<1>4. e[j - 1] = ha /\ e[j] = hb /\ ha < hb /\ ha \in Nat /\ hb <= last
  <2>1. e[j - 1] = ha /\ e[j] = hb
    BY <1>0, <1>1, <1>2 DEF RayCut
  <2>2. e[j - 1] \in Nat /\ e[j - 1] < e[j] /\ e[j] <= last
    BY <1>0 DEF RayCut
  <2> QED
    BY <2>1, <2>2
<1>5. ha < lb
  BY <1>1, <1>2, <1>3, <1>4
<1>6. PICK c \in 1 .. len : e[c] = lb
  <2>1. 0 < lb /\ lb < last
    BY <1>0, <1>3, <1>4, <1>5
  <2> QED
    BY <1>1, <1>2, <2>1 DEF RayCut
<1>7. \A x, z \in 1 .. len : e[x] \in Nat /\ (x < z => e[x] < e[z])
  BY DEF RayCut
<1>8. ~(c <= j - 1) /\ ~(c >= j)
  <2>1. c <= j - 1 => e[c] <= e[j - 1]
    BY <1>0, <1>7
  <2>2. c >= j => e[c] >= e[j]
    BY <1>0, <1>7
  <2> QED
    BY <1>0, <1>3, <1>4, <1>5, <1>6, <2>1, <2>2
<1> QED
  BY <1>0, <1>8

(* A point is at one place of one ray of a direction. *)
LEMMA InSegment ==
  ASSUME cfg \in Configs, NEW d \in Dirs, NEW pt \in Points, NEW r, r = RayOf(d, pt),
         NEW y \in 0 .. Rays(d) - 1, NEW a \in Int, NEW b \in Int
  PROVE  pt \in Segment(d, y, a, b) <=> y = r /\ a <= pt[d] /\ pt[d] <= b
<1>1. /\ pt \in [Dirs -> Nat] /\ r \in 0 .. Rays(d) - 1 /\ r \in Int /\ y \in Int
      /\ \A e \in Dirs \ {d} : Origin(d, r)[e] = pt[e]
  BY PointOnRay
<1>2. PICK x \in Nat : x = pt[d]
  BY <1>1
<1>3. At(d, r, x) = pt
  <2>1. PICK p : p = At(d, r, x) /\ p \in [Dirs -> Int] /\ p[d] = x
                 /\ \A e \in Dirs \ {d} : p[e] = Origin(d, r)[e]
    BY <1>1, OriginIs, SMTT(20)
  <2>2. \A e \in Dirs : p[e] = pt[e]
    BY <1>1, <1>2, <2>1
  <2>3. p = [e \in Dirs |-> p[e]] /\ pt = [e \in Dirs |-> pt[e]]
    BY <1>1, <2>1
  <2>4. p = pt
    BY <2>2, <2>3
  <2> QED
    BY <2>1, <2>4
<1>4. ASSUME NEW i \in Int, pt = At(d, y, i) PROVE y = r /\ i = x
  <2>1. i = x
    BY <1>1, <1>2, <1>4, OriginIs
  <2>2. \A e \in Dirs \ {d} : Origin(d, y)[e] = Origin(d, r)[e]
    BY <1>1, <1>4, OriginIs
  <2>3. PICK s \in Dirs, f \in Dirs : s = Slow(d) /\ f = Fast(d) /\ s # f /\ s # d /\ f # d
    BY Across
  <2>4. PICK nf \in Nat \ {0} : nf = n[f]
    BY ConfigFacts
  <2>5. y \div nf = r \div nf /\ y % nf = r % nf
    <3>1. s \in Dirs \ {d} /\ f \in Dirs \ {d}
      BY <2>3
    <3>2. Origin(d, y)[s] = y \div nf /\ Origin(d, y)[f] = y % nf
      BY <2>3, <2>4 DEF Origin
    <3>3. Origin(d, r)[s] = r \div nf /\ Origin(d, r)[f] = r % nf
      BY <2>3, <2>4 DEF Origin
    <3> QED
      BY <2>2, <3>1, <3>2, <3>3
  <2>6. y = (nf * (y \div nf)) + (y % nf) /\ r = (nf * (r \div nf)) + (r % nf)
    BY <1>1, SMTT(20)
  <2> QED
    BY <2>1, <2>5, <2>6
<1>5. ASSUME pt \in Segment(d, y, a, b) PROVE y = r /\ a <= x /\ x <= b
  <2>1. PICK i \in a .. b : pt = At(d, y, i)
    BY <1>5 DEF Segment
  <2>2. i \in Int /\ a <= i /\ i <= b
    OBVIOUS
  <2> QED
    BY <1>4, <2>1, <2>2
<1>6. ASSUME y = r, a <= x, x <= b PROVE pt \in Segment(d, y, a, b)
  <2>1. x \in a .. b /\ pt = At(d, y, x)
    BY <1>3, <1>6
  <2> QED
    BY <2>1 DEF Segment
<1> QED
  BY <1>2, <1>5, <1>6

(* The records of a ray follow each other. *)
LEMMA HitsInRow ==
  ASSUME FoundInv, Regular, NEW d \in Dirs, NEW r, NEW h, h = HitsOn(d, r),
         NEW j \in 1 .. Len(h), NEW i, i = h[j]
  PROVE  /\ i \in 1 .. Len(R[d]) /\ R[d][i].ray = r
         /\ (i + 1 \in 1 .. Len(R[d]) /\ R[d][i + 1].ray = r) <=> j # Len(h)
         /\ j # 1 => h[j - 1] = i - 1
         /\ j = 1 => i = 1 \/ R[d][i - 1].ray # r
<1>0. MeshInv /\ R \in [Dirs -> Seq(Hits)]
  BY DEF FoundInv, MeshInv, MeshTyped
<1>1. PICK len \in Nat : len = Len(h)
  <2>1. Enumerates(h, d, r)
    BY <1>0, HitsOnIs
  <2> QED
    BY <2>1 DEF Enumerates
<1>2. /\ \A x \in 1 .. len : h[x] \in 1 .. Len(R[d]) /\ R[d][h[x]].ray = r
      /\ \A x, y \in 1 .. len : x < y => h[x] < h[y]
      /\ \A c \in 1 .. Len(R[d]) : R[d][c].ray = r => \E x \in 1 .. len : h[x] = c
  <2>1. Enumerates(h, d, r)
    BY <1>0, HitsOnIs
  <2> QED
    BY <1>1, <2>1, Zenon DEF Enumerates
<1>3. PICK m \in Nat, q \in Seq(Hits) : m = Len(R[d]) /\ q = R[d]
  BY <1>0
<1>4. ASSUME NEW x \in 1 .. m PROVE q[x].ray \in Nat
  <2>1. q[x] \in Hits
    BY <1>3
  <2> QED
    BY <2>1 DEF Hits
<1>5. ASSUME NEW x \in 1 .. len, x # len
      PROVE  h[x] + 1 \in 1 .. m /\ q[h[x] + 1].ray = r /\ h[x + 1] = h[x] + 1
  <2>1. x + 1 \in 1 .. len /\ x < x + 1
    BY <1>1, <1>5
  <2>2. PICK u \in 1 .. m, v \in 1 .. m : u = h[x] /\ v = h[x + 1] /\ u < v
                                          /\ q[u].ray = r /\ q[v].ray = r
    BY <1>2, <1>3, <2>1
  <2>3. u + 1 \in 1 .. m
    BY <1>3, <2>2
  <2>4. q[u].ray <= q[u + 1].ray /\ q[u + 1].ray <= q[v].ray
    <3>1. \A a, b \in 1 .. m : a < b => q[a].ray <= q[b].ray
      BY <1>3 DEF FoundInv, Sorted
    <3>2. u < u + 1 /\ (u + 1 = v \/ u + 1 < v)
      BY <2>2
    <3> QED
      BY <1>4, <2>2, <2>3, <3>1, <3>2
  <2>5. q[u + 1].ray = r
    <3>1. PICK a \in Nat, b \in Nat, c \in Nat : a = q[u].ray /\ b = q[u + 1].ray /\ c = q[v].ray
      BY <1>4, <2>2, <2>3
    <3>2. a = r /\ c = r /\ a <= b /\ b <= c
      BY <2>2, <2>4, <3>1
    <3> QED
      BY <3>1, <3>2
  <2>6. PICK y \in 1 .. len : h[y] = u + 1
    BY <1>2, <1>3, <2>3, <2>5
  <2>7. \A a \in 1 .. len : h[a] \in Nat
    BY <1>2, <1>3
  <2>8. ~(y <= x) /\ ~(y > x + 1)
    <3>1. y <= x => h[y] <= h[x]
      BY <1>1, <1>2, <2>7
    <3>2. y > x + 1 => h[x + 1] < h[y]
      BY <1>2, <2>1
    <3> QED
      BY <2>2, <2>6, <3>1, <3>2
  <2>9. y = x + 1
    BY <1>1, <2>8
  <2> QED
    BY <2>2, <2>3, <2>5, <2>6, <2>9
<1>6. i \in 1 .. m /\ q[i].ray = r
  BY <1>1, <1>2, <1>3
<1>7. (i + 1 \in 1 .. m /\ q[i + 1].ray = r) <=> j # len
  <2>1. ASSUME i + 1 \in 1 .. m, q[i + 1].ray = r PROVE j # len
    <3>1. PICK x \in 1 .. len : h[x] = i + 1
      BY <1>2, <1>3, <2>1
    <3>2. j \in 1 .. len /\ (x < j => h[x] < h[j]) /\ x # j
      BY <1>1, <1>2, <1>6, <3>1
    <3> QED
      BY <1>1, <1>6, <3>1, <3>2
  <2>2. j # len => i + 1 \in 1 .. m /\ q[i + 1].ray = r
    BY <1>1, <1>5
  <2> QED
    BY <2>1, <2>2
<1>8. ASSUME j # 1 PROVE h[j - 1] = i - 1
  <2>1. j - 1 \in 1 .. len /\ j - 1 # len /\ (j - 1) + 1 = j
    BY <1>1, <1>8
  <2>2. h[j] = h[j - 1] + 1
    BY <1>5, <2>1
  <2>3. h[j - 1] \in 1 .. m
    BY <1>2, <1>3, <2>1
  <2> QED
    BY <2>2, <2>3
<1>9. ASSUME j = 1, i # 1, q[i - 1].ray = r PROVE FALSE
  <2>1. i - 1 \in 1 .. m
    BY <1>3, <1>6, <1>9
  <2>2. PICK x \in 1 .. len : h[x] = i - 1
    BY <1>2, <1>3, <1>9, <2>1
  <2>3. x = 1 \/ h[1] < h[x]
    BY <1>1, <1>2, <1>9
  <2> QED
    BY <1>6, <1>9, <2>2, <2>3
<1> QED
  BY <1>1, <1>3, <1>6, <1>7, <1>8, <1>9

(* Point x of a ray is in the solid before its j-th intersection, or       *)
(* behind it if that is an entry and the last.                             *)
SolidBy(len, e, out, x, j) ==
  \/ ~out[j] /\ Slot(len, e, 64 * x, j)
  \/ out[j] /\ j = len /\ Slot(len, e, 64 * x, len + 1)

(* The points that an intersection marks are those. *)
LEMMA MarkedBy ==
  ASSUME FoundInv, Regular, Apart, phase # "cast", NEW d \in Active, NEW pt \in Points,
         NEW r, r = RayOf(d, pt), NEW h, h = HitsOn(d, r), NEW j \in 1 .. Len(h),
         ~SolidAssertionFails(d)
  PROVE  pt \in SolidAt(d, h[j]) <=> SolidBy(Len(h), EndsOn(d, h), SidesOn(d, h), pt[d], j)
<1>0. d \in Dirs /\ cfg \in Configs /\ MeshInv /\ R \in [Dirs -> Seq(Hits)]
  BY DEF FoundInv, MeshInv, MeshTyped, Active
<1>1. PICK x \in Nat : x = pt[d] /\ r \in 0 .. Rays(d) - 1 /\ x <= n[d] - 1
  <2>1. pt[d] \in 0 .. n[d] - 1 /\ n[d] \in Nat /\ r \in 0 .. Rays(d) - 1
    BY <1>0, PointOnRay, ConfigFacts
  <2> QED
    BY <2>1
<1>2. PICK m \in Nat : m = n[d] /\ x <= m - 1
  <2>1. n[d] \in Nat
    BY <1>0, ConfigFacts
  <2> QED
    BY <1>1, <2>1
<1>3. PICK len, e, out, sh : /\ len = Len(h) /\ e = EndsOn(d, h)
                             /\ out = SidesOn(d, h) /\ sh = ShapesOn(d, h)
  OBVIOUS
<1>4. PICK lo, hi : lo = Enters(d, r) /\ hi = Leaves(d, r)
  OBVIOUS
<1>5. /\ RayCut(len, e, out, sh, Met(d, r), lo, hi, Length(d))
      /\ \A c \in 1 .. len : R[d][h[c]].at = (e[c] \div 64) + (IF out[c] THEN 1 ELSE 0)
  BY <1>1, <1>3, <1>4, RayIsCut
<1>6. len \in Nat /\ \A c \in 1 .. len : e[c] \in Nat /\ out[c] \in BOOLEAN
  BY <1>5 DEF RayCut
<1>7. \A c \in 1 .. len : out[c] = R[d][h[c]].outside
  <2>1. Enumerates(h, d, r)
    BY <1>0, HitsOnIs
  <2>2. DOMAIN h = 1 .. len
    BY <1>3, <2>1 DEF Enumerates
  <2> QED
    BY <1>3, <2>2 DEF SidesOn
<1>8. PICK i \in 1 .. Len(R[d]) : i = h[j] /\ R[d][i].ray = r
  BY <1>0, HitsInRow
<1>9. PICK rec : rec = R[d][i] /\ rec.ray = r /\ rec.outside = out[j] /\ j \in 1 .. len
  BY <1>3, <1>7, <1>8
<1>10. DOMAIN R[d] = 1 .. Len(R[d])
  BY <1>0
<1>11. PICK b \in Nat : b = e[j] /\ rec.at = (b \div 64) + (IF out[j] THEN 1 ELSE 0)
  BY <1>5, <1>6, <1>8, <1>9
<1>12. CASE out[j]
  <2>1. CASE j = len
    <3>1. ~(i + 1 \in DOMAIN R[d] /\ R[d][i + 1].ray = r)
      BY <1>0, <1>3, <1>8, <1>10, <2>1, HitsInRow
    <3>2. SolidAt(d, i) = Segment(d, r, rec.at, m - 1)
      BY <1>2, <1>9, <1>12, <3>1 DEF SolidAt
    <3>3. rec.at = (b \div 64) + 1
      BY <1>11, <1>12
    <3>4. pt \in SolidAt(d, i) <=> (b \div 64) + 1 <= x /\ x <= m - 1
      <4>1. (b \div 64) + 1 \in Int /\ m - 1 \in Int
        OBVIOUS
      <4> QED
        BY <1>0, <1>1, <3>2, <3>3, <4>1, InSegment
    <3>5. (b \div 64) + 1 <= x <=> b < 64 * x
      OBVIOUS
    <3>6. Slot(len, e, 64 * x, len + 1) <=> b < 64 * x
      BY <1>6, <1>9, <1>11, <2>1 DEF Slot
    <3> QED
      BY <1>1, <1>2, <1>3, <1>8, <1>12, <2>1, <3>4, <3>5, <3>6 DEF SolidBy
  <2>2. CASE j # len
    <3>1. i + 1 \in DOMAIN R[d] /\ R[d][i + 1].ray = r
      BY <1>0, <1>3, <1>8, <1>10, <2>2, HitsInRow
    <3>2. SolidAt(d, i) = {}
      BY <1>9, <1>12, <3>1 DEF SolidAt
    <3> QED
      BY <1>3, <1>8, <1>12, <2>2, <3>2 DEF SolidBy
  <2> QED
    BY <2>1, <2>2
<1>13. CASE ~out[j]
  <2>0. rec.at = b \div 64 /\ b \div 64 \in Int
    BY <1>11, <1>13
  <2>1. CASE j = 1
    <3>1. i = 1 \/ R[d][i - 1].ray # r
      BY <1>0, <1>8, <2>1, HitsInRow
    <3>2. SolidAt(d, i) = Segment(d, r, 0, rec.at)
      <4>1. CASE i = 1
        <5>1. rec.ray = 0
          BY <1>9, <1>10, <1>13, <4>1 DEF SolidAssertionFails
        <5> QED
          BY <1>9, <1>13, <4>1, <5>1 DEF SolidAt
      <4>2. CASE i # 1
        <5>1. i > 1 /\ R[d][i - 1].ray # r
          BY <3>1, <4>2
        <5> QED
          BY <1>9, <1>13, <4>2, <5>1 DEF SolidAt
      <4> QED
        BY <4>1, <4>2
    <3>3. pt \in SolidAt(d, i) <=> 0 <= x /\ x <= b \div 64
      BY <1>0, <1>1, <2>0, <3>2, InSegment
    <3>4. x <= b \div 64 <=> 64 * x <= b
      OBVIOUS
    <3>5. Slot(len, e, 64 * x, j) <=> 64 * x <= b
      BY <1>6, <1>9, <1>11, <2>1 DEF Slot
    <3> QED
      BY <1>1, <1>3, <1>8, <1>13, <3>3, <3>4, <3>5 DEF SolidBy
  <2>2. CASE j # 1
    <3>1. j - 1 \in 1 .. len /\ j \in 2 .. len
      BY <1>6, <1>9, <2>2
    <3>2. out[j - 1]
      <4> SUFFICES ASSUME ~out[j - 1] PROVE FALSE
        OBVIOUS
      <4> QED
        BY <1>5, <1>13, <3>1, ExitsApart
    <3>3. h[j - 1] = i - 1
      BY <1>0, <1>8, <2>2, HitsInRow
    <3>4. i - 1 \in 1 .. Len(R[d]) /\ R[d][i - 1].ray = r
      BY <1>0, <1>3, <3>1, <3>3, HitsInRow
    <3>5. PICK a \in Nat : a = e[j - 1] /\ R[d][i - 1].at = (a \div 64) + 1
      BY <1>5, <1>6, <3>1, <3>2, <3>3
    <3>6. i > 1
      BY <3>4
    <3>7. SolidAt(d, i) = Segment(d, r, R[d][i - 1].at, rec.at)
      BY <1>9, <1>10, <1>13, <3>4, <3>6 DEF SolidAt
    <3>8. pt \in SolidAt(d, i) <=> (a \div 64) + 1 <= x /\ x <= b \div 64
      <4>1. (a \div 64) + 1 \in Int
        OBVIOUS
      <4> QED
        BY <1>0, <1>1, <2>0, <3>5, <3>7, <4>1, InSegment
    <3>9. (x <= b \div 64 <=> 64 * x <= b) /\ ((a \div 64) + 1 <= x <=> a < 64 * x)
      OBVIOUS
    <3>10. Slot(len, e, 64 * x, j) <=> a < 64 * x /\ 64 * x <= b
      BY <1>6, <1>9, <1>11, <2>2, <3>5 DEF Slot
    <3> QED
      BY <1>1, <1>3, <1>8, <1>13, <3>8, <3>9, <3>10 DEF SolidBy
  <2> QED
    BY <2>1, <2>2
<1> QED
  BY <1>6, <1>9, <1>12, <1>13

(* Only intersections of its own ray mark a point. *)
LEMMA MarkedOnRay ==
  ASSUME FoundInv, Regular, Apart, phase # "cast", NEW d \in Active, NEW pt \in Points,
         ~SolidAssertionFails(d), NEW i \in 1 .. Len(R[d]), pt \in SolidAt(d, i)
  PROVE  R[d][i].ray = RayOf(d, pt)
<1>0. d \in Dirs /\ cfg \in Configs /\ MeshInv /\ R \in [Dirs -> Seq(Hits)]
  BY DEF FoundInv, MeshInv, MeshTyped, Active
<1>1. PICK rec, r : rec = R[d][i] /\ r = rec.ray
  OBVIOUS
<1>2. r \in 0 .. Rays(d) - 1 /\ rec.outside \in BOOLEAN /\ rec.at \in Int
  <2>1. rec \in Hits
    <3>1. R[d] \in Seq(Hits)
      BY <1>0
    <3> QED
      BY <1>1, <3>1
  <2>2. r \in 0 .. Rays(d) - 1
    BY <1>0, <1>1, RecordFacts
  <2> QED
    BY <2>1, <2>2 DEF Hits
<1>3. DOMAIN R[d] = 1 .. Len(R[d]) /\ n[d] - 1 \in Int
  <2>1. n[d] \in Nat
    BY <1>0, ConfigFacts
  <2> QED
    BY <1>0, <2>1
<1>4. \E a, b \in Int : pt \in Segment(d, r, a, b)
  <2>1. CASE rec.outside
    <3>1. SolidAt(d, i) = Segment(d, r, rec.at, n[d] - 1) \/ SolidAt(d, i) = {}
      BY <1>1, <1>2, <2>1 DEF SolidAt
    <3> QED
      BY <1>2, <1>3, <3>1
  <2>2. CASE ~rec.outside
    <3>1. CASE i = 1
      <4>1. r = 0
        BY <1>1, <1>3, <2>2, <3>1 DEF SolidAssertionFails
      <4>2. SolidAt(d, i) = Segment(d, 0, 0, rec.at)
        BY <1>1, <1>2, <2>2, <3>1 DEF SolidAt
      <4> QED
        BY <1>2, <4>1, <4>2
    <3>2. CASE i # 1
      <4>1. i - 1 \in DOMAIN R[d] /\ i > 1
        BY <1>3, <3>2
      <4>2. R[d][i - 1].at \in Int
        <5>1. R[d] \in Seq(Hits)
          BY <1>0
        <5>2. R[d][i - 1] \in Hits
          BY <1>3, <4>1, <5>1
        <5> QED
          BY <5>2 DEF Hits
      <4>3. \/ SolidAt(d, i) = Segment(d, r, R[d][i - 1].at, rec.at)
            \/ SolidAt(d, i) = Segment(d, r, 0, rec.at)
        BY <1>1, <1>2, <2>2, <4>1 DEF SolidAt
      <4> QED
        BY <1>2, <4>2, <4>3
    <3> QED
      BY <3>1, <3>2
  <2> QED
    BY <1>2, <2>1, <2>2
<1> QED
  BY <1>0, <1>1, <1>2, <1>4, InSegment

(* A point is solid iff its slot is not fluid. *)
LEMMA SolidSlot ==
  ASSUME FoundInv, Regular, Apart, phase # "cast", NEW d \in Active, NEW pt \in Points,
         NEW r, r = RayOf(d, pt), NEW h, h = HitsOn(d, r), ~SolidAssertionFails(d),
         NEW J, Slot(Len(h), EndsOn(d, h), 64 * pt[d], J)
  PROVE  pt \in SolidOf(d) <=> ~Closes(d, h, J)
<1>0. d \in Dirs /\ cfg \in Configs /\ MeshInv /\ R \in [Dirs -> Seq(Hits)]
  BY DEF FoundInv, MeshInv, MeshTyped, Active
<1>1. r \in 0 .. Rays(d) - 1 /\ 64 * pt[d] \in Int
  BY <1>0, PointOnRay
<1>2. PICK len, e, out, sh : /\ len = Len(h) /\ e = EndsOn(d, h)
                             /\ out = SidesOn(d, h) /\ sh = ShapesOn(d, h)
  OBVIOUS
<1>3. PICK lo, hi : lo = Enters(d, r) /\ hi = Leaves(d, r)
  OBVIOUS
<1>4. RayCut(len, e, out, sh, Met(d, r), lo, hi, Length(d))
  BY <1>1, <1>2, <1>3, RayIsCut
<1>5. /\ len \in Nat /\ e \in [1 .. len -> Nat] /\ J \in 1 .. len + 1
      /\ \A a, b \in 1 .. len : a < b => e[a] < e[b]
  BY <1>2, <1>4 DEF RayCut, Slot
<1>6. Closes(d, h, J) <=> ClosedSlot(len, out, J)
  BY <1>1, <1>2, <1>5, PieceIsSlot
<1>7. \A c \in 1 .. Len(R[d]) : R[d][c].ray = r => \E x \in 1 .. len : h[x] = c
  <2>1. Enumerates(h, d, r)
    BY <1>0, HitsOnIs
  <2> QED
    BY <1>2, <2>1, Zenon DEF Enumerates
<1>8. DOMAIN R[d] = 1 .. Len(R[d])
  BY <1>0
<1>9. \A j \in 1 .. len : pt \in SolidAt(d, h[j]) <=> SolidBy(len, e, out, pt[d], j)
  BY <1>2, MarkedBy
<1>10. ASSUME pt \in SolidOf(d) PROVE ~ClosedSlot(len, out, J)
  <2>1. PICK c \in 1 .. Len(R[d]) : pt \in SolidAt(d, c)
    BY <1>8, <1>10 DEF SolidOf
  <2>2. R[d][c].ray = r
    BY <2>1, MarkedOnRay
  <2>3. PICK j \in 1 .. len : h[j] = c
    BY <1>7, <2>2
  <2>4. SolidBy(len, e, out, pt[d], j)
    BY <1>9, <2>1, <2>3
  <2>5. CASE ~out[j] /\ Slot(len, e, 64 * pt[d], j)
    <3>1. j = J
      BY <1>1, <1>2, <1>5, <2>5, SlotUnique
    <3> QED
      BY <1>5, <2>5, <3>1 DEF ClosedSlot
  <2>6. CASE out[j] /\ j = len /\ Slot(len, e, 64 * pt[d], len + 1)
    <3>1. J = len + 1
      BY <1>1, <1>2, <1>5, <2>6, SlotUnique
    <3> QED
      BY <1>5, <2>6, <3>1 DEF ClosedSlot
  <2> QED
    BY <2>4, <2>5, <2>6 DEF SolidBy
<1>11. ASSUME ~ClosedSlot(len, out, J) PROVE pt \in SolidOf(d)
  <2>1. PICK j \in 1 .. len : SolidBy(len, e, out, pt[d], j)
    <3>1. CASE J = len + 1
      <4>1. len # 0 /\ out[len]
        BY <1>11, <3>1 DEF ClosedSlot
      <4>2. len \in 1 .. len /\ Slot(len, e, 64 * pt[d], len + 1)
        BY <1>2, <1>5, <3>1, <4>1
      <4> QED
        BY <4>1, <4>2 DEF SolidBy
    <3>2. CASE J # len + 1
      <4>1. J \in 1 .. len /\ ~out[J] /\ Slot(len, e, 64 * pt[d], J)
        BY <1>2, <1>5, <1>11, <3>2 DEF ClosedSlot
      <4> QED
        BY <4>1 DEF SolidBy
    <3> QED
      BY <3>1, <3>2
  <2>2. pt \in SolidAt(d, h[j]) /\ h[j] \in DOMAIN R[d]
    <3>1. h[j] \in 1 .. Len(R[d])
      BY <1>0, <1>2, HitsInRow
    <3> QED
      BY <1>8, <1>9, <2>1, <3>1
  <2> QED
    BY <2>2 DEF SolidOf
<1> QED
  BY <1>6, <1>10, <1>11

(* The solid marks are those of the intersections, and no assertion failed *)
(* unnoticed.                                                              *)
Marked ==
  phase \in {"lines", "fluid", "done"} =>
    /\ S = [d \in Dirs |-> SolidOf(d)]
    /\ failed = {} => \A d \in Dirs : ~SolidAssertionFails(d)
(* The fluid selection is that of the highest direction. *)
Listed == phase = "done" => fluid = Gather(Slices(HighestDir))
(* What holds of a mesh whose shapes are apart, and of its selections. *)
SelectInv == PiecesInv /\ Marked /\ Listed

(* The selections are those of the shapes. *)
LEMMA InvSelects ==
  ASSUME SelectInv, Regular, Apart, Active # {}
  PROVE  SelectionsMatchShapes
<1>0. FoundInv /\ Lined
  BY DEF SelectInv, PiecesInv
<1>1. ASSUME phase = "done"
      PROVE  /\ \A i \in 2 .. Len(fluid) : fluid[i - 1] < fluid[i]
             /\ \A pt \in Points : ~OnSurface(pt) =>
                  (Flat(pt) \in {fluid[i] : i \in DOMAIN fluid}) = ~Inside(pt)
  <2>1. PICK d \in Active : d = HighestDir
    BY <1>0, FlatOnRay DEF FoundInv, MeshInv, MeshTyped
  <2>2. lines[d] = LinesOf(d) /\ phase # "cast"
    BY <1>0, <1>1 DEF Lined
  <2>3. PICK q : q = fluid /\ q = Gather(Slices(d))
    BY <1>1, <2>1 DEF SelectInv, Listed
  <2>4. /\ q \in Seq(Nat)
        /\ \A i \in 2 .. Len(q) : q[i - 1] < q[i]
        /\ \A pt \in Points : (\E i \in 1 .. Len(q) : q[i] = Flat(pt)) <=> PiecesWith(d, pt) # {}
    BY <1>0, <2>1, <2>2, <2>3, FluidGathered
  <2>5. ASSUME NEW pt \in Points, ~OnSurface(pt)
        PROVE  (Flat(pt) \in {q[i] : i \in DOMAIN q}) = ~Inside(pt)
    <3>1. PiecesWith(d, pt) # {} <=> ~Inside(pt)
      BY <1>0, <2>2, <2>5, OnPieceOutside
    <3>2. Flat(pt) \in {q[i] : i \in DOMAIN q} <=> \E i \in 1 .. Len(q) : q[i] = Flat(pt)
      BY <2>4
    <3>3. Inside(pt) \in BOOLEAN
      BY DEF Inside
    <3> QED
      BY <2>4, <3>1, <3>2, <3>3
  <2> QED
    BY <2>3, <2>4, <2>5
<1>2. ASSUME phase \in {"lines", "fluid", "done"}, failed = {},
             NEW d \in Active, NEW pt \in Points, ~OnSurface(pt)
      PROVE  (pt \in S[d]) = Inside(pt)
  <2>1. S[d] = SolidOf(d) /\ ~SolidAssertionFails(d) /\ phase # "cast"
    BY <1>2 DEF SelectInv, Marked, Active
  <2>2. PICK r, h : r = RayOf(d, pt) /\ h = HitsOn(d, RayOf(d, pt))
    OBVIOUS
  <2>3. PICK J : Slot(Len(h), EndsOn(d, h), 64 * pt[d], J)
    BY <1>0, <2>1, <2>2, PointInSlot
  <2>4. Closes(d, h, J) <=> ~Inside(pt)
    BY <1>0, <1>2, <2>1, <2>2, <2>3, SlotOutside
  <2>5. pt \in SolidOf(d) <=> ~Closes(d, h, J)
    BY <1>0, <2>1, <2>2, <2>3, SolidSlot
  <2>6. Inside(pt) \in BOOLEAN
    BY DEF Inside
  <2> QED
    BY <2>1, <2>4, <2>5, <2>6
<1> QED
  BY <1>1, <1>2 DEF SelectionsMatchShapes

(* Marks and slices depend on the intersections and the lines. *)
LEMMA SelectionsKept ==
  ASSUME cfg' = cfg
  PROVE  /\ R' = R => /\ \A d : SolidOf(d)' = SolidOf(d)
                      /\ \A d : SolidAssertionFails(d)' = SolidAssertionFails(d)
         /\ lines' = lines => Gather(Slices(HighestDir))' = Gather(Slices(HighestDir))
<1>1. ASSUME R' = R
      PROVE  /\ \A d : SolidOf(d)' = SolidOf(d)
             /\ \A d : SolidAssertionFails(d)' = SolidAssertionFails(d)
  BY <1>1 DEF SolidOf, SolidAt, Segment, At, Origin, SolidAssertionFails, n
<1>2. ASSUME lines' = lines PROVE Gather(Slices(HighestDir))' = Gather(Slices(HighestDir))
  <2>1. \A d, l : Slice(d, l)' = Slice(d, l)
    BY DEF Slice, Flat, At, Origin, n
  <2>2. HighestDir' = HighestDir
    BY DEF HighestDir, n
  <2>3. Slices(HighestDir)' = Slices(HighestDir)
    BY <1>2, <2>1, <2>2 DEF Slices
  <2> QED
    BY <2>3 DEF Gather
<1> QED
  BY <1>1, <1>2

(* Every step keeps what holds of the selections. *)
LEMMA SelectStep == ASSUME SelectInv, [Next]_vars PROVE SelectInv'
<1>0. PiecesInv'
  BY PiecesStep DEF SelectInv
<1>1. CASE Hit \/ NextRay
  <2>1. ~(phase' \in {"lines", "fluid", "done"})
    BY <1>1 DEF Hit, NextRay
  <2> QED
    BY <1>0, <2>1 DEF SelectInv, Marked, Listed
<1>2. CASE InitSolid
  <2>1. cfg' = cfg /\ R' = R /\ phase' = "lines" /\ S' = [d \in Dirs |-> SolidOf(d)]
    BY <1>2 DEF InitSolid
  <2>2. failed' = {} => \A d \in Dirs : ~SolidAssertionFails(d)
    BY <1>2 DEF InitSolid
  <2>3. Marked'
    BY <2>1, <2>2, SelectionsKept DEF Marked
  <2> QED
    BY <1>0, <2>1, <2>3 DEF SelectInv, Listed
<1>3. CASE InitLines
  <2>1. /\ cfg' = cfg /\ R' = R /\ phase = "lines" /\ phase' = "fluid" /\ S' = S
        /\ failed' = {} => failed = {}
    BY <1>3 DEF InitLines
  <2>2. Marked'
    BY <2>1, SelectionsKept DEF SelectInv, Marked
  <2> QED
    BY <1>0, <2>1, <2>2 DEF SelectInv, Listed
<1>4. CASE InitFluid
  <2>1. /\ cfg' = cfg /\ R' = R /\ lines' = lines /\ S' = S /\ failed' = failed
        /\ phase = "fluid" /\ phase' = "done" /\ fluid' = Gather(Slices(HighestDir))
    BY <1>4 DEF InitFluid
  <2>2. Marked'
    BY <2>1, SelectionsKept DEF SelectInv, Marked
  <2>3. Listed'
    BY <2>1, SelectionsKept DEF Listed
  <2> QED
    BY <1>0, <2>2, <2>3 DEF SelectInv
<1>5. CASE Built \/ UNCHANGED vars
  <2>1. /\ cfg' = cfg /\ R' = R /\ lines' = lines /\ S' = S /\ failed' = failed
        /\ phase' = phase /\ fluid' = fluid
    BY <1>5 DEF Built, vars
  <2>2. Marked'
    BY <2>1, SelectionsKept DEF SelectInv, Marked
  <2>3. Listed'
    BY <2>1, SelectionsKept DEF SelectInv, Listed
  <2> QED
    BY <1>0, <2>2, <2>3 DEF SelectInv
<1> QED
  BY <1>1, <1>2, <1>3, <1>4, <1>5 DEF Next

(* On a regular mesh whose shapes are apart, the fluid selection lists the *)
(* points outside all shapes in increasing order, and the solid marks are  *)
(* on the points inside them.                                              *)
THEOREM SelectionsStayMatched ==
  Spec => [](Regular /\ Apart /\ Active # {} => SelectionsMatchShapes)
<1>1. Init => SelectInv
  BY PiecesStart DEF Init, SelectInv, Marked, Listed
<1>2. SelectInv /\ [Next]_vars => SelectInv'
  BY SelectStep
<1>3. SelectInv => (Regular /\ Apart /\ Active # {} => SelectionsMatchShapes)
  BY InvSelects
<1> QED
  BY <1>1, <1>2, <1>3, PTL DEF Spec

-----------------------------------------------------------------------------
(* interp_line *)

(* The recursion of interp_line over the first m intersections. *)
Narrowing(f, m, d, pt, b) ==
  f = [i \in 0 .. m |-> IF i = 0 THEN b ELSE Narrow(d, pt, f[i - 1], i)]

(* It has a solution. *)
LEMMA NarrowingExists ==
  ASSUME NEW m \in Nat, NEW d, NEW pt, NEW b
  PROVE  \E f : Narrowing(f, m, d, pt, b)
<1> DEFINE Good == {l \in 0 .. m : \E f : Narrowing(f, l, d, pt, b)}
<1>1. 0 \in Good
  <2> DEFINE f == [i \in 0 .. 0 |-> b]
  <2>1. Narrowing(f, 0, d, pt, b)
    BY DEF Narrowing
  <2> QED
    BY <2>1
<1>2. ASSUME NEW l \in 0 .. m - 1, l \in Good PROVE l + 1 \in Good
  <2>1. PICK f : Narrowing(f, l, d, pt, b)
    BY <1>2
  <2>2. \A i \in 0 .. l : f[i] = IF i = 0 THEN b ELSE Narrow(d, pt, f[i - 1], i)
    BY <2>1 DEF Narrowing
  <2>3. PICK new : new = Narrow(d, pt, f[l], l + 1)
    OBVIOUS
  <2> DEFINE g == [i \in 0 .. l + 1 |-> IF i = l + 1 THEN new ELSE f[i]]
  <2>4. ASSUME NEW i \in 0 .. l + 1
        PROVE  g[i] = IF i = 0 THEN b ELSE Narrow(d, pt, g[i - 1], i)
    <3>1. CASE i = l + 1
      <4>1. g[i - 1] = f[l] /\ g[i] = new /\ i # 0
        BY <3>1
      <4> QED
        BY <2>3, <3>1, <4>1, Zenon
    <3>2. CASE i = 0
      <4>1. g[i] = f[i] /\ i \in 0 .. l
        BY <3>2
      <4> QED
        BY <2>2, <3>2, <4>1
    <3>3. CASE i \in 1 .. l
      <4>1. g[i] = f[i] /\ g[i - 1] = f[i - 1] /\ i \in 0 .. l /\ i # 0
        BY <3>3
      <4>2. f[i] = Narrow(d, pt, f[i - 1], i)
        BY <2>2, <4>1
      <4> HIDE DEF g
      <4> QED
        BY <4>1, <4>2, Zenon
    <3> QED
      BY <3>1, <3>2, <3>3
  <2>5. g = [i \in 0 .. l + 1 |-> g[i]]
    OBVIOUS
  <2> HIDE DEF g
  <2>6. g = [i \in 0 .. l + 1 |-> IF i = 0 THEN b ELSE Narrow(d, pt, g[i - 1], i)]
    BY <2>4, <2>5, Zenon
  <2>7. Narrowing(g, l + 1, d, pt, b)
    BY <2>6 DEF Narrowing
  <2> QED
    BY <2>7
<1>3. 0 .. m \subseteq Good
  <2> HIDE DEF Good
  <2> QED
    BY <1>1, <1>2, Induction
<1> QED
  BY <1>3

(* interp_line returns what is left of the whole line after all            *)
(* intersections.                                                          *)
LEMMA InterpIs ==
  ASSUME NEW d, NEW pt, NEW m \in Nat, m = Len(R[d]),
         NEW b, b = [ray |-> RayOf(d, pt), start |-> [at |-> 0, object |-> Wall],
                     end |-> [at |-> n[d] - 1, object |-> Wall]]
  PROVE  \E f : Narrowing(f, m, d, pt, b) /\ InterpLine(d, pt) = f[m]
<1> DEFINE Solves(c) ==
             c = [i \in 0 .. Len(R[d]) |->
                   IF i = 0 THEN [ray |-> RayOf(d, pt), start |-> [at |-> 0, object |-> Wall],
                                  end |-> [at |-> n[d] - 1, object |-> Wall]]
                   ELSE Narrow(d, pt, c[i - 1], i)]
           f == CHOOSE c : Solves(c)
<1>1. InterpLine(d, pt) = f[m]
  BY DEF InterpLine
<1>2. PICK c : Narrowing(c, m, d, pt, b)
  BY NarrowingExists
<1>3. Solves(c)
  BY <1>2 DEF Narrowing
<1>4. Solves(f)
  <2> HIDE DEF Solves
  <2> QED
    BY <1>3, Zenon
<1> HIDE DEF f
<1>5. Narrowing(f, m, d, pt, b)
  BY <1>4 DEF Narrowing
<1> QED
  BY <1>1, <1>5

(* Where the intersections of a ray are with respect to point x of slot J, *)
(* at which a piece is closed.                                             *)
HitPlaces(d, h, J, x, len, last) ==
  /\ \A c \in 1 .. len : R[d][h[c]].at \in Nat /\ R[d][h[c]].outside \in BOOLEAN
                         /\ R[d][h[c]].at <= last
  /\ \A c \in 1 .. len : c < J => R[d][h[c]].at < x
  /\ \A c \in 1 .. len : J <= c => x < R[d][h[c]].at
  /\ J # 1 => ~R[d][h[J - 1]].outside
  /\ J # len + 1 => R[d][h[J]].outside
  /\ \A c \in 1 .. len : c < J /\ ~R[d][h[c]].outside => R[d][h[c]].at <= R[d][h[J - 1]].at
  /\ \A c \in 1 .. len : J < c /\ R[d][h[c]].outside => R[d][h[J]].at < R[d][h[c]].at

(* No two entries of a ray are in the same cell. *)
OneEntry ==
  \A d \in Active : \A i, j \in DOMAIN R[d] :
    i # j /\ R[d][i].ray = R[d][j].ray /\ R[d][i].outside /\ R[d][j].outside =>
      R[d][i].at # R[d][j].at

(* That is where they are, if no intersection's solid point is at x. *)
LEMMA PlacesAre ==
  ASSUME FoundInv, Regular, Apart, phase # "cast", OneEntry, NEW d \in Active, NEW pt \in Points,
         NEW r, r = RayOf(d, pt), NEW h, h = HitsOn(d, r), NEW J, Closes(d, h, J),
         Slot(Len(h), EndsOn(d, h), 64 * pt[d], J),
         \A j \in DOMAIN R[d] : ~(R[d][j].ray = r /\ R[d][j].at = pt[d])
  PROVE  HitPlaces(d, h, J, pt[d], Len(h), n[d] - 1)
<1>0. d \in Dirs /\ cfg \in Configs /\ MeshInv /\ R \in [Dirs -> Seq(Hits)]
  BY DEF FoundInv, MeshInv, MeshTyped, Active
<1>1. PICK x \in Nat : x = pt[d] /\ r \in 0 .. Rays(d) - 1
  BY <1>0, PointOnRay
<1>2. PICK len, e, out, sh : /\ len = Len(h) /\ e = EndsOn(d, h)
                             /\ out = SidesOn(d, h) /\ sh = ShapesOn(d, h)
  OBVIOUS
<1>3. PICK lo, hi : lo = Enters(d, r) /\ hi = Leaves(d, r)
  OBVIOUS
<1>4. /\ RayCut(len, e, out, sh, Met(d, r), lo, hi, Length(d))
      /\ \A c \in 1 .. len : R[d][h[c]].at = (e[c] \div 64) + (IF out[c] THEN 1 ELSE 0)
  BY <1>1, <1>2, <1>3, RayIsCut
<1>5. PICK m \in Nat \ {0} : m = n[d] /\ Length(d) = 64 * (m - 1)
  BY <1>0, ConfigFacts DEF Length, Cell
<1>6. /\ len \in Nat /\ J \in 1 .. len + 1
      /\ \A c \in 1 .. len : e[c] \in Nat /\ out[c] \in BOOLEAN /\ e[c] <= 64 * (m - 1)
                             /\ (out[c] => e[c] < 64 * (m - 1))
      /\ \A a, b \in 1 .. len : a < b => e[a] < e[b]
      /\ J # 1 => e[J - 1] < 64 * x
      /\ J # len + 1 => 64 * x <= e[J]
  <2>1. PICK last : last = Length(d)
    OBVIOUS
  <2>2. RayCut(len, e, out, sh, Met(d, r), lo, hi, last)
    BY <1>4, <2>1
  <2>3. /\ len \in Nat
        /\ \A c \in 1 .. len : e[c] \in Nat /\ out[c] \in BOOLEAN /\ e[c] <= last
                               /\ (out[c] => e[c] < last)
        /\ \A a, b \in 1 .. len : a < b => e[a] < e[b]
    BY <2>2 DEF RayCut
  <2>4. Slot(len, e, 64 * x, J)
    BY <1>1, <1>2
  <2>5. J \in 1 .. len + 1 /\ (J # 1 => e[J - 1] < 64 * x) /\ (J # len + 1 => 64 * x <= e[J])
    BY <2>4 DEF Slot
  <2> QED
    BY <1>5, <2>1, <2>3, <2>5
<1>7. /\ \A c \in 1 .. len : out[c] = R[d][h[c]].outside /\ h[c] \in 1 .. Len(R[d])
                             /\ R[d][h[c]].ray = r
      /\ \A a, b \in 1 .. len : a < b => h[a] < h[b]
  <2>1. Enumerates(h, d, r)
    BY <1>0, HitsOnIs
  <2>2. /\ DOMAIN h = 1 .. len
        /\ \A c \in 1 .. len : h[c] \in 1 .. Len(R[d]) /\ R[d][h[c]].ray = r
        /\ \A a, b \in 1 .. len : a < b => h[a] < h[b]
    BY <1>2, <2>1, Zenon DEF Enumerates
  <2> QED
    BY <1>2, <2>2 DEF SidesOn
<1>8. ClosedSlot(len, out, J) /\ Left(d, h, J) # Nobody
  BY <1>1, <1>2, <1>6, PieceIsSlot
<1>9. DOMAIN R[d] = 1 .. Len(R[d])
  BY <1>0
<1>10. ASSUME NEW c \in 1 .. len
       PROVE  /\ R[d][h[c]].at \in Nat /\ R[d][h[c]].outside \in BOOLEAN /\ R[d][h[c]].at <= m - 1
              /\ R[d][h[c]].at # x
  <2>1. PICK b \in Nat, o \in BOOLEAN : /\ b = e[c] /\ o = out[c] /\ b <= 64 * (m - 1)
                                        /\ o => b < 64 * (m - 1)
    BY <1>6
  <2>2. R[d][h[c]].at = (b \div 64) + (IF o THEN 1 ELSE 0)
    BY <1>4, <2>1
  <2>3. (b \div 64) + (IF o THEN 1 ELSE 0) \in Nat /\ (b \div 64) + (IF o THEN 1 ELSE 0) <= m - 1
    <3>1. CASE o
      BY <2>1, <3>1
    <3>2. CASE ~o
      BY <2>1, <3>2
    <3> QED
      BY <3>1, <3>2
  <2>4. R[d][h[c]].at # x
    BY <1>1, <1>7, <1>9
  <2> QED
    BY <1>6, <1>7, <2>2, <2>3, <2>4
<1>11. ASSUME NEW c \in 1 .. len, c < J PROVE R[d][h[c]].at < x
  <2>1. PICK b \in Nat : b = e[c] /\ b < 64 * x
    <3>1. J # 1 /\ J - 1 \in 1 .. len /\ (c = J - 1 \/ c < J - 1)
      BY <1>6, <1>11
    <3>2. e[c] <= e[J - 1] /\ e[J - 1] < 64 * x /\ e[c] \in Nat /\ e[J - 1] \in Nat
      BY <1>6, <3>1
    <3> QED
      BY <1>1, <3>2
  <2>2. R[d][h[c]].at = b \div 64 \/ R[d][h[c]].at = (b \div 64) + 1
    <3>1. R[d][h[c]].at = (b \div 64) + 0 \/ R[d][h[c]].at = (b \div 64) + 1
      BY <1>4, <2>1
    <3> QED
      BY <2>1, <3>1
  <2>3. (b \div 64) + 1 <= x
    BY <2>1
  <2> QED
    BY <1>10, <2>1, <2>2, <2>3, SMTT(20)
<1>12. ASSUME NEW c \in 1 .. len, J <= c PROVE x < R[d][h[c]].at
  <2>1. PICK b \in Nat : b = e[c] /\ 64 * x <= b
    <3>1. J # len + 1 /\ J \in 1 .. len /\ (c = J \/ J < c)
      BY <1>6, <1>12
    <3>2. e[J] <= e[c] /\ 64 * x <= e[J] /\ e[c] \in Nat /\ e[J] \in Nat
      BY <1>6, <3>1
    <3> QED
      BY <1>1, <3>2
  <2>2. R[d][h[c]].at = b \div 64 \/ R[d][h[c]].at = (b \div 64) + 1
    <3>1. R[d][h[c]].at = (b \div 64) + 0 \/ R[d][h[c]].at = (b \div 64) + 1
      BY <1>4, <2>1
    <3> QED
      BY <2>1, <3>1
  <2>3. x <= b \div 64
    BY <2>1
  <2> QED
    BY <1>10, <2>1, <2>2, <2>3
<1>13. J # 1 => ~R[d][h[J - 1]].outside
  <2> SUFFICES ASSUME J # 1 PROVE ~R[d][h[J - 1]].outside
    OBVIOUS
  <2>1. J - 1 \in 1 .. len
    BY <1>6
  <2>2. ~out[J - 1]
    BY <1>7, <1>8, <2>1 DEF Left
  <2> QED
    BY <1>7, <2>1, <2>2
<1>14. J # len + 1 => R[d][h[J]].outside
  <2> SUFFICES ASSUME J # len + 1 PROVE R[d][h[J]].outside
    OBVIOUS
  <2>1. J \in 1 .. len /\ out[J]
    BY <1>6, <1>8 DEF ClosedSlot
  <2> QED
    BY <1>7, <2>1
<1>15. ASSUME NEW c \in 1 .. len, c < J, ~R[d][h[c]].outside
       PROVE  R[d][h[c]].at <= R[d][h[J - 1]].at
  <2>1. J # 1 /\ J - 1 \in 1 .. len /\ (c = J - 1 \/ c < J - 1)
    BY <1>6, <1>15
  <2>2. PICK b \in Nat, z \in Nat : b = e[c] /\ z = e[J - 1] /\ b <= z
    BY <1>6, <2>1
  <2>3. R[d][h[c]].at = b \div 64 /\ R[d][h[J - 1]].at = z \div 64
    <3>1. ~out[c] /\ ~out[J - 1]
      BY <1>7, <1>13, <1>15, <2>1
    <3>2. R[d][h[c]].at = (b \div 64) + 0
      BY <1>4, <1>15, <2>2, <3>1
    <3>3. R[d][h[J - 1]].at = (z \div 64) + 0
      BY <1>4, <2>1, <2>2, <3>1
    <3> QED
      BY <2>2, <3>2, <3>3
  <2>4. b \div 64 <= z \div 64
    BY <2>2
  <2> QED
    BY <2>3, <2>4
<1>16. ASSUME NEW c \in 1 .. len, J < c, R[d][h[c]].outside
       PROVE  R[d][h[J]].at < R[d][h[c]].at
  <2>1. J # len + 1 /\ J \in 1 .. len
    BY <1>6, <1>16
  <2>2. PICK b \in Nat, z \in Nat : b = e[J] /\ z = e[c] /\ b <= z
    BY <1>6, <1>16, <2>1
  <2>3. R[d][h[J]].at = (b \div 64) + 1 /\ R[d][h[c]].at = (z \div 64) + 1
    BY <1>4, <1>7, <1>14, <1>16, <2>1, <2>2
  <2>4. b \div 64 <= z \div 64
    BY <2>2
  <2>5. R[d][h[J]].at # R[d][h[c]].at
    <3>1. h[J] \in DOMAIN R[d] /\ h[c] \in DOMAIN R[d] /\ h[J] < h[c]
      BY <1>7, <1>9, <1>16, <2>1
    <3>2. h[J] # h[c]
      BY <1>9, <3>1
    <3> QED
      BY <1>7, <1>14, <1>16, <2>1, <3>1, <3>2 DEF OneEntry
  <2> QED
    BY <2>3, <2>4, <2>5
<1>17. HitPlaces(d, h, J, x, len, m - 1)
  BY <1>10, <1>11, <1>12, <1>13, <1>14, <1>15, <1>16 DEF HitPlaces
<1> QED
  BY <1>1, <1>2, <1>5, <1>17

(* What is left of the whole line after the first m intersections: its     *)
(* start X and its end Y, for a point of slot J.                           *)
Narrowed(d, h, J, len, last, m, X, Y) ==
  /\ J = 1 => X = [at |-> 0, object |-> Wall]
  /\ J # 1 /\ h[J - 1] <= m => X = [at |-> R[d][h[J - 1]].at, object |-> h[J - 1]]
  /\ J # 1 /\ m < h[J - 1] => X.at \in Nat /\ X.at <= R[d][h[J - 1]].at
  /\ J = len + 1 => Y = [at |-> last, object |-> Wall]
  /\ J # len + 1 /\ h[J] <= m => Y = [at |-> R[d][h[J]].at, object |-> h[J]]
  /\ J # len + 1 /\ m < h[J] => Y = [at |-> last, object |-> Wall]

(* That is what piece b is after them. *)
LeftOver(b, d, r, h, J, len, last, m) ==
  \E X, Y : b = [ray |-> r, start |-> X, end |-> Y] /\ Narrowed(d, h, J, len, last, m, X, Y)

(* An intersection that is neither the last exit before the point nor the  *)
(* first entry behind it changes nothing that matters, the others are      *)
(* taken.                                                                  *)
LEMMA NarrowingStep ==
  ASSUME NEW d, NEW pt, NEW r, r = RayOf(d, pt), NEW h, Enumerates(h, d, r),
         NEW len \in Nat, len = Len(h), NEW last \in Nat, NEW J \in 1 .. len + 1,
         NEW x \in Nat, x = pt[d], HitPlaces(d, h, J, x, len, last),
         Len(R[d]) \in Nat, NEW m \in 0 .. Len(R[d]) - 1,
         NEW b, LeftOver(b, d, r, h, J, len, last, m)
  PROVE  LeftOver(Narrow(d, pt, b, m + 1), d, r, h, J, len, last, m + 1)
<1>9. PICK X, Y : b = [ray |-> r, start |-> X, end |-> Y] /\ Narrowed(d, h, J, len, last, m, X, Y)
  BY DEF LeftOver
<1>0. PICK i \in Nat : i = m + 1
  OBVIOUS
<1> SUFFICES \E V, W : /\ Narrow(d, pt, b, i) = [ray |-> r, start |-> V, end |-> W]
                       /\ Narrowed(d, h, J, len, last, i, V, W)
  BY <1>0 DEF LeftOver
<1>1. PICK rec : rec = R[d][i]
  OBVIOUS
<1>2. /\ rec.ray # r => Narrow(d, pt, b, i) = b
      /\ rec.ray = r /\ ~rec.outside /\ X.at <= rec.at /\ rec.at <= x =>
           Narrow(d, pt, b, i) = [ray |-> r, start |-> [at |-> rec.at, object |-> i], end |-> Y]
      /\ rec.ray = r /\ ~rec.outside /\ ~(X.at <= rec.at /\ rec.at <= x) =>
           Narrow(d, pt, b, i) = b
      /\ rec.ray = r /\ rec.outside /\ x <= rec.at /\ rec.at <= Y.at =>
           Narrow(d, pt, b, i) = [ray |-> r, start |-> X, end |-> [at |-> rec.at, object |-> i]]
      /\ rec.ray = r /\ rec.outside /\ ~(x <= rec.at /\ rec.at <= Y.at) =>
           Narrow(d, pt, b, i) = b
  <2>1. /\ rec.ray # r => Narrow(d, pt, b, i) = b
        /\ rec.ray = r /\ ~rec.outside /\ X.at <= rec.at /\ rec.at <= pt[d] =>
             Narrow(d, pt, b, i) = [ray |-> r, start |-> [at |-> rec.at, object |-> i], end |-> Y]
        /\ rec.ray = r /\ ~rec.outside /\ ~(X.at <= rec.at /\ rec.at <= pt[d]) =>
             Narrow(d, pt, b, i) = b
        /\ rec.ray = r /\ rec.outside /\ pt[d] <= rec.at /\ rec.at <= Y.at =>
             Narrow(d, pt, b, i) = [ray |-> r, start |-> X, end |-> [at |-> rec.at, object |-> i]]
        /\ rec.ray = r /\ rec.outside /\ ~(pt[d] <= rec.at /\ rec.at <= Y.at) =>
             Narrow(d, pt, b, i) = b
    BY <1>1, <1>9 DEF Narrow
  <2> QED
    BY <2>1
<1>3. /\ \A c \in 1 .. len : h[c] \in 1 .. Len(R[d]) /\ R[d][h[c]].ray = r
      /\ \A a, c \in 1 .. len : a < c => h[a] < h[c]
      /\ rec.ray = r => \E c \in 1 .. len : h[c] = i
  <2>1. DOMAIN h = 1 .. len /\ i \in 1 .. Len(R[d])
    BY <1>0 DEF Enumerates
  <2> QED
    BY <1>1, <2>1 DEF Enumerates
<1>4. J # 1 => J - 1 \in 1 .. len /\ h[J - 1] \in Nat
  BY <1>3
<1>5. J # len + 1 => J \in 1 .. len /\ h[J] \in Nat
  BY <1>3
<1>6. m \in Nat /\ i \in Nat /\ i = m + 1
  BY <1>0
<1>7. CASE rec.ray # r
  <2>1. (J # 1 => h[J - 1] # i) /\ (J # len + 1 => h[J] # i)
    BY <1>1, <1>3, <1>4, <1>5, <1>7
  <2>2. Narrow(d, pt, b, i) = [ray |-> r, start |-> X, end |-> Y]
    BY <1>2, <1>7, <1>9
  <2>3. Narrowed(d, h, J, len, last, i, X, Y)
    BY <1>9, <1>4, <1>5, <1>6, <2>1 DEF Narrowed
  <2> QED
    BY <2>2, <2>3, <1>9
<1>8. CASE rec.ray = r
  <2>1. PICK c \in 1 .. len : h[c] = i
    BY <1>3, <1>8
  <2>2. rec = R[d][h[c]]
    BY <1>1, <2>1
  <2>3. PICK a \in Nat, o \in BOOLEAN : a = rec.at /\ o = rec.outside /\ a <= last
    BY <2>2 DEF HitPlaces
  <2>4. (c < J => a < x) /\ (J <= c => x < a)
    BY <2>2, <2>3 DEF HitPlaces
  <2>5. CASE c < J - 1
    <3>1. J # 1 /\ i < h[J - 1]
      <4>1. J # 1 /\ J - 1 \in 1 .. len
        BY <2>5
      <4> QED
        BY <1>3, <2>1, <2>5, <4>1
    <3>2. J # len + 1 => i < h[J]
      <4>1. c < J
        BY <2>5
      <4> QED
        BY <1>3, <1>5, <2>1, <4>1
    <3>3. PICK z \in Nat : z = R[d][h[J - 1]].at
      BY <1>4, <3>1 DEF HitPlaces
    <3>4. Narrowed(d, h, J, len, last, i, X, Y)
      BY <1>9, <1>4, <1>5, <1>6, <3>1, <3>2 DEF Narrowed
    <3>5. CASE o \/ ~(X.at <= a /\ a <= x)
      <4>1. Narrow(d, pt, b, i) = b
        BY <1>2, <1>8, <2>3, <2>4, <2>5, <3>5
      <4> QED
        BY <1>9, <3>4, <4>1
    <3>6. CASE ~o /\ X.at <= a /\ a <= x
      <4>1. Narrow(d, pt, b, i) = [ray |-> r, start |-> [at |-> a, object |-> i], end |-> Y]
        BY <1>2, <1>8, <2>3, <3>6
      <4>2. a <= z
        BY <2>2, <2>3, <2>5, <3>3, <3>6 DEF HitPlaces
      <4>3. PICK V : V = [at |-> a, object |-> i]
        OBVIOUS
      <4>4. V.at = a
        BY <4>3
      <4>5. Narrowed(d, h, J, len, last, i, V, Y)
        BY <1>9, <1>4, <1>5, <1>6, <3>1, <3>2, <3>3, <3>4, <4>2, <4>4 DEF Narrowed
      <4> QED
        BY <4>1, <4>3, <4>5
    <3> QED
      BY <3>5, <3>6
  <2>6. CASE c = J - 1
    <3>1. J # 1 /\ h[J - 1] = i
      BY <2>1, <2>6
    <3>2. J # len + 1 => i < h[J]
      <4>1. c < J
        BY <2>6
      <4> QED
        BY <1>3, <1>5, <2>1, <4>1
    <3>3. ~o /\ a <= x
      BY <2>2, <2>3, <2>4, <2>6, <3>1 DEF HitPlaces
    <3>4. X.at \in Nat /\ X.at <= a
      BY <1>9, <1>6, <2>2, <2>3, <2>6, <3>1 DEF Narrowed
    <3>5. PICK V : V = [at |-> a, object |-> i]
      OBVIOUS
    <3>6. Narrow(d, pt, b, i) = [ray |-> r, start |-> V, end |-> Y]
      BY <1>2, <1>8, <2>3, <3>3, <3>4, <3>5
    <3>7. Narrowed(d, h, J, len, last, i, V, Y)
      <4>1. V = [at |-> R[d][h[J - 1]].at, object |-> h[J - 1]]
        BY <2>2, <2>3, <2>6, <3>1, <3>5
      <4>2. ~(i < h[J - 1])
        BY <1>6, <3>1
      <4> QED
        BY <1>9, <1>4, <1>5, <1>6, <3>1, <3>2, <4>1, <4>2 DEF Narrowed
    <3> QED
      BY <3>6, <3>7
  <2>7. CASE c = J
    <3>1. J # len + 1 /\ h[J] = i
      BY <2>1, <2>7
    <3>2. J # 1 => h[J - 1] < i
      BY <1>3, <1>4, <2>1, <2>7
    <3>3. o /\ x <= a
      BY <2>2, <2>3, <2>4, <2>7, <3>1 DEF HitPlaces
    <3>4. Y.at = last
      <4>1. Y = [at |-> last, object |-> Wall]
        BY <1>9, <1>6, <3>1 DEF Narrowed
      <4> QED
        BY <4>1
    <3>5. PICK V : V = [at |-> a, object |-> i]
      OBVIOUS
    <3>6. Narrow(d, pt, b, i) = [ray |-> r, start |-> X, end |-> V]
      BY <1>2, <1>8, <2>3, <3>3, <3>4, <3>5
    <3>7. Narrowed(d, h, J, len, last, i, X, V)
      <4>1. V = [at |-> R[d][h[J]].at, object |-> h[J]]
        BY <2>2, <2>3, <2>7, <3>1, <3>5
      <4>2. ~(i < h[J]) /\ (J # 1 => h[J - 1] <= m /\ ~(i < h[J - 1]))
        BY <1>4, <1>6, <3>1, <3>2
      <4> QED
        BY <1>9, <1>4, <1>5, <1>6, <3>1, <3>2, <4>1, <4>2 DEF Narrowed
    <3> QED
      BY <3>6, <3>7
  <2>8. CASE J < c
    <3>1. J # len + 1 /\ h[J] < i /\ h[J] <= m
      BY <1>3, <1>5, <1>6, <2>1, <2>8
    <3>2. J # 1 => h[J - 1] < i /\ h[J - 1] <= m
      BY <1>3, <1>4, <1>6, <2>1, <2>8
    <3>3. PICK z \in Nat : z = R[d][h[J]].at
      BY <1>5, <3>1 DEF HitPlaces
    <3>4. Y.at = z
      <4>1. Y = [at |-> R[d][h[J]].at, object |-> h[J]]
        BY <1>9, <3>1 DEF Narrowed
      <4> QED
        BY <3>3, <4>1
    <3>5. o => z < a
      BY <2>2, <2>3, <2>8, <3>3 DEF HitPlaces
    <3>6. x < a
      BY <2>4, <2>8
    <3>7. Narrow(d, pt, b, i) = b
      BY <1>2, <1>8, <2>3, <3>4, <3>5, <3>6
    <3>8. Narrowed(d, h, J, len, last, i, X, Y)
      BY <1>9, <1>4, <1>5, <1>6, <3>1, <3>2 DEF Narrowed
    <3> QED
      BY <1>9, <3>7, <3>8
  <2>9. c < J - 1 \/ c = J - 1 \/ c = J \/ J < c
    OBVIOUS
  <2> QED
    BY <2>5, <2>6, <2>7, <2>8, <2>9, Zenon
<1> QED
  BY <1>0, <1>7, <1>8

(* So interp_line returns the piece of the slot of its point. *)
LEMMA InterpOnRay ==
  ASSUME MeshInv, NEW d \in Active, NEW pt, NEW r, r = RayOf(d, pt), NEW h, h = HitsOn(d, r),
         NEW J \in 1 .. Len(h) + 1, Left(d, h, J) # Nobody, NEW x \in Nat, x = pt[d],
         HitPlaces(d, h, J, x, Len(h), n[d] - 1)
  PROVE  InterpLine(d, pt) = PieceAt(d, r, h, J)
<1>0. d \in Dirs /\ cfg \in Configs
  BY DEF MeshInv, MeshTyped, Active
<1>1. Enumerates(h, d, r)
  BY <1>0, HitsOnIs
<1>2. PICK len \in Nat : len = Len(h) /\ J \in 1 .. len + 1
  BY <1>1 DEF Enumerates
<1>3. PICK last \in Nat : last = n[d] - 1
  <2>1. n[d] \in Nat \ {0}
    BY <1>0, ConfigFacts
  <2> QED
    BY <2>1
<1>4. PICK m \in Nat : m = Len(R[d])
  BY <1>0 DEF MeshInv, MeshTyped
<1>5. HitPlaces(d, h, J, x, len, last)
  BY <1>2, <1>3
<1>6. PICK b : b = [ray |-> r, start |-> [at |-> 0, object |-> Wall],
                    end |-> [at |-> last, object |-> Wall]]
  OBVIOUS
<1>7. PICK f : Narrowing(f, m, d, pt, b) /\ InterpLine(d, pt) = f[m]
  <2>1. b = [ray |-> RayOf(d, pt), start |-> [at |-> 0, object |-> Wall],
             end |-> [at |-> n[d] - 1, object |-> Wall]]
    BY <1>3, <1>6
  <2> QED
    BY <1>4, <2>1, InterpIs
<1>8. f[0] = b /\ \A i \in 1 .. m : f[i] = Narrow(d, pt, f[i - 1], i)
  <2>1. \A i \in 0 .. m : f[i] = IF i = 0 THEN b ELSE Narrow(d, pt, f[i - 1], i)
    BY <1>7 DEF Narrowing
  <2>2. f[0] = b
    BY <2>1
  <2>3. ASSUME NEW i \in 1 .. m PROVE f[i] = Narrow(d, pt, f[i - 1], i)
    <3>1. i \in 0 .. m /\ i # 0
      OBVIOUS
    <3> QED
      BY <2>1, <3>1
  <2> QED
    BY <2>2, <2>3
<1> DEFINE Good == {l \in 0 .. m : LeftOver(f[l], d, r, h, J, len, last, l)}
<1>9. 0 \in Good
  <2>1. PICK V, W : V = [at |-> 0, object |-> Wall] /\ W = [at |-> last, object |-> Wall]
    OBVIOUS
  <2>2. /\ J # 1 => ~(h[J - 1] <= 0) /\ R[d][h[J - 1]].at \in Nat
        /\ J # len + 1 => ~(h[J] <= 0)
    <3>1. \A c \in 1 .. len : ~(h[c] <= 0) /\ R[d][h[c]].at \in Nat
      BY <1>1, <1>2, <1>4, <1>5 DEF Enumerates, HitPlaces
    <3>2. (J # 1 => J - 1 \in 1 .. len) /\ (J # len + 1 => J \in 1 .. len)
      BY <1>2
    <3> QED
      BY <3>1, <3>2
  <2>3. V.at = 0
    BY <2>1
  <2>4. Narrowed(d, h, J, len, last, 0, V, W)
    BY <1>2, <2>1, <2>2, <2>3 DEF Narrowed
  <2>5. f[0] = [ray |-> r, start |-> V, end |-> W]
    BY <1>6, <1>8, <2>1
  <2> QED
    BY <2>4, <2>5 DEF LeftOver
<1>10. ASSUME NEW l \in 0 .. m - 1, l \in Good PROVE l + 1 \in Good
  <2>1. PICK c : c = f[l] /\ LeftOver(c, d, r, h, J, len, last, l)
    BY <1>10
  <2>2. f[l + 1] = Narrow(d, pt, c, l + 1)
    <3>1. l + 1 \in 1 .. m /\ (l + 1) - 1 = l
      OBVIOUS
    <3> QED
      BY <1>8, <2>1, <3>1
  <2>3. l \in 0 .. Len(R[d]) - 1 /\ Len(R[d]) \in Nat
    BY <1>4
  <2>4. LeftOver(Narrow(d, pt, c, l + 1), d, r, h, J, len, last, l + 1)
    BY <1>1, <1>2, <1>5, <2>1, <2>3, NarrowingStep
  <2>5. l + 1 \in 0 .. m
    OBVIOUS
  <2> QED
    BY <2>2, <2>4, <2>5
<1>11. m \in Good
  <2>1. 0 .. m \subseteq Good
    <3> HIDE DEF Good
    <3> QED
      BY <1>9, <1>10, Induction
  <2>2. m \in 0 .. m
    OBVIOUS
  <2> HIDE DEF Good
  <2> QED
    BY <2>1, <2>2
<1>12. PICK V, W : /\ f[m] = [ray |-> r, start |-> V, end |-> W]
                   /\ Narrowed(d, h, J, len, last, m, V, W)
  BY <1>11 DEF LeftOver
<1>13. \A c \in 1 .. len : h[c] \in 1 .. m
  BY <1>1, <1>2, <1>4 DEF Enumerates
<1>14. V = Boundary(d, Left(d, h, J), 0)
  <2>1. CASE J = 1
    <3>1. V = [at |-> 0, object |-> Wall]
      BY <1>12, <2>1 DEF Narrowed
    <3> QED
      BY <2>1, <3>1 DEF Left, Boundary
  <2>2. CASE J # 1
    <3>1. J - 1 \in 1 .. len
      BY <1>2, <2>2
    <3>2. h[J - 1] \in 1 .. m
      BY <1>13, <3>1
    <3>3. h[J - 1] <= m
      BY <3>2
    <3>4. V = [at |-> R[d][h[J - 1]].at, object |-> h[J - 1]]
      BY <1>12, <2>2, <3>3 DEF Narrowed
    <3>5. Left(d, h, J) = h[J - 1]
      BY <2>2 DEF Left
    <3>6. h[J - 1] # Wall /\ h[J - 1] # Nobody
      BY <3>2 DEF Wall, Nobody
    <3> QED
      BY <3>4, <3>5, <3>6 DEF Boundary
  <2> QED
    BY <2>1, <2>2
<1>15. W = Boundary(d, IF J > Len(h) THEN Wall ELSE h[J], n[d] - 1)
  <2>1. CASE J = len + 1
    <3>1. W = [at |-> last, object |-> Wall]
      BY <1>12, <2>1 DEF Narrowed
    <3>2. J > Len(h)
      BY <1>2, <2>1
    <3> QED
      BY <1>3, <3>1, <3>2 DEF Boundary
  <2>2. CASE J # len + 1
    <3>1. J \in 1 .. len /\ ~(J > Len(h))
      BY <1>2, <2>2
    <3>2. h[J] \in 1 .. m
      BY <1>13, <3>1
    <3>3. h[J] <= m
      BY <3>2
    <3>4. W = [at |-> R[d][h[J]].at, object |-> h[J]]
      BY <1>12, <2>2, <3>3 DEF Narrowed
    <3>5. h[J] # Wall /\ h[J] # Nobody
      BY <3>2 DEF Wall, Nobody
    <3> QED
      BY <3>1, <3>4, <3>5 DEF Boundary
  <2> QED
    BY <2>1, <2>2
<1> QED
  BY <1>7, <1>12, <1>14, <1>15 DEF PieceAt

(* interp_line finds the pieces. *)
LEMMA InvInterps == ASSUME PiecesInv, Regular, Apart, OneEntry PROVE InterpFindsPiece
<1> SUFFICES ASSUME phase \in {"fluid", "done"}, NEW d \in Active, NEW pt \in Points,
                    NEW i \in PiecesWith(d, pt),
                    \A j \in DOMAIN R[d] : ~(R[d][j].ray = RayOf(d, pt) /\ R[d][j].at = pt[d])
             PROVE  InterpLine(d, pt) = lines[d][i]
  BY DEF InterpFindsPiece
<1>1. FoundInv /\ phase # "cast" /\ lines[d] = LinesOf(d)
  BY DEF PiecesInv, Lined
<1>2. PICK r, h : r = RayOf(d, pt) /\ h = HitsOn(d, RayOf(d, pt))
  OBVIOUS
<1>3. h = HitsOn(d, r)
  BY <1>2
<1>4. PICK J : Slot(Len(h), EndsOn(d, h), 64 * pt[d], J)
  BY <1>1, <1>2, <1>3, PointInSlot
<1>5. Closes(d, h, J)
  <2> SUFFICES ASSUME ~Closes(d, h, J) PROVE FALSE
    OBVIOUS
  <2>1. PiecesWith(d, pt) = {}
    BY <1>1, <1>2, <1>3, <1>4, OnlyPiece
  <2> QED
    BY <2>1
<1>6. lines[d][i] = PieceAt(d, r, h, J)
  <2>1. PICK o : PiecesWith(d, pt) = {o} /\ lines[d][o] = PieceAt(d, r, h, J)
    BY <1>1, <1>2, <1>3, <1>4, <1>5, OnlyPiece
  <2>2. i = o
    BY <2>1
  <2> QED
    BY <2>1, <2>2
<1>7. HitPlaces(d, h, J, pt[d], Len(h), n[d] - 1)
  <2>1. \A j \in DOMAIN R[d] : ~(R[d][j].ray = r /\ R[d][j].at = pt[d])
    BY <1>2
  <2> QED
    BY <1>1, <1>2, <1>3, <1>4, <1>5, <2>1, PlacesAre
<1>8. d \in Dirs /\ cfg \in Configs /\ MeshInv
  BY <1>1 DEF FoundInv, MeshInv, MeshTyped, Active
<1>9. PICK x \in Nat : x = pt[d] /\ r \in 0 .. Rays(d) - 1
  BY <1>2, <1>8, PointOnRay
<1>10. J \in 1 .. Len(h) + 1
  BY <1>4 DEF Slot
<1>11. Left(d, h, J) # Nobody
  BY <1>1, <1>3, <1>5, <1>8, <1>9, <1>10, PieceIsSlot
<1> QED
  BY <1>2, <1>3, <1>6, <1>7, <1>8, <1>9, <1>10, <1>11, InterpOnRay

(* On a regular mesh whose shapes are apart and enter each ray in cells of *)
(* their own, interp_line finds the piece that init_line made, with the    *)
(* same objects at its ends.                                               *)
THEOREM InterpKeepsFinding == Spec => [](Regular /\ Apart /\ OneEntry => InterpFindsPiece)
<1>1. Init => PiecesInv
  BY PiecesStart
<1>2. PiecesInv /\ [Next]_vars => PiecesInv'
  BY PiecesStep
<1>3. PiecesInv => (Regular /\ Apart /\ OneEntry => InterpFindsPiece)
  BY InvInterps
<1> QED
  BY <1>1, <1>2, <1>3, PTL DEF Spec
=============================================================================
