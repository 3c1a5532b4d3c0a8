--------------------------- MODULE StencilUniform ---------------------------
(***************************************************************************)
(* First derivatives on uniform meshes.  In every row of a closure of      *)
(* E4u_1, E6u_1 and E8u_1 the free parameters multiply the same high       *)
(* difference, which vanishes on the polynomials the scheme is exact for;  *)
(* a row is written as a fixed row and its multiple of that difference,    *)
(* and of the difference moved by a point.                                 *)
(*                                                                         *)
(* The other E4 closures are weights of a radial basis function            *)
(* interpolant: gaussian, multiquadric and tension.  Exponentials and      *)
(* square roots are field elements with the identities the kernels need.   *)
(***************************************************************************)
EXTENDS StencilField

CONSTANT E  \* the field element that stands for exp(-1)

Entry(s, j) == IF j \in DOMAIN s THEN s[j] ELSE 0

Row(t, diff, den, base, g, moved) ==
  [j \in 1 .. t |-> (Entry(base, j) // den) ++ (g ** Entry(diff, j))
                       ++ (moved ** Entry(diff, j - 1))]

(* Fault: the last parameter is left out. *)
Combined_ButLast(a, weights, den) == FieldSum([i \in 1 .. Len(a) - 1 |-> a[i] ** weights[i]]) // den

(* The multiple of the difference that closes the last row. *)
Combined(a, weights, den) == FieldSum([i \in DOMAIN a |-> a[i] ** weights[i]]) // den

E4uParameters(alpha) == Padded(alpha, 2)
E4uQuery(bc) == FirstDerivativeInfo(bc, 2, 3, 5)
E4uInterior(h) == Scaled(1 // (12 ** h), <<1, -8, 0, 8, -1>>)
E4uRow(den, base, g) == Row(5, <<1, -4, 6, -4, 1>>, den, base, g, 0)
E4uFloatingRows(a) ==
  E4uRow(6, <<-11, 18, -9, 2>>, a[1]) \o E4uRow(6, <<-2, -3, 6, -1>>, a[2])
    \o E4uRow(138, <<11, -90, -3, 94, -12>>, Combined(a, <<-9, -28>>, 23))
E4uDirichletRows(a) == SubSeq(E4uFloatingRows(a), 6, 15)

E6uParameters(alpha) == Padded(alpha, 5)
E6uQuery(bc) == FirstDerivativeInfo(bc, 3, 5, 8)
E6uInterior(h) == Scaled(1 // (60 ** h), <<-1, 9, -45, 0, 45, -9, 1>>)
E6uRow(den, base, g, moved) == Row(8, <<1, -6, 15, -20, 15, -6, 1>>, den, base, g, moved)
E6uFloatingRows(a) ==
  E6uRow(60, <<-137, 300, -300, 200, -75, 12>>, a[1], 0)
    \o E6uRow(60, <<-12, -65, 120, -60, 20, -3>>, a[2], 0)
    \o E6uRow(60, <<3, -30, -20, 60, -15, 2>>, a[3], 0)
    \o E6uRow(60, <<-2, 15, -60, 20, 30, -3>>, a[4] ++ 6 ** a[5], a[5])
    \o E6uRow(9420, <<151, -1060, 3660, -10040, 2205, 6204, -1280, 160>>,
              Combined(a, <<-475, -1902, -1104, -1586, -9516>>, 1413),
              (-1586 // 1413) ** a[5])
E6uDirichletRows(a) == SubSeq(E6uFloatingRows(a), 9, 40)

E8uParameters(alpha) == Padded(alpha, 7)
E8uQuery(bc) == FirstDerivativeInfo(bc, 4, 7, 11)

E8uInterior(h) == Scaled(1 // (840 ** h), <<3, -32, 168, -672, 0, 672, -168, 32, -3>>)

E8uRow(den, base, g, moved) ==
  Row(11, <<1, -8, 28, -56, 70, -56, 28, -8, 1>>, den, base, g, moved)
E8uFloatingRows(a) ==
  E8uRow(420, <<-1089, 2940, -4410, 4900, -3675, 1764, -490, 60>>, a[1], 0)
    \o E8uRow(420, <<-60, -609, 1260, -1050, 700, -315, 84, -10>>, a[2], 0)
    \o E8uRow(420, <<10, -140, -329, 700, -350, 140, -35, 4>>, a[3], 0)
    \o E8uRow(420, <<-4, 42, -252, -105, 420, -126, 28, -3>>, a[4], 0)
    \o E8uRow(420, <<3, -28, 126, -420, 105, 252, -42, 4>>, a[5], 0)
    \o E8uRow(420, <<-4, 35, -140, 350, -700, 329, 140, -10>>, a[6] ++ 8 ** a[7], a[7])
    \o E8uRow(10045140, <<57730, -497028, 1933407, -4597516, 8009106, -13709052,
                          3558093, 6612108, -1681344, 350784, -36288>>,
              Combined(a, <<-36799, -176648, -54851, -177984, -89437, -130936, -1047488>>,
                       119585),
              (-130936 // 119585) ** a[7])
E8uDirichletRows(a) == SubSeq(E8uFloatingRows(a), 12, 77)

(* nbs: the closure of a wall.  None of these schemes has cut cells, so    *)
(* the distance to the wall is not used.                                   *)
Nbs(h, bc, right, floating, dirichlet) ==
  [c |-> Odd(Scaled(1 // h, ByCondition(bc, floating, dirichlet, <<>>)), right),
   x |-> <<>>]

E4uNbs(a, h, bc, right) == Nbs(h, bc, right, E4uFloatingRows(a), E4uDirichletRows(a))
E6uNbs(a, h, bc, right) == Nbs(h, bc, right, E6uFloatingRows(a), E6uDirichletRows(a))
E8uNbs(a, h, bc, right) == Nbs(h, bc, right, E8uFloatingRows(a), E8uDirichletRows(a))

-----------------------------------------------------------------------------
(* Radial basis functions *)

RbfR == 5
RbfT == 7
Points == 6       \* of the interpolant
Unknowns == Points + 4  \* with the coefficients of a cubic

RbfQuery(bc) == FirstDerivativeInfo(bc, 2, RbfR, RbfT)
RbfInterior(h) == E4uInterior(h)

Abs(k) == IF k < 0 THEN -k ELSE k
Exp(k) == Power[E, k]  \* exp(-k)
Root(a) == CHOOSE s \in 0 .. Prime - 1 : s ** s = a

(* Kernels of the distance k between two points, and their derivatives,    *)
(* for an integer shape parameter e.                                       *)
GaussianPhi(e, k) == Exp(e * e * k * k)
GaussianDPhi(e, k) == (-2 * e * e * k) ** Exp(e * e * k * k)

MultiquadricPhi(e, k) == Root(Residue(1 + e * e * k * k))
MultiquadricDPhi(e, k) == (e * e * k) // Root(Residue(1 + e * e * k * k))

(* Near zero a series. *)
TensionPhi(e, k) ==
  LET z == e * Abs(k)
  IN  IF z < 2
      THEN (1 // 2) ** Poly(Residue(z), <<0, 0, 1, -1 // 3, 1 // 12, -1 // 60, 1 // 360,
                                          -1 // 2520, 1 // 20160, -1 // 181440>>)
      ELSE (z - 1) ++ Exp(z)
TensionDPhi(e, k) ==
  LET z == e * Abs(k)
      sign == IF k > 0 THEN 1 ELSE -1
  IN  IF z < 2
      THEN (sign * e) ** Poly(Residue(z), <<0, 1, -1 // 2, 1 // 6, -1 // 24, 1 // 120,
                                            -1 // 720, 1 // 5040, -1 // 40320>>)
      ELSE (sign * e) ** (1 -- Exp(z))

Monomial(k, m) == Power[Residue(k), m]
DMonomial(k, m) == IF m = 0 THEN 0 ELSE m ** Power[Residue(k), m - 1]

(* The same sequence; TLC otherwise evaluates an entry each time it is read. *)
Evaluated(s) == SubSeq(s, 1, Len(s))

(* The augmented system: point or polynomial i against point or polynomial *)
(* j, then the derivative at the points 0 to 3.                            *)
Augmented(Phi(_, _), DPhi(_, _), e) ==
  Evaluated([i \in 1 .. Unknowns |->
    [j \in 1 .. Unknowns |->
       CASE i <= Points /\ j <= Points -> Phi(e, i - j)
         [] i <= Points /\ j > Points  -> Monomial(i - 1, j - Points - 1)
         [] i > Points /\ j <= Points  -> Monomial(j - 1, i - Points - 1)
         [] OTHER -> 0]
    \o [j \in 1 .. RbfR - 1 |-> IF i <= Points THEN DPhi(e, j - i)
                             ELSE DMonomial(j - 1, i - Points - 1)]])

(* Forward elimination of column k; any pivot that is not zero will do. *)
Eliminate(rows, k) ==
  LET pivot == CHOOSE i \in k .. Len(rows) : rows[i][k] # 0
      swapped == [rows EXCEPT ![k] = rows[pivot], ![pivot] = rows[k]]
      below(i) == LET f == swapped[i][k] // swapped[k][k]
                  IN  [j \in DOMAIN swapped[i] |-> swapped[i][j] -- (f ** swapped[k][j])]
  IN  Evaluated([i \in DOMAIN rows |-> IF i <= k THEN swapped[i] ELSE Evaluated(below(i))])

(* Back-substitution of unknown k, the ones after it known, for every      *)
(* right-hand side.                                                        *)
Substitute(rows, known, k) ==
  LET n == Len(rows)
      rest(j) == FieldSum([m \in 1 .. n - k |-> rows[k][k + m] ** known[k + m][j]])
  IN  [known EXCEPT ![k] = Evaluated(
         [j \in 1 .. Len(rows[k]) - n |-> (rows[k][n + j] -- rest(j)) // rows[k][k]])]

(* The solutions of a square system, its right-hand sides after it. *)
Solve(augmented) ==
  LET n == Len(augmented)
      rows == FoldLeft(Eliminate, augmented, [k \in 1 .. n |-> k])
  IN  FoldLeft(LAMBDA known, i : Substitute(rows, known, n + 1 - i),
               [k \in 1 .. n |-> <<>>], [i \in 1 .. n |-> i])

(* The rows kept by the constructor: weights of the six points at points   *)
(* 0 to 3, then the classical scheme at point 4.                           *)
CachedRows(w) ==
  FlattenSeq([i \in 1 .. RbfR - 1 |-> [j \in 1 .. RbfT |-> IF j <= Points THEN w[j][i] ELSE 0]])
  \o <<0, 0, 1 // 12, -2 // 3, 0, 2 // 3, -1 // 12>>

GaussianRows(e) == CachedRows(Solve(Augmented(GaussianPhi, GaussianDPhi, e)))
MultiquadricRows(e) == CachedRows(Solve(Augmented(MultiquadricPhi, MultiquadricDPhi, e)))
TensionRows(e) == CachedRows(Solve(Augmented(TensionPhi, TensionDPhi, e)))

RbfNbs(cached, h, bc, right) ==
  Nbs(h, bc, right, cached, SubSeq(cached, RbfT + 1, RbfR * RbfT))
=============================================================================
