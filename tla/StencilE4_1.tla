----------------------------- MODULE StencilE4_1 -----------------------------
(***************************************************************************)
(* First derivative of fourth order, with cut cells.  A row has free       *)
(* coefficients for the wall and the point next to it; those of the four   *)
(* points that follow take back what the two contribute, extrapolated from *)
(* these four points.                                                      *)
(***************************************************************************)
EXTENDS StencilField

P == 2
R == 5
T == 7

Query(bc) == FirstDerivativeInfo(bc, P, R, T)
Interior(h) == Scaled(1 // (12 ** h), <<1, -8, 0, 8, -1>>)

(* The constructor refuses a second parameter below 197 / 288; it is given *)
(* in 288ths.                                                              *)
Accepted(alpha) == Len(alpha) >= 2 /\ alpha[2] >= 197
Parameters(alpha) == <<Residue(alpha[1]), alpha[2] // 288>>

(* psi, here in 64ths of a cell, is kept 1/10000 away from 0 and 1. *)
Clamped(k) ==
  CASE k = 0    -> 1 // 10000
    [] k = PerCell -> 9999 // 10000
    [] OTHER    -> Cells(k)

Denominator(a, psi) ==
  a[2] ** (psi -- 1) **
    (Poly(psi, <<-1182, 1721, 8070, 5617, 1464, 162, 12>>)
       ++ (a[2] ** Poly(psi, <<1728, 1584, 864, 144>>)))

(* Polynomials in psi, linear in the first parameter. *)
WallTerm(a, psi) ==
  (Poly(psi, <<-7092, 13872, 33753, 9060, -6339, -2988, -414, -36>>)
     ++ (a[2] ** Poly(psi, <<10368, -184800, 314677, 1282709, -182437, -496397, -169230,
                             -21558, -1716>>))
     ++ (a[2] ** a[2] ** Poly(psi, <<0, 276480, 218592, -99360, -99360, -19872>>))
     ++ (a[1] ** a[2] ** Poly(psi, <<0, 0, 20394, -94806, 14166, 41670, 15876, 2484, 216>>))
     ++ (a[1] ** a[2] ** a[2] ** Poly(psi, <<0, 0, -38016, 17280, 17280, 3456>>)))
    // Denominator(a, psi)

SecondTerm(a, psi) ==
  (Poly(psi, <<-216, -288, -18, 72, 18>>)
     ++ (a[2] ** Poly(psi, <<342, -5565, -10194, 4350, 4671, 1032, 33, 3>>))
     ++ (a[2] ** a[2] ** Poly(psi, <<0, 5034, 330, 330, 66>>))
     ++ (a[1] ** a[2] ** Poly(psi, <<168, -832, -770, 274, 752, 336, 66, 6>>))
     ++ (a[1] ** a[2] ** a[2] ** Poly(psi, <<-432, -756, 540, 540, 108>>)))
    // Denominator(a, psi)

(* The value at distance psi before a point from those at 1 to 4 after it. *)
Extrapolation(psi) ==
  LET z1 == 1 ++ psi  z2 == 2 ++ psi  z3 == 3 ++ psi  z4 == 4 ++ psi
  IN  <<(z2 ** z3 ** z4) // 6, -((z1 ** z3 ** z4) // 2),
        (z1 ** z2 ** z4) // 2, -((z1 ** z2 ** z3) // 6)>>

(* Derivatives at points 0 to 4 from the values at 1 to 4, in sixths. *)
Differences == << <<-26, 57, -42, 11>>, <<-11, 18, -9, 2>>, <<-2, -3, 6, -1>>,
                  <<1, -6, 3, 2>>, <<-2, 9, -18, 11>> >>

(* The rows from their coefficients at the wall and next to it. *)
Rows(wall, next, e, e0) ==
  FlattenSeq([i \in 1 .. R |->
    <<wall[i], next[i]>>
      \o [j \in 1 .. 4 |-> (Differences[i][j] // 6) -- (wall[i] ** e[j]) -- (next[i] ** e0[j])]
      \o <<0>>])

(* Of the first four rows, one coefficient shared between the two points. *)
Shared(a, psi, wall, second) ==
  <<-((11 // 6) ++ (wall // (6 ** psi))), second -- (1 // 3), a[1] ++ (1 // 6), -1 // 3>>

LastAtWall(psi, g) ==
  (-11 -- 149 ** psi -- (6 ** (1 -- psi) ** g)) // Poly(psi, <<6, 11, 6, 1>>)
LastNextToWall(psi, wall, g) == ((149 // 6) ** psi) -- (psi ** g) ++ (wall // 6)

Closed(a, psi, wall, second) ==
  LET s == Shared(a, psi, wall, second)
      g == a[1] ++ second
  IN  Rows(Scaled(1 -- psi, s) \o <<LastAtWall(psi, g)>>,
           Scaled(psi, s) \o <<LastNextToWall(psi, wall, g)>>,
           Extrapolation(psi), Extrapolation(0))
FloatingRows(a, psi) == Closed(a, psi, WallTerm(a, psi), 4 ** SecondTerm(a, psi))
DirichletRows(a, psi) == SubSeq(FloatingRows(a, psi), T + 1, R * T)

(* Closure of a wall psi, in 64ths, away. *)
Nbs(a, h, bc, k, right) ==
  [c |-> Odd(Scaled(1 // h, ByCondition(bc, FloatingRows(a, Clamped(k)), DirichletRows(a, Clamped(k)), <<>>)), right),
   x |-> <<>>]
=============================================================================
