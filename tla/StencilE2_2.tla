---------------------------- MODULE StencilE2_2 ----------------------------
(* Second derivative of second order, with cut cells. *)
EXTENDS StencilField

P == 1
R == 2
T == 4
X == 2

Query(bc) ==
  CASE bc = "Dirichlet" -> Info(P, R - 1, T, 0)
    [] bc = "Floating"  -> Info(P, R, T, 0)
    [] bc = "Neumann"   -> Info(P, R, T, X)
QueryInterp == InterpInfo(2, 3)

InterpInterior(k) ==
  LET y == Cells(k) IN IF k > 0 THEN <<1 -- y, y>> ELSE <<-y, 1 ++ y>>

InterpWallLeft(i, y, psi) ==
  CASE i = 0 -> <<psi ** (1 -- y),
                  1 ++ (psi ** y) ++ (psi ** psi ** (y -- 1)) -- y,
                  (1 -- psi) ** ((psi ** (y -- 1)) ++ y)>>
    [] i = 1 -> <<(1 -- psi -- (psi ** y) -- y) // (1 ++ psi),
                  (1 ++ y) ** psi,
                  ((psi ++ (psi ** y) ++ y) ** (1 -- psi)) // (1 ++ psi)>>

InterpWallRight(i, y, psi) ==
  CASE i = 0 -> <<(psi ++ y ++ (psi ** y)) ** (psi -- 1),
                  1 -- (psi ** y) -- (psi ** psi ** (1 ++ y)) ++ y,
                  psi ** (1 ++ y)>>
    [] i = 1 -> <<(((psi ** (y -- 1)) ++ y) ** (psi -- 1)) // (1 ++ psi),
                  psi -- (psi ** y),
                  (1 ++ (psi ** (y -- 1)) ++ y) // (1 ++ psi)>>

InterpWall(i, y, psi, right) ==
  IF right THEN InterpWallRight(i, y, psi) ELSE InterpWallLeft(i, y, psi)

Interior(h) == Scaled(1 // (h ** h), <<1, -2, 1>>)

FloatingRows(psi) ==
  <<psi, Poly(psi, <<2, -2, -3, -1>>) // 2, Poly(psi, <<-2, 0, 2, 1>>),
    Poly(psi, <<2, 0, -1, -1>>) // 2,
    Poly(psi, <<2, 4>>) // Poly(psi, <<2, 3, 1>>), -2 ** psi,
    Poly(psi, <<-2, 0, 4>>) // (1 ++ psi), Poly(psi, <<2, 0, -2>>) // (2 ++ psi)>>

(* nbs_dirichlet repeats the second row. *)
DirichletRows(psi) == SubSeq(FloatingRows(psi), T + 1, R * T)

NeumannRows(psi) ==
  <<Poly(psi, <<-4, -8>>) // Poly(psi, <<2, 3, 1>>), 2 ** psi,
    Poly(psi, <<2, 2, -4>>) // (1 ++ psi), Poly(psi, <<0, -2, 2>>) // (2 ++ psi),
    psi, Poly(psi, <<-4, 0, 1, -1>>) // 2, Poly(psi, <<2, 0, -2, 1>>),
    Poly(psi, <<0, -2, 3, -1>>) // 2>>

(* Coefficients of the derivative at the wall. *)
NeumannExtra(psi) == <<-2, 2 ** (psi -- 1)>>

(* Closure of a wall: its rows, row after row, and its extra coefficients. *)
Nbs(h, bc, psi, right) ==
  [c |-> Even(Scaled(1 // (h ** h), ByCondition(bc, FloatingRows(psi), DirichletRows(psi), NeumannRows(psi))), right),
   x |-> IF bc = "Neumann" THEN Odd(Scaled(1 // h, NeumannExtra(psi)), right) ELSE <<>>]
=============================================================================
