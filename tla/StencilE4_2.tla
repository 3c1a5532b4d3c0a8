---------------------------- MODULE StencilE4_2 ----------------------------
(* Second derivative of fourth order, with cut cells. *)
EXTENDS StencilField

P == 2
R == 3
T == 5
X == 3

Query(bc) ==
  CASE bc = "Dirichlet" -> Info(P, R - 1, T, 0)
    [] bc = "Floating"  -> Info(P, R, T, 0)
    [] bc = "Neumann"   -> Info(P, R, T, X)
QueryInterp == InterpInfo(2 * P + 1, T)

Interior(h) == Scaled(1 // (12 ** h ** h), <<-1, 16, -30, 16, -1>>)

InterpInterior(k) ==
  Scaled(1 // 24, [j \in 1 .. 5 |-> Poly(Cells(k),
    <<<<0, 2, -1, -2, 1>>, <<0, -16, 16, 4, -4>>, <<24, 0, -30, 0, 6>>,
      <<0, 16, 16, -4, -4>>, <<0, -2, -1, 2, 1>>>>[j])])

(* Numerators in psi and y of the weights at a wall, i points from it, and *)
(* their denominators.                                                     *)
LeftNumerators(i) ==
  CASE i = 0 ->
         <<<<<<>>, <<6, -11, 6, -1>>>>,
           <<<<36, -66, 36, -6>>, <<30, -6, -18, 6>>, <<-30, 103, -66, 11>>,
               <<-30, 66, -36, 6>>, <<-6, 11, -6, 1>>>>,
           <<<<0, 36, -30, 6>>, <<-36, 60, -18>>, <<6, -48, 36, -6>>,
               <<24, -55, 30, -5>>, <<6, -11, 6, -1>>>>,
           <<<<0, -18, 24, -6>>, <<18, -48, 18>>, <<6, 15, -18, 3>>,
               <<-18, 44, -24, 4>>, <<-6, 11, -6, 1>>>>,
           <<<<0, 12, -18, 6>>, <<-12, 36, -18>>, <<-6, -4, 12, -2>>,
               <<12, -33, 18, -3>>, <<6, -11, 6, -1>>>>>>
    [] i = 1 ->
         <<<<<<6, -11, 6, -1>>, <<-6, 3, 6, -3>>>>,
           <<<<>>, <<2, -1, -2, 1>>>>,
           <<<<0, 6, -5, 1>>, <<6, -5, 1>>, <<-6, 3, 6, -3>>>>,
           <<<<0, -6, 8, -2>>, <<-6, 8, -2>>, <<6, -3, -6, 3>>>>,
           <<<<0, 2, -3, 1>>, <<2, -3, 1>>, <<-2, 1, 2, -1>>>>>>
    [] OTHER ->
         <<<<<<>>, <<0, 2, -1, -2, 1>>>>,
           <<<<0, -48, 72, -24>>, <<0, -12, 6, 12, -6>>, <<0, -22, 11, 22, -11>>,
               <<0, -12, 6, 12, -6>>, <<0, -2, 1, 2, -1>>>>,
           <<<<48, -24, -48, 24>>, <<>>, <<0, 12, -6, -12, 6>>,
               <<0, 10, -5, -10, 5>>, <<0, 2, -1, -2, 1>>>>,
           <<<<0, 48, 24, -24>>, <<>>, <<0, -6, 3, 6, -3>>, <<0, -8, 4, 8, -4>>,
               <<0, -2, 1, 2, -1>>>>,
           <<<<0, -24, 0, 24>>, <<>>, <<0, 4, -2, -4, 2>>, <<0, 6, -3, -6, 3>>,
               <<0, 2, -1, -2, 1>>>>>>
LeftDenominators(i, psi) ==
  CASE i = 0 -> <<6, 36, 12, 12, 36>>
    [] i = 1 -> <<Poly(psi, <<6, 11, 6, 1>>), 2, 2 ** (1 ++ psi), 2 ** (2 ++ psi),
      2 ** (3 ++ psi)>>
    [] OTHER -> <<24, 144, 48, 48, 144>>

RightNumerators(i) ==
  CASE i = 0 ->
         <<<<<<0, -12, -18, -6>>, <<-12, -36, -18>>, <<-6, 4, 12, 2>>,
             <<12, 33, 18, 3>>, <<6, 11, 6, 1>>>>,
           <<<<0, 18, 24, 6>>, <<18, 48, 18>>, <<6, -15, -18, -3>>,
               <<-18, -44, -24, -4>>, <<-6, -11, -6, -1>>>>,
           <<<<0, -36, -30, -6>>, <<-36, -60, -18>>, <<6, 48, 36, 6>>,
               <<24, 55, 30, 5>>, <<6, 11, 6, 1>>>>,
           <<<<36, 66, 36, 6>>, <<30, 6, -18, -6>>, <<-30, -103, -66, -11>>,
               <<-30, -66, -36, -6>>, <<-6, -11, -6, -1>>>>,
           <<<<>>, <<6, 11, 6, 1>>>>>>
    [] i = 1 ->
         <<<<<<0, -2, -3, -1>>, <<2, 3, 1>>, <<-2, -1, 2, 1>>>>,
           <<<<0, 6, 8, 2>>, <<-6, -8, -2>>, <<6, 3, -6, -3>>>>,
           <<<<0, -6, -5, -1>>, <<6, 5, 1>>, <<-6, -3, 6, 3>>>>,
           <<<<>>, <<2, 1, -2, -1>>>>,
           <<<<6, 11, 6, 1>>, <<-6, -3, 6, 3>>>>>>
    [] OTHER ->
         <<<<<<0, 24, 0, -24>>, <<>>, <<0, -4, -2, 4, 2>>, <<0, -6, -3, 6, 3>>,
             <<0, -2, -1, 2, 1>>>>,
           <<<<0, -48, 24, 24>>, <<>>, <<0, 6, 3, -6, -3>>, <<0, 8, 4, -8, -4>>,
               <<0, 2, 1, -2, -1>>>>,
           <<<<48, 24, -48, -24>>, <<>>, <<0, -12, -6, 12, 6>>,
               <<0, -10, -5, 10, 5>>, <<0, -2, -1, 2, 1>>>>,
           <<<<0, 48, 72, 24>>, <<0, 12, 6, -12, -6>>, <<0, 22, 11, -22, -11>>,
               <<0, 12, 6, -12, -6>>, <<0, 2, 1, -2, -1>>>>,
           <<<<>>, <<0, -2, -1, 2, 1>>>>>>
RightDenominators(i, psi) == Reverse(LeftDenominators(i, psi))

InterpWall(i, y, psi, right) ==
  LET n == IF right THEN RightNumerators(i) ELSE LeftNumerators(i)
      d == IF right THEN RightDenominators(i, psi) ELSE LeftDenominators(i, psi)
  IN  [j \in 1 .. T |-> Poly2(psi, y, n[j]) // d[j]]

FloatingRows(psi) ==
  <<2 ** psi, Poly(psi, <<6, -3, -11, -6, -1>>) // 3, Poly(psi, <<-5, -3, 6, 5, 1>>),
    Poly(psi, <<4, 3, -3, -4, -1>>), Poly(psi, <<-3, -3, 2, 3, 1>>) // 3,
    12 // Poly(psi, <<6, 5, 1>>), -2 ** psi, Poly(psi, <<-5, 6>>),
    Poly(psi, <<8, -2, -6>>) // (2 ++ psi), Poly(psi, <<-3, 1, 2>>) // (3 ++ psi),
    -psi // 12, Poly(psi, <<72, 6, 11, 6, 1>>) // 72, Poly(psi, <<-48, 0, -6, -5,
      -1>>) // 24,
    Poly(psi, <<24, 0, 3, 4, 1>>) // 24, Poly(psi, <<0, 0, -2, -3, -1>>) // 72>>

(* Fault: the last row is left out, not the first. *)
DirichletRows_Last(psi) == SubSeq(FloatingRows(psi), 1, (R - 1) * T)

(* nbs_dirichlet repeats all rows but the first. *)
DirichletRows(psi) == SubSeq(FloatingRows(psi), T + 1, R * T)

NeumannRows(psi) ==
  <<Poly(psi, <<-21, -54, -9>>) // Poly(psi, <<6, 11, 6, 1>>), 4 ** psi,
    Poly(psi, <<8, 11, -21>>) // Poly(psi, <<2, 2>>), Poly(psi, <<-1, -8,
      9>>) // (2 ++ psi),
    Poly(psi, <<0, 5, -5>>) // Poly(psi, <<6, 2>>),
    psi, Poly(psi, <<-21, -9, 16, 3, -1>>) // 6, Poly(psi, <<8, 12, -15, -4, 1>>) // 2,
    Poly(psi, <<-1, -15, 12, 5, -1>>) // 2, Poly(psi, <<0, 12, -7, -6, 1>>) // 6>>
  \o SubSeq(FloatingRows(psi), 2 * T + 1, R * T)

NeumannExtra(psi) == <<-3, 3 ** (psi -- 1), 0>>

Nbs(h, bc, psi, right) ==
  [c |-> Even(Scaled(1 // (h ** h), ByCondition(bc, FloatingRows(psi), DirichletRows(psi), NeumannRows(psi))), right),
   x |-> IF bc = "Neumann" THEN Odd(Scaled(1 // h, NeumannExtra(psi)), right) ELSE <<>>]
=============================================================================
