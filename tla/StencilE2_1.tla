----------------------------- MODULE StencilE2_1 -----------------------------
(***************************************************************************)
(* First derivatives of second order, with cut cells.  E2_1 has four free  *)
(* parameters: at psi = 0 and 1 its rows are uniform closures moved by a   *)
(* point; in between they are blended, and the last row, given in closed   *)
(* form, completes the closure.  Of polyE2_1 the free coefficients of the  *)
(* closures and of the interpolant are given.                              *)
(***************************************************************************)
EXTENDS StencilField

E2_2 == INSTANCE StencilE2_2

P == 1
R == 4
T == 5

Query(bc) == FirstDerivativeInfo(bc, P, R, T)
QueryInterp == InterpInfo(2, 3)

(* Parameters of the first and the second uniform row; what they leave for *)
(* the wall and for the point next to it.                                  *)
Parameters(alpha) == LET a == Padded(alpha, 4) IN [a |-> <<a[1], a[3]>>, b |-> <<a[2], a[4]>>]
AtWall(s) == s[1] ++ 2 ** s[2] -- 1
NextToWall(s) == 1 -- 2 ** s[1] -- 3 ** s[2]

InterpInterior(k) == E2_2!InterpInterior(k)
InterpWall(i, y, psi, right) == E2_2!InterpWall(i, y, psi, right)

Interior(h) == Scaled(1 // (2 ** h), <<-1, 0, 1>>)

Blend(psi, s, t) == [j \in DOMAIN s |-> ((1 -- psi) ** s[j]) ++ (psi ** t[j])]
Plus(s, f, t) == [j \in DOMAIN s |-> s[j] ++ (f ** t[j])]

(* The variables in which the last row is written. *)
Variables(p, psi) ==
  [u |-> AtWall(p.a), w |-> 3 ** p.a[1] ++ 2 ** p.a[2] -- 1, U |-> AtWall(p.b),
   z |-> 2 ** p.b[1] ++ 6 ** p.b[2] -- 3, psi |-> psi]

(* Sums of terms <<i, j, k, s>>, a polynomial s in u and psi times powers   *)
(* of the other variables.                                                 *)
Sum(v, terms) ==
  FieldSum([m \in DOMAIN terms |->
    Power[v.w, terms[m][1]] ** Power[v.U, terms[m][2]] ** Power[v.z, terms[m][3]]
      ** Poly2(v.u, v.psi, terms[m][4])])

DeterminantTerms ==
  <<<<0, 0, 1, <<<<>>, <<>>, <<0, 0, -32, 32>>, <<0, 0, -80, 80>>>>>>,
    <<0, 0, 2, <<<<>>, <<16, -32, 16>>, <<80, -144, 48, 16>>, <<100, -160, 20, 40>>>>>>,
    <<0, 1, 1, <<<<>>, <<0, 0, 0, -64>>, <<0, 0, 0, -160>>>>>>,
    <<0, 1, 2, <<<<0, 32, -32>>, <<0, 160, -128, -32>>, <<0, 200, -120, -80>>>>>>,
    <<1, 0, 0, <<<<>>, <<>>, <<0, 0, -16, 16>>>>>>,
    <<1, 0, 1, <<<<>>, <<16, -24, 8>>, <<40, -52, 4, 8>>>>>>,
    <<1, 1, 0, <<<<>>, <<0, -44, 16, 12, 16>>, <<0, -110, -4, 86, 28>>>>>>,
    <<1, 1, 1, <<<<0, 32, -24, -8>>, <<0, 80, -44, -44, -8>>>>>>,
    <<1, 2, 0, <<<<0, 0, -16, 16>>, <<0, 0, -40, 24, 16>>>>>>,
    <<2, 0, 0, <<<<>>, <<4, -4>>>>>>,
    <<2, 1, 0, <<<<0, 8, -4, -4>>, <<0, 10, 4, -10, -4>>>>>>>>

NumeratorTerms ==
  <<<<0, 0, 2, <<<<>>, <<0, -16, 32, -16>>, <<0, -80, 160, -80>>, <<0, -100, 200, -100>>>>>>,
    <<0, 1, 1, <<<<>>, <<0, 64, -128, 64>>, <<0, 320, -640, 320>>, <<0, 400, -800, 400>>>>>>,
    <<0, 1, 2, <<<<0, 0, -32, 32>>, <<0, 0, -160, 160>>, <<0, 0, -200, 200>>>>>>,
    <<0, 2, 1, <<<<0, 0, 128, -128>>, <<0, 0, 640, -640>>, <<0, 0, 800, -800>>>>>>,
    <<1, 0, 1, <<<<>>, <<0, -16, 40, -24>>, <<0, -40, 100, -60>>>>>>,
    <<1, 0, 2, <<<<>>, <<0, -8, 16, -8>>, <<0, -20, 40, -20>>>>>>,
    <<1, 1, 0, <<<<>>, <<0, 32, -84, 48, 4>>, <<0, 80, -210, 120, 10>>>>>>,
    <<1, 1, 1, <<<<0, 0, -32, 40, -8>>, <<16, -32, -64, 100, -20>>, <<40, -80, 40>>>>>>,
    <<1, 1, 2, <<<<0, 0, -16, 16>>, <<0, 0, -40, 40>>>>>>,
    <<1, 2, 0, <<<<0, 0, 64, -80, 16>>, <<0, 0, 160, -200, 40>>>>>>,
    <<1, 2, 1, <<<<0, 32, -32>>, <<0, 80, -80>>>>>>,
    <<2, 0, 0, <<<<>>, <<0, -4, 12, -8>>>>>>,
    <<2, 0, 1, <<<<>>, <<0, -4, 8, -4>>>>>>,
    <<2, 1, 0, <<<<0, 0, -8, 12, -4>>, <<8, -32, 28, 0, -4>>>>>>,
    <<2, 1, 1, <<<<0, 0, -12, 8, 4>>>>>>,
    <<2, 2, 0, <<<<0, 16, -24, 16, -8>>>>>>,
    <<3, 1, 0, <<<<0, 0, -2, 0, 2>>>>>>>>

(* f and g are the shares of the two functions that make up the row.      *)
Share(v) == Sum(v, NumeratorTerms) // Sum(v, DeterminantTerms)
ClosingRow(f, g) ==
  <<0, (3 ** f) // 2 ++ g -- 1, 1 -- 3 ** f -- (3 ** g) // 2, (3 ** f) // 2, g // 2>>

(* The code sums the second numerator apart; the two add up to the         *)
(* determinant.                                                            *)
OtherShare(f) == 1 -- f
LastRow(v) == LET f == Share(v) IN ClosingRow(f, OtherShare(f))

FirstRow(p, psi) ==
  Blend(psi, <<AtWall(p.a), 0, NextToWall(p.a)>> \o p.a,
             <<AtWall(p.a), NextToWall(p.a)>> \o p.a \o <<0>>)

SecondRow(p, psi) ==
  Plus(Blend(psi, <<AtWall(p.a), 0, NextToWall(p.a)>> \o p.a,
                  <<AtWall(p.b), NextToWall(p.b)>> \o p.b \o <<0>>),
       (psi ** (1 -- psi) ** (AtWall(p.a) -- AtWall(p.b))) // (1 ++ psi), <<-1, 0, 1, 0, 0>>)

ThirdRow(v, p, psi) ==
  Plus(Blend(psi, <<0, AtWall(p.b), NextToWall(p.b)>> \o p.b, <<0, -1 // 2, 0, 1 // 2, 0>>),
       (psi ** v.w ** v.U) // (2 ** v.z ++ v.w ++ 5 ** v.u ** v.z),
       <<1, -(2 ++ psi), 2 ++ psi, -1, 0>>)

FloatingRows(p, psi) ==
  LET v == Variables(p, psi)
  IN  FirstRow(p, psi) \o SecondRow(p, psi) \o ThirdRow(v, p, psi) \o LastRow(v)

(* The Dirichlet closure has no row for the wall.  The code has it in full, *)
(* a second determinant with its two numerators included.                  *)
DirichletDeterminant(v) == Sum(v, DeterminantTerms)
DirichletOtherShare(f) == 1 -- f
DirichletShare(v) == Sum(v, NumeratorTerms) // DirichletDeterminant(v)
DirichletRows(p, psi) ==
  LET v == Variables(p, psi)
      f == DirichletShare(v)
  IN  SecondRow(p, psi) \o ThirdRow(v, p, psi) \o ClosingRow(f, DirichletOtherShare(f))

Nbs(p, h, bc, psi, right) ==
  [c |-> Odd(Scaled(1 // h, ByCondition(bc, FloatingRows(p, psi), DirichletRows(p, psi), <<>>)), right),
   x |-> <<>>]

-----------------------------------------------------------------------------
(* polyE2_1 *)

PolyR == 3
PolyT == 4

PolyQuery(bc) == FirstDerivativeInfo(bc, P, PolyR, PolyT)
PolyQueryInterp == InterpInfo(2, 4)

PolyParameters(floating, dirichlet, interpolant) ==
  [fa |-> Padded(floating, 6), da |-> Padded(dirichlet, 3), ia |-> Padded(interpolant, 4)]

PolyInterpInterior(k) == InterpInterior(k)

PolyInterpWall(a, i, y, psi, right) ==
  LET g == (a.fa[2 * i + 1] ** y) ++ a.ia[2 * i + 1]
      k == (a.fa[2 * i + 2] ** y) ++ a.ia[2 * i + 2]
      e == IF i = 0 THEN psi ELSE 0
      z == IF right THEN y ELSE -y
      c == <<(1 ++ e ++ z ++ k) // (2 ++ 2 ** psi),
             (1 ++ e ++ z ++ g) // 2,
             (((psi -- e -- z -- ((2 ++ psi) ** k)) // (1 ++ psi)) -- e -- z -- 2 ** g) // 2,
             (g ++ k) // 2>>
  IN  IF right THEN Reverse(c) ELSE c

PolyInterior(h) == Interior(h)

(* A row with its two free coefficients. *)
ClosureRow(a, b, psi) ==
  LET w == (b -- 1) // (2 ++ 2 ** psi)
  IN  <<w, (a -- 1) // 2, -a -- ((2 ++ psi) ** w), (a ++ b) // 2>>

PolyFloatingRows(a, psi) ==
  ClosureRow(a.fa[1], a.fa[2], psi) \o ClosureRow(a.fa[3], a.fa[4], psi)
    \o ClosureRow(a.fa[5], a.fa[6], psi)

PolyDirichletRows(a, psi) ==
  LET one == 1 ++ 2 ** psi
      three == 3 ++ 2 ** psi
      first == ((one ** a.da[2]) ++ (three ** (a.da[3] ++ (a.da[2] ** a.da[1]) -- a.da[1])))
                 // (one ++ (three ** a.da[3]))
  IN  ClosureRow(first, a.da[1], psi) \o ClosureRow(a.da[2], a.da[3], psi)

PolyNbs(a, h, bc, psi, right) ==
  [c |-> Odd(Scaled(1 // h, ByCondition(bc, PolyFloatingRows(a, psi), PolyDirichletRows(a, psi), <<>>)), right),
   x |-> <<>>]
=============================================================================
