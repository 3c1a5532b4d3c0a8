---------------------------- MODULE StencilField ----------------------------
(***************************************************************************)
(* Arithmetic of stencil coefficients.  A real number is represented by an *)
(* element of a prime field: the coefficients are rational functions, so   *)
(* an identity between them that holds over the rationals holds here, and  *)
(* one that fails is seen to fail unless the prime divides the difference. *)
(* Distances that the code compares (psi, y) are integers, PerCell to a cell. *)
(***************************************************************************)
EXTENDS Integers, Sequences, SequencesExt

Prime == 32749
PerCell == 64

a ++ b == (a + b) % Prime
a -- b == (a - b) % Prime
a ** b == ((a % Prime) * (b % Prime)) % Prime

Reciprocal[a \in 1 .. Prime - 1] ==
  IF a = 1 THEN 1 ELSE (-(Prime \div a) * Reciprocal[Prime % a]) % Prime

Residue(a) == a % Prime

a // b == (a % Prime) ** Reciprocal[b % Prime]

(* A distance in cells. *)
Cells(k) == k // PerCell

Power[a \in 0 .. Prime - 1, k \in Nat] ==
  IF k = 0 THEN 1
  ELSE Power[a ** a, k \div 2] ** (IF k % 2 = 1 THEN a ELSE 1)

FieldSum(s) == LET sum[i \in 0 .. Len(s)] == IF i = 0 THEN 0 ELSE sum[i - 1] ++ s[i] IN sum[Len(s)]

(* The polynomial with coefficients s, the constant term first. *)
Poly(z, s) ==
  LET p[i \in 0 .. Len(s)] == IF i = Len(s) THEN 0 ELSE s[i + 1] ++ (z ** p[i + 1]) IN p[0]

(* One in two variables: s[i] is the polynomial in y that goes with the    *)
(* power i - 1 of z.                                                       *)
Poly2(z, y, s) == Poly(z, [i \in DOMAIN s |-> Poly(y, s[i])])

Scaled(f, s) == [i \in DOMAIN s |-> f ** s[i]]

(* copy_zero_padded: the first n parameters, missing ones are zero. *)
Padded(s, n) == [i \in 1 .. n |-> IF i <= Len(s) THEN Residue(s[i]) ELSE 0]

(* Number of interior points on a side, rows and columns of a boundary     *)
(* closure, coefficients of boundary data.                                 *)
Info(p, r, t, x) == [p |-> p, r |-> r, t |-> t, x |-> x]
NoInfo == Info(0, 0, 0, 0)
InterpInfo(p, t) == [p |-> p, t |-> t]

(* What all first-derivative schemes answer: a Dirichlet closure has no    *)
(* row for the wall, a Neumann closure does not exist.                     *)
FirstDerivativeInfo(bc, p, r, t) ==
  CASE bc = "Dirichlet" -> Info(p, r - 1, t, 0)
    [] bc = "Floating"  -> Info(p, r, t, 0)
    [] bc = "Neumann"   -> NoInfo

(* The closure of a right wall: the operator of an odd derivative changes  *)
(* its sign, one of an even derivative does not.                           *)
Odd(c, right) == IF right THEN Reverse(Scaled(-1, c)) ELSE c
Even(c, right) == IF right THEN Reverse(c) ELSE c

(* The rows of a closure under each condition. *)
ByCondition(bc, floating, dirichlet, neumann) ==
  CASE bc = "Floating"  -> floating
    [] bc = "Dirichlet" -> dirichlet
    [] bc = "Neumann"   -> neumann
=============================================================================
