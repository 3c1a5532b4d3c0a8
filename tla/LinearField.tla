---------------------------- MODULE LinearField ----------------------------
(***************************************************************************)
(* What one registry slot holds, abstracted to what the time integration   *)
(* can get wrong.  The systems that have fields (heat, scalar_wave) have   *)
(* linear right-hand sides du/dt = L u + forcing, so away from Dirichlet   *)
(* points a slot is a polynomial in z = dt L applied to the initial data;  *)
(* coef[k] is its k-th coefficient times Scale (an integer, so that the    *)
(* halves and sixths of the Runge-Kutta tableau stay exact: each step      *)
(* divides by 24 at most).  At Dirichlet points a slot holds the           *)
(* prescribed solution at the time bdy.                                    *)
(***************************************************************************)
EXTENDS Integers

CONSTANTS
  StepCap,   \* the most steps a configuration takes: bounds the degree
  Scales     \* Scales[n]: divides all coefficients after n steps

ASSUME LinearFieldAssumption ==
  /\ StepCap \in Nat
  /\ Scales \in [0 .. StepCap -> Nat \ {0}]
  /\ \A n \in 0 .. StepCap - 1 : Scales[n] = 24 * Scales[n + 1]

Scale == Scales[0]   \* common denominator of all coefficients

NoTime == -1

Degree == 4 * StepCap
Coefs == [0 .. Degree -> Int]
Field == [coef : Coefs, bdy : Nat \cup {NoTime}]

(* A freshly allocated Kokkos::View is zero; slot_zero writes zeros. *)
ZeroField == [coef |-> [k \in 0 .. Degree |-> 0], bdy |-> NoTime]

(* The initial condition, evaluated at time t everywhere. *)
InitialField(t) ==
  [coef |-> [k \in 0 .. Degree |-> IF k = 0 THEN Scale ELSE 0], bdy |-> t]

(* dt * L u: the right-hand side without its forcing, times the step size; *)
(* its Dirichlet rows are zero.                                            *)
ApplyL(u) ==
  [coef |-> [k \in 0 .. Degree |-> IF k = 0 THEN 0 ELSE u.coef[k - 1]],
   bdy |-> NoTime]

(* slot_assign_lc: dst = src + (num/den) dt rhs.  rhs is zero at Dirichlet *)
(* points, so those keep src's data.                                       *)
AssignLC(src, num, den, rhs) ==
  [src EXCEPT !.coef =
     [k \in 0 .. Degree |-> src.coef[k] + (num * rhs.coef[k]) \div den]]

(* slot_accumulate: dst += (num/den) dt src. *)
Accumulate(dst, num, den, src) == AssignLC(dst, num, den, src)

-----------------------------------------------------------------------------
(* Reference: one step of the method whose stability polynomial has the    *)
(* given coefficients over den.                                            *)

TimesOneStep(p, c, den) ==
  [k \in 0 .. Degree |->
     LET term(i) == IF i <= k THEN c[i + 1] * p[k - i] ELSE 0
     IN  (term(0) + term(1) + term(2) + term(3) + term(4)) \div den]
=============================================================================
