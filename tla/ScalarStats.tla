---------------------------- MODULE ScalarStats ----------------------------
(***************************************************************************)
(* compute_scalar_stats of systems/detail/scalar_system_utils.hpp and the  *)
(* test of its result in heat::valid and scalar_wave::valid: the Kokkos    *)
(* reductions that decide whether a run goes on.  Each thread reduces the  *)
(* points it is given into a value of its own that starts at the           *)
(* reduction's identity, and the threads' values are joined pairwise, in   *)
(* no fixed order.  The min/max and the max/location reductions of a       *)
(* component, separate calls in the code, run over the same division of    *)
(* the points here; neither reads the other.                               *)
(***************************************************************************)
EXTENDS Integers, FiniteSetsExt

CONSTANTS
  Threads,
  Selections,    \* possible selections: component -> the points reduced
  Values,        \* values the solution may have at a point
  Sol(_),        \* the manufactured solution at a point
  Limit          \* the largest error a valid solution has

(* IEEE values that are not real numbers; -DBL_MAX lies between the reals  *)
(* and minus infinity.                                                     *)
NaN == 9999
Inf == 1000
MaxReal == 900

ASSUME ScalarStatsAssumption ==
  /\ Threads # {} /\ IsFiniteSet(Threads)
  /\ Selections \subseteq [{"D", "Rx", "Ry", "Rz"} -> SUBSET Nat]
  /\ \A s \in Selections : \A c \in DOMAIN s : \A p \in s[c] : Sol(p) \in -100 .. 100
  /\ Values \subseteq (-100 .. 100) \cup {NaN, Inf, -Inf}
  /\ Limit \in 0 .. 100

Spaces == {"D", "Rx", "Ry", "Rz"}

VARIABLES
  sel,      \* the mesh's selections: fluid points, cut points not Dirichlet
  u,        \* the solution
  comp,     \* the component being reduced, or "none"
  left,     \* its points no thread has visited
  part,     \* thread -> the thread's partial value
  live,     \* threads whose value is not yet joined into another
  total,    \* component -> its reduced value
  stats     \* what compute_scalar_stats returned, or NoStats

statsVars == <<sel, u, comp, left, part, live, total, stats>>

Points == UNION {sel[c] : c \in Spaces}
NoPoint == -1
NoStats == [err |-> NaN, min |-> NaN, max |-> NaN, at |-> NoPoint]

Greater(a, b) == a # NaN /\ b # NaN /\ a > b
Larger(a, b) == IF Greater(b, a) THEN b ELSE a     \* std::max(a, b)
Smaller(a, b) == IF Greater(a, b) THEN b ELSE a    \* std::min(a, b)
IsReal(a) == a \in -MaxReal .. MaxReal
Magnitude(a) == IF a < 0 THEN -a ELSE a
Error(p) ==
  IF u[p] = NaN THEN NaN ELSE IF IsReal(u[p]) THEN Magnitude(u[p] - Sol(p)) ELSE Inf

-----------------------------------------------------------------------------
(* The identities of Kokkos::MinMax and Kokkos::MaxLoc. *)
Identity == [min |-> MaxReal, max |-> -MaxReal, val |-> -MaxReal, loc |-> NoPoint]

(* Fault: a new minimum is not tried as the maximum. *)
Reduce_ElseIf(c, x, p) ==
  [min |-> Smaller(x.min, u[p]),
   max |-> IF Greater(x.min, u[p]) THEN x.max ELSE Larger(x.max, u[p]),
   val |-> IF Greater(Error(p), x.val) THEN Error(p) ELSE x.val,
   loc |-> IF Greater(Error(p), x.val) THEN p ELSE x.loc]

(* The functors of the two reductions at point p. *)
Reduce(c, x, p) ==
  [min |-> Smaller(x.min, u[p]), max |-> Larger(x.max, u[p]),
   val |-> IF Greater(Error(p), x.val) THEN Error(p) ELSE x.val,
   loc |-> IF Greater(Error(p), x.val) THEN p ELSE x.loc]

Joined(x, y) ==
  [min |-> Smaller(x.min, y.min), max |-> Larger(x.max, y.max),
   val |-> IF Greater(y.val, x.val) THEN y.val ELSE x.val,
   loc |-> IF Greater(y.val, x.val) THEN y.loc ELSE x.loc]

(* Fault: the cut components are left out. *)
Linf_FluidOnly == total["D"].val

(* std::max over the components; an empty selection contributes zero. *)
Linf ==
  Larger(Larger(Larger(total["D"].val, total["Rx"].val), total["Ry"].val), total["Rz"].val)

(* The range starts from the fluid's; an empty cut selection leaves it. *)
Extremes ==
  LET all == {c \in Spaces : c = "D" \/ sel[c] # {}}
  IN  [min |-> Min({total[c].min : c \in all}), max |-> Max({total[c].max : c \in all})]

-----------------------------------------------------------------------------
Nothing == [min |-> 0, max |-> 0, val |-> 0, loc |-> 0]

(* The fluid is reduced first, then the cut components that are not empty. *)
Following(c) ==
  CASE c = "D" -> "Rx" [] c = "Rx" -> "Ry" [] c = "Ry" -> "Rz" [] OTHER -> "none"

Launch(c, s) ==
  /\ comp' = c
  /\ left' = IF c = "none" THEN {} ELSE s[c]
  /\ part' = [t \in Threads |-> Identity]
  /\ live' = Threads

StatsInit ==
  /\ sel \in Selections
  /\ u \in [Points -> Values]
  /\ comp = "D" /\ left = sel["D"]
  /\ part = [t \in Threads |-> Identity]
  /\ live = Threads
  /\ total = [c \in Spaces |-> Nothing]
  /\ stats = NoStats

Visit(t, p) ==
  /\ p \in left
  /\ part' = [part EXCEPT ![t] = Reduce(comp, @, p)]
  /\ left' = left \ {p}
  /\ UNCHANGED <<sel, u, comp, live, total, stats>>

Join(s, t) ==
  /\ comp # "none" /\ sel[comp] # {} /\ left = {}
  /\ s \in live /\ t \in live /\ s # t
  /\ part' = [part EXCEPT ![s] = Joined(@, part[t]), ![t] = Identity]
  /\ live' = live \ {t}
  /\ UNCHANGED <<sel, u, comp, left, total, stats>>

Finish(t) ==
  /\ comp # "none" /\ sel[comp] # {} /\ live = {t} /\ left = {}
  /\ total' = [total EXCEPT ![comp] = part[t]]
  /\ Launch(Following(comp), sel)
  /\ UNCHANGED <<sel, u, stats>>

SkipEmpty ==
  /\ comp # "none" /\ sel[comp] = {}
  /\ Launch(Following(comp), sel)
  /\ UNCHANGED <<sel, u, total, stats>>

Combine ==
  /\ comp = "none" /\ stats = NoStats
  /\ stats' = [err |-> Linf, min |-> Extremes.min, max |-> Extremes.max,
               at |-> total["D"].loc]
  /\ UNCHANGED <<sel, u, comp, left, part, live, total>>

Known == stats # NoStats /\ UNCHANGED statsVars

StatsNext ==
  \/ \E t \in Threads, p \in Points : Visit(t, p)
  \/ \E s, t \in Threads : Join(s, t)
  \/ \E t \in Threads : Finish(t)
  \/ SkipEmpty \/ Combine \/ Known

StatsSpec == StatsInit /\ [][StatsNext]_statsVars

(* heat::valid, scalar_wave::valid. *)
Valid == IsReal(stats.err) /\ Magnitude(stats.err) <= Limit

-----------------------------------------------------------------------------
(* However the points were divided among threads and the partial values    *)
(* joined: the error of the statistics is the largest over the fluid and   *)
(* the cut points and its location a fluid point of the largest fluid      *)
(* error, as long as every point is a number; the range is that of the     *)
(* numbers among the values of the solution, if it is finite and there are *)
(* any in the fluid.                                                       *)
StatsExact ==
  LET numbers(c) == {u[p] : p \in sel[c]} \ {NaN}
      all == UNION {numbers(c) : c \in Spaces}
  IN
  stats # NoStats =>
    /\ (\A p \in Points : u[p] # NaN) =>
         /\ stats.err = Max({0} \cup {Error(p) : p \in Points})
         /\ sel["D"] # {} =>
              stats.at \in {p \in sel["D"] : \A q \in sel["D"] : Error(q) <= Error(p)}
    /\ (numbers("D") # {} /\ all \cap {Inf, -Inf} = {}) =>
         stats.min = Min(all) /\ stats.max = Max(all)

(* A solution that is infinite or too far off at any point, next to any    *)
(* other values, NaN included, ends the run.                               *)
UnboundedStopsRun ==
  stats # NoStats =>
    ((\E p \in Points : Error(p) # NaN /\ Error(p) > Limit) => ~Valid)

=============================================================================
