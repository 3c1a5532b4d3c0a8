---------------------------- MODULE ScalarSystem ----------------------------
(***************************************************************************)
(* The scalar systems, heat (dT/dt = k lap T with a manufactured source)   *)
(* and scalar_wave (dS/dt = -grad G . grad S), on a mesh that MeshLines    *)
(* builds and with the operators that DerivativeAssembly assembles: the    *)
(* constructor, initialize, update_boundary, rhs and write, called as      *)
(* simulation_cycle and euler call them.                                   *)
(*                                                                         *)
(* Reals are elements of StencilField.  What a solution is evaluates to,   *)
(* the square root in length and the sine in solution_at are parameters.   *)
(***************************************************************************)
EXTENDS DerivativeAssembly, Selections

CONSTANTS
  Systems(_),            \* the systems to construct on a mesh
  MaxSteps,              \* bound on the time steps taken
  Value(_, _, _), Ddt(_, _, _), Gradient(_, _, _), Laplacian(_, _, _),
                         \* heat's manufactured solution at a time and a place
  Distance(_, _),        \* length(location - center)
  Profile(_),            \* sin(2 pi x)
  Equation(_, _, _)      \* the exact time derivative that rhs is to have

(* Time steps are elements of the field. *)
ASSUME SystemAssumption == \A c \in Configs : \A s \in Systems(c) : s.dt \in Int

VARIABLES
  sys,      \* kind, diffusivity or center and radius, conditions, stencil
  pc,       \* what is called next
  asm,      \* the derivatives in x, y and z
  step,     \* steps taken
  u0, u1, rhs,   \* the slots of the solution and of the right-hand side
  nu,       \* heat: Neumann data at the grid points
  gG,       \* scalar_wave: the coefficients of its equation
  shown     \* the fields handed to the output

sysVars == <<sys, pc, asm, step, u0, u1, rhs, nu, gG, shown>>
allSysVars == <<allVars, sysVars>>

-----------------------------------------------------------------------------
(* Fields: values at the grid points and at the points of each R. *)

Constant(v) == [D |-> [x \in 0 .. Size - 1 |-> v],
                R |-> [r \in Dirs |-> [i \in DOMAIN R[r] |-> v]]]
Nowhere == [D |-> <<>>, R |-> <<>>]

(* The flat loop of eval_at_locations takes its index apart again. *)
Location(x) ==
  LET i == x \div (n[1] * n[2])
      j == (x \div n[2]) % n[1]
      l == x % n[2]
  IN  [e \in Dirs |-> Spacing[e] ** <<i, j, l>>[e + 1]]

Places == {Location(x) : x \in 0 .. Size - 1}
            \cup UNION {{RPosition(r, R[r][i]) : i \in DOMAIN R[r]} : r \in Dirs}

(* f is a function of the place. *)
EvalAtLocations(f) ==
  [D |-> [x \in 0 .. Size - 1 |-> f[Location(x)]],
   R |-> [r \in Dirs |-> [i \in DOMAIN R[r] |-> f[RPosition(r, R[r][i])]]]]

(* a + c * b, point by point. *)
Combined(a, c, b) ==
  [D |-> [x \in DOMAIN a.D |-> a.D[x] ++ (c ** b.D[x])],
   R |-> [r \in Dirs |-> [i \in DOMAIN a.R[r] |-> a.R[r][i] ++ (c ** b.R[r][i])]]]
Product(a, b) ==
  [D |-> [x \in DOMAIN a.D |-> a.D[x] ** b.D[x]],
   R |-> [r \in Dirs |-> [i \in DOMAIN a.R[r] |-> a.R[r][i] ** b.R[r][i]]]]

-----------------------------------------------------------------------------
(* What the conditions select. *)

ObjectCondition(info) == sys.obj[info.shape]
DirichletObjects(r) ==
  GatherFromPredicate(R[r], {m \in Elements(R[r]) : ObjectCondition(m) = "Dirichlet"})
OtherObjects(r) ==
  GatherFromPredicate(R[r], {m \in Elements(R[r]) : ObjectCondition(m) # "Dirichlet"})
DirichletFaces == GridFaces("Dirichlet", sys.grid, n)

(* Dirichlet points take the values of src. *)
WithBoundary(u, src) ==
  [D |-> AssignFaces(u.D, DirichletFaces, src.D),
   R |-> [r \in Dirs |-> AssignSelected(u.R[r], DirichletObjects(r), src.R[r])]]

(* Dirichlet points are zero. *)
ZeroBoundary(u) ==
  [D |-> FillFaces(u.D, DirichletFaces, 0),
   R |-> [r \in Dirs |-> FillSelected(u.R[r], DirichletObjects(r), 0)]]

-----------------------------------------------------------------------------
(* The solution at time t, wherever the code evaluates it. *)

NegG(e, pos) == (-(pos[e] - sys.center[e])) // Distance(sys, pos)
SolutionAt(t, pos) == Profile(Distance(sys, pos) -- sys.radius -- t)

WaveSolution(t) == EvalAtLocations([pos \in Places |-> SolutionAt(t, pos)])
HeatSolution(t) == EvalAtLocations([pos \in Places |-> Value(sys, t, pos)])
Solution(t) == IF sys.kind = "heat" THEN HeatSolution(t) ELSE WaveSolution(t)

Source(t) ==
  EvalAtLocations([pos \in Places |-> Ddt(sys, t, pos) -- (sys.k ** Laplacian(sys, t, pos))])

(* Only directions of some extent are differentiated. *)
LaplacianOf(u) ==
  FoldLeft(LAMBDA sum, a : IF n[a.d] > 1 THEN Combined(sum, 1, Derivative(a, u.D, u.R, nu)) ELSE sum,
           Constant(0), asm)
GradientOf(u) ==
  [d \in Dirs |-> IF n[d] > 1 THEN Derivative(asm[d + 1], u.D, u.R, Constant(0).D) ELSE Constant(0)]

(* Fault: the source is added at every grid point. *)
WithSource_Everywhere(f, src) ==
  [D |-> Combined(f, 1, src).D,
   R |-> [r \in Dirs |-> PlusAssignSelected(f.R[r], OtherObjects(r), src.R[r])]]

(* The source enters at fluid points and at points on objects that are not *)
(* given.                                                                  *)
WithSource(f, src) ==
  [D |-> PlusAssignSelected(f.D, fluid, src.D),
   R |-> [r \in Dirs |-> PlusAssignSelected(f.R[r], OtherObjects(r), src.R[r])]]

Scale(u, v) == [D |-> TimesAssign(u.D, v), R |-> [r \in Dirs |-> TimesAssign(u.R[r], v)]]

HeatRhs(u, t) == ZeroBoundary(WithSource(Scale(LaplacianOf(u), sys.k), Source(t)))

WaveRhs(u) ==
  LET slopes == GradientOf(u)
  IN  FoldLeft(LAMBDA sum, d : Combined(sum, 1, Product(gG[d], slopes[d])), Constant(0), <<0, 1, 2>>)

Rhs(u, t) == IF sys.kind = "heat" THEN HeatRhs(u, t) ELSE WaveRhs(u)

(* neg_G_at, zero at the points that Dirichlet conditions give. *)
Coefficients == [d \in Dirs |-> ZeroBoundary(EvalAtLocations([pos \in Places |-> NegG(d, pos)]))]

(* update_boundary: what it does to the Neumann data.  Faces of all        *)
(* directions share one buffer; a later one overwrites an earlier one.     *)
NeumannData(t) ==
  LET of(d) == EvalAtLocations([pos \in Places |-> Gradient(sys, t, pos)[d]]).D
      only(d) == [e \in Dirs |-> IF e = d THEN sys.grid[d] ELSE [left |-> "none", right |-> "none"]]
  IN  FoldLeft(LAMBDA v, d : AssignFaces(v, GridFaces("Neumann", only(d), n), of(d)),
               nu, <<0, 1, 2>>)

(* initialize_scalar_field *)
InitialField(src) == [D |-> AssignSelected(Constant(0).D, fluid, src.D), R |-> src.R]

(* Fault: the error is taken at every grid point. *)
ErrorField_Everywhere(u, src) == ZeroBoundary(Combined(u, -1, src))

(* write_scalar_error; the magnitude of an error is not looked at. *)
ErrorField(u, src) ==
  LET e == Combined(u, -1, src)
  IN  ZeroBoundary([D |-> AssignSelected(Constant(0).D, fluid, e.D),
                    R |-> [r \in Dirs |-> AssignSelected(Constant(0).R[r], OtherObjects(r), e.R[r])]])

-----------------------------------------------------------------------------
NoSystem == [kind |-> "none"]
Now == step ** sys.dt

SysInit ==
  /\ AsmInit
  /\ sys = NoSystem /\ pc = "mesh" /\ asm = <<>> /\ step = 0
  /\ u0 = Nowhere /\ u1 = Nowhere /\ rhs = Nowhere /\ nu = <<>> /\ gG = <<>>
  /\ shown = <<>>

SysBuildMesh == pc = "mesh" /\ BuildMesh /\ UNCHANGED sysVars

BeginDerivative(s, d) ==
  /\ op' = [d |-> d, st |-> s.st, order |-> s.order, grid |-> s.grid, obj |-> s.obj]
  /\ stage' = IF n[d] < 2 THEN "built" ELSE "domain"
  /\ next' = 1
  /\ O' = <<>> /\ B' = <<>> /\ N' = <<>> /\ cut' = [r \in Dirs |-> NoMatrix]

ConstructSystem(s) ==
  /\ pc = "mesh" /\ phase = "done"
  /\ sys' = s /\ pc' = "operators"
  /\ BeginDerivative(s, 0)
  /\ UNCHANGED <<vars, poly, du, asm, step, u0, u1, rhs, nu, gG, shown>>

AssembleOperator ==
  /\ pc = "operators"
  /\ DiscretizeLine \/ FinishDomain \/ DiscretizeCuts
  /\ UNCHANGED sysVars

NextOperator ==
  /\ pc = "operators" /\ stage = "built" /\ Len(asm) < 3
  /\ asm' = Append(asm, Matrices)
  /\ IF op.d < 2 THEN BeginDerivative(sys, op.d + 1)
     ELSE UNCHANGED <<op, stage, next, O, B, N, cut>>
  /\ UNCHANGED <<vars, poly, du, sys, pc, step, u0, u1, rhs, nu, gG, shown>>

ConstructMembers ==
  /\ pc = "operators" /\ Len(asm) = 3
  /\ nu' = Constant(0).D
  /\ gG' = IF sys.kind = "scalar_wave" THEN Coefficients ELSE <<>>
  /\ pc' = "initialize"
  /\ UNCHANGED <<allVars, sys, asm, step, u0, u1, rhs, shown>>

Initialize ==
  /\ pc = "initialize"
  /\ u0' = InitialField(Solution(Now)) /\ u1' = u0' /\ rhs' = Constant(0)
  /\ pc' = "first boundary"
  /\ UNCHANGED <<allVars, sys, asm, step, nu, gG, shown>>

UpdateBoundary(u, t) ==
  /\ nu' = IF sys.kind = "heat" THEN NeumannData(t) ELSE nu
  /\ u' = WithBoundary(u, Solution(t))

FirstBoundary ==
  /\ pc = "first boundary"
  /\ UpdateBoundary(u0, Now)
  /\ pc' = "write"
  /\ UNCHANGED <<allVars, sys, asm, step, u1, rhs, gG, shown>>

(* The first write shows u0, the later ones u1, which is then copied to u0. *)
Write ==
  /\ pc = "write"
  /\ LET u == IF step = 0 THEN u0 ELSE u1 IN
     /\ shown' = <<u, ErrorField(u, Solution(Now))>>
     /\ u0' = u
  /\ pc' = IF step < MaxSteps THEN "rhs" ELSE "done"
  /\ UNCHANGED <<allVars, sys, asm, step, u1, rhs, nu, gG>>

ComputeRhs ==
  /\ pc = "rhs"
  /\ u1' = u0 /\ rhs' = Rhs(u0, Now)
  /\ pc' = "advance"
  /\ UNCHANGED <<allVars, sys, asm, step, u0, nu, gG, shown>>

Advance ==
  /\ pc = "advance"
  /\ u1' = Combined(u0, sys.dt, rhs)
  /\ pc' = "boundary"
  /\ UNCHANGED <<allVars, sys, asm, step, u0, rhs, nu, gG, shown>>

StepBoundary ==
  /\ pc = "boundary"
  /\ UpdateBoundary(u1, Now ++ sys.dt)
  /\ step' = step + 1
  /\ pc' = "write"
  /\ UNCHANGED <<allVars, sys, asm, u0, rhs, gG, shown>>

SysNext ==
  \/ SysBuildMesh \/ AssembleOperator \/ NextOperator \/ ConstructMembers
  \/ \E s \in Systems(cfg) : ConstructSystem(s)
  \/ Initialize \/ FirstBoundary \/ Write \/ ComputeRhs \/ Advance \/ StepBoundary

SysSpec == SysInit /\ [][SysNext]_allSysVars
-----------------------------------------------------------------------------
(* Points that a Dirichlet wall gives, and points of a face with a         *)
(* condition bc across d.                                                  *)
OnFace(bc, d, x) ==
  \/ sys.grid[d].left = bc /\ PointAt(x)[d] = 0
  \/ sys.grid[d].right = bc /\ PointAt(x)[d] = n[d] - 1
WallGiven(x) == \E d \in Dirs : OnFace("Dirichlet", d, x)
ObjectGiven(r, i) == ObjectCondition(R[r][i]) = "Dirichlet"
IsSolution(u, t) ==
  /\ \A x \in InFluid : u.D[x] = Solution(t).D[x]
  /\ u.R = Solution(t).R

(* Until a wave of another shape has moved. *)
StillExact == step = 0 \/ sys.exact

(* The right-hand side is that of the differential equation: at each fluid *)
(* point and each point on an object that no Dirichlet condition gives,    *)
(* for a solution that the stencils are exact for, with walls and objects  *)
(* of all conditions.  It is zero where a condition gives the solution and *)
(* in the solid, so that steps leave these points alone.                   *)
RhsIsEquation ==
  pc = "advance" /\ StillExact =>
    /\ \A x \in 0 .. Size - 1 :
         rhs.D[x] = IF WallGiven(x) \/ x \notin InFluid THEN 0
                    ELSE Equation(sys, Now, Location(x))
    /\ \A r \in Dirs : \A i \in DOMAIN R[r] :
         rhs.R[r][i] = IF ObjectGiven(r, i) THEN 0
                       ELSE Equation(sys, Now, RPosition(r, R[r][i]))

(* Steps keep such a solution: what is written is the solution at that     *)
(* time, at every fluid point and every point on an object, with an error  *)
(* field of zeros, and a solid point holds zero unless it is on a          *)
(* Dirichlet wall.                                                         *)
SolutionKept ==
  shown # <<>> /\ pc \in {"rhs", "done"} /\ StillExact =>
    /\ IsSolution(shown[1], Now)
    /\ shown[2] = Constant(0)
    /\ \A x \in 0 .. Size - 1 :
         x \notin InFluid /\ ~WallGiven(x) => shown[1].D[x] = 0

(* When the right-hand side is computed, the data of all conditions are    *)
(* those of the time it is computed for: the solution at Dirichlet points, *)
(* on a wall even those within an object, and the slope across a Neumann   *)
(* face, except where faces of two directions meet.                        *)
BoundaryCurrent ==
  pc = "rhs" =>
    /\ \A x \in 0 .. Size - 1 : WallGiven(x) => u0.D[x] = Solution(Now).D[x]
    /\ \A r \in Dirs : \A i \in DOMAIN R[r] :
         ObjectGiven(r, i) => u0.R[r][i] = Solution(Now).R[r][i]
    /\ sys.kind = "heat" =>
         \A d \in Dirs : \A x \in 0 .. Size - 1 :
           OnFace("Neumann", d, x) /\ (\A e \in Dirs \ {d} : ~OnFace("Neumann", e, x))
             => nu[x] = Gradient(sys, Now, Location(x))[d]

(* "Set Neumann BCs: evaluate gradient component at domain locations,      *)
(* assign at faces" (heat.cpp:323): a Neumann face across d has the        *)
(* component of the gradient along d at all of its points.                 *)
NeumannIsGradient ==
  pc = "rhs" /\ sys.kind = "heat" =>
    \A d \in Dirs : \A x \in 0 .. Size - 1 :
      OnFace("Neumann", d, x) => nu[x] = Gradient(sys, Now, Location(x))[d]
=============================================================================
