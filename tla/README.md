# shoccs in TLA+

TLA+ models of the shoccs PDE solver, checked with TLC and, in part, proved
with TLAPS.  Paths are relative to the repository root; the paths of the code
start at `src/src/`.  `PROJECT.json` maps each definition to the lines it
stands for and lists components, runs, hazards, findings and theorems.

## 1. The system

A run reads one Lua table, builds a `system` (heat, scalar wave, eigenvalues,
inviscid vortex), an `integrator`, a `step_controller` and a `field_io`, and
calls `simulation_cycle::run()`.  One host thread executes everything; Kokkos
kernels run on many threads between two fences.  State and operations:

| component | state | operations | what makes it correct |
|---|---|---|---|
| set-up (`*::from_lua`) | a table, handles, the parts made so far | reading, defaults, refusals | the simulation made is the one described, and parts fit each other; nothing leaks when set-up stops |
| step controller (`temporal/step_controller.*`, `utils/bounded.hpp`) | step, time, their upper bounds, `min_dt` | `operator bool`, `check_timestep_size`, `advance` | bounded overshoot, no step without a limit, every run ends |
| dump schedule (`io/interval.hpp`) | two interval origins, dump counter, two ready flags | `operator()`, `operator++` | exactly the configured steps are dumped |
| field registry (`fields/field_registry.hpp`) | slots of Views, counts per slot | `allocate_*`, `data`, `deep_copy_slot`, `swap_slots` | buffers never overlap; refs and captured pointers stay those of their slots |
| integrators (`temporal/{rk4,euler}.cpp`, `slot_ops.hpp`) | stage; four slots u0, u1, rk, srhs | zero, copy, linear combination, accumulate | the exact Runge-Kutta map, with forcing of the stage's own time |
| systems (`systems/*`) | Neumann, source, gradient and error buffers, the graph | construction, `initialize`, `update_boundary`, `fill_source`, `submit_rhs_graph`, `stats`, `valid`, `write` | the right-hand side is that of the equation, boundary data are current, `valid` stops a bad run |
| operators (`operators/*`) | the matrices O, B, N, Bf, Br of each direction | assembly, application, `add_graph_nodes`, the eigenvalue visitor | every row written once, exact on polynomials, no two kernels race |
| stencils (`stencils/*`) | parameters | `query`, `interior`, `nbs`, `interp` | consistency to their order at any wall distance, conservation |
| matrices (`matrices/*`) | rows, strides, coefficients | products, builder, visitors | the matrix of the visitor is the operator that is applied |
| mesh (`mesh/*`) | ray intersections R, solid points, lines, fluid selection | construction, `interp_line` | the lines of every direction divide the fluid; intersections fall into the right cell whatever their rounding; construction ends |
| manufactured solutions (`mms/*`) | an owned implementation | value, `ddt`, gradient, divergence, Laplacian | derivatives are those of the value; handles behave as values |
| field output (`io/field_io.cpp`, `xdmf.cpp`, `field_data.cpp`) | the output directory | `write` | what is on disk can be read, whatever was interrupted |
| Python `scripts/stencil_gen` | archives of optimisation runs, subprocess of the solver | offline tools | resumable archives, Pareto fronts, time limit of the bridge |

Interaction is by calls, except where something is shared: the right-hand-side
graph keeps raw pointers taken when it was built (`simulation_cycle.cpp:75`),
the system's Neumann and source buffers are written by one call and read by a
later submission, one Neumann buffer serves all directions, and the output
directory outlives the process.

The hard behaviours follow from that: data that must be fresh when a graph
reads it, kernels that share buffers, reductions joined in any order, kills
between two writes, directories used twice, limits compared before a step,
refs taken before an allocation, rows of a matrix that a wall, an object or a
Dirichlet condition takes away, defaults that two readers of one table choose
each for itself.  The full list, each at its line, is under `hazards` in
`PROJECT.json`.

## 2. Modules

```
the time loop                 Schedule <- Integrators <- SimulationCycle
                              LinearField <- TimeMarch        SimulationCycle refines TimeMarch
output, kernels, statistics   FieldOutput (on Schedule)   RhsGraph   ScalarStats
storage                       FieldRegistry  refines FieldStore
stencils                      StencilField <- Stencil{E2_1,E2_2,E4_1,E4_2,Uniform}
                                           <- StencilHandle <- Stencils
the spatial operator          MeshLines, StencilField <- DerivativeAssembly <- EigenvalueMatrix
the systems                   DerivativeAssembly, Selections <- ScalarSystem
set-up                        ManufacturedSolution, LazyViews, ValueHandle <- Configuration
                              ValueHandle refines ValueSemantics
proofs                        SimulationCycle_proofs   FieldRegistry_proofs   Configuration_proofs
                              ScalarStats_proofs   RhsGraph_proofs   FieldOutput_proofs
                              MeshLines_proofs <- ScalarSystem_proofs
```

A module `MCx` gives the constants of `x` for TLC.  Two of them check several
modules that do not share state: each behaviour runs one of the modules while the
others keep their initial state.  **MCStep** has RhsGraph, ScalarStats and
FieldOutput, what a step does besides its loop; **MCOperators** has Stencils,
EigenvalueMatrix and ScalarSystem.  Definitions named
`X_Something` that say "Fault" replace `X` by what a plausible bug would do;
the properties are tried against them.

### The time loop

**Schedule** - `step_controller` and `bounded`, and the dump schedule.  Times are integer
ticks; a limit missing from the table is `Absent` (the code's
`numeric_limits::max`).  A missing `step_controller` table is the value with
both limits 0, which takes no step.

Of `interval<T>` and `d_interval`, the ready flags are
recomputed from the same arguments, since every `++` follows the `operator()`
that set them.

**LinearField** - what a slot holds.  heat and scalar_wave are linear, so away
from Dirichlet points a slot is a polynomial in `dt L` applied to the initial
data, and at Dirichlet points it is the prescribed solution at some time.  A
polynomial is its integer coefficients over a common denominator: the tableau's
halves and sixths are exact, floating-point rounding is abstracted.

**Integrators** - `rk4`, `euler` and `empty` on the four slots.  A slot is a
View (`buf`) onto a buffer (`data`); the graph holds two buffers.  One action
per block of the code that no other code can observe: `Rk4Begin` (21-25),
`Rk4Stage` (one trip of 27-42), `Rk4Update` (44-46), `EulerStep`.

**SimulationCycle** - `run()`: `Setup`, `StartStep` / `RejectStep`,
`IntegrateStep`, `AcceptStep` (advance, stats, write, copy), `Finish`.  What
`valid(stats)` answers is left open for systems with fields.  `frames` records
the dumps.

**TimeMarch** - the abstract specification: a run repeats one exact one-step
map, publishes frames numbered without gaps that hold the solution of their
own time, and changes nothing after it returned.  `RunsTimeMarch` is
SimulationCycle's refinement of it, with `sol` mapped to slot u0.

### Output, kernels, statistics

**FieldOutput** - `field_io::write` as the sequence of file operations it
makes.  `Open` truncates, `Close` completes; `Kill` may come anywhere, `Refuse`
is a failed open or write that nobody notices (`io.md` says otherwise of the
index: run `save_error_stops`), `Rerun` starts another run at
step 0 in the same directory.  A file's contents are who wrote it, for which
step, and whether to its end.

**RhsGraph** - the Kokkos graphs of heat and scalar_wave, and those a laplacian
and a derivative build for themselves, with or without Neumann data and with
`eq` or `plus_eq`.  `Edges` are those `add_graph_nodes`, `build_rhs_graph`,
`build_graph` and `submit_graph` create; `Start` and `Complete` are
Kokkos's freedom (external), `Submit` / `Fence` / `Consume` the host.  A buffer
holds the sequence of contributions it is the sum of, with the submission whose
inputs they read.

**ScalarStats** - `compute_scalar_stats`: threads reduce points into partial
values that start at the identity and are joined pairwise, over a small IEEE
arithmetic with NaN and infinities.

### Storage

**FieldRegistry** - one flat array of Views; slots, handles and refs are
positions in it, a View is memory that whoever took its pointer keeps alive.
Actions: `AllocateScalar`, `AllocateVector`, `DeepCopySlot`, `SwapSlots`, and a
caller that takes a pointer and writes through it later.  The asserts of the
methods are guards: what a caller owes.

**FieldStore** - what that promises: slots of named arrays with the meaning of
values, nothing said of where an array is kept.  `IsStore` is the refinement.

### Stencils and the spatial operator

**StencilField** - arithmetic.  The coefficients are rational functions of
`psi`, of the spacing and of free parameters, so a real is represented by a
residue modulo the prime 32749: an identity between rationals holds among
residues, and one that fails shows, unless the prime divides the difference.
Distances that the code compares stay integers, 64 to a cell.

**StencilE2_1, E2_2, E4_1, E4_2, Uniform** - the schemes (polyE2_1 is with E2_1, the
tension and radial ones with the uniform), each with its query, its interior
and its closures at a floating, Dirichlet or Neumann end and on the right,
and where it has one its interpolant.  They are written by the structure that
the generated code unrolls (rows blended between two uniform closures, a row
that is what the others leave, free parameters times one high difference), so
that the formula of a row is a line.  The exponentials and roots of the radial
schemes are residues with the identities the kernels use.

**StencilHandle** - `stencil`: calls forwarded, the choice between an interior
and a wall interpolant in `interp`, and `from_lua`.  **Stencils** makes the calls.

**MeshLines** - `object_geometry` and `mesh` at start-up.  `Hit` is one trip of
the loop over a ray's intersections, `NextRay` its end, and then `InitSolid`,
`InitLines` and `InitFluid` in the order of the constructors.  Lengths are
integers, 64 to a cell; what floating point does to a computed distance is
`cfg.err`, one value for each direction, within the code's `snap_tol`.

**DerivativeAssembly** - `derivative`: the constructor's two passes (blocks of a
line's rows with what Dirichlet ends take away, rows for the points where
objects cut the grid lines), the csr builder, and the application.  The mesh is
the one that MeshLines built in the same behaviour, the stencil that of
StencilHandle.  `FinishDomain` may end in `"aborted"`: a build with assertions
stops where `to_block` finds row ranges that overlap, one without goes on.

**EigenvalueMatrix** - the visitor that numbers the unknowns and writes a dense
matrix, which must be the operator that the application applies.

### The systems

**Selections** - the plane, gather and boundary selections of a buffer and the
assignments through them.

**ScalarSystem** - heat and scalar_wave from the constructor through
`initialize`, `update_boundary`, `rhs` and `write`, in the order in which
`simulation_cycle` and `euler` call them, on meshes and operators built by the
modules above.  The manufactured solution, distance and profile are parameters.

### Set-up

**ManufacturedSolution** - the Gaussians of one to three dimensions with all
derivatives, the Lua functions, and `from_lua`.  `exp`, `cos` and `sin` are
arbitrary functions: the derivatives must be right by the chain rule alone.

**ValueHandle** - the handles `stencil`, `manufactured_solution` and `shape`, a
pointer that is cloned and exchanged; **ValueSemantics** is what they promise:
each variable has a value of its own.

**LazyViews** - the strided and product views with which lines and points of a
mesh are visited.

**Configuration** - `simulation_cycle::from_lua` and what it calls, part after
part, each of which may refuse; every handle that is made, passed and destroyed
on the way is one of ValueHandle's.  When a mesh results, its points and lines
are visited and the solution is asked at each.

## 3. Runs

| run | shows | instance |
|---|---|---|
| `cycle` | a run takes exact steps on fresh forcing, dumps exactly what is due with right labels, overshoots by less than a step, returns, and refines TimeMarch | all 4 systems x 3 integrators x 9 limits x 9 dump settings, at most 4 steps |
| `step`, RhsGraph | no race among kernels or with the host; the result is contribution by contribution that of the kernel-by-kernel right-hand side, of this submission alone | heat in 3, 2 and 1 dimensions, scalar wave in 3 and 2, a laplacian in 2 directions, a derivative on an upright direction, both overloads and operations; 2 submissions |
| `step`, ScalarStats | maximum error, its location and the range are exact for every division among threads; an unbounded solution stops the run | 4 meshes, 3 threads, values with NaN and both infinities |
| `step`, FieldOutput | after every returned write the directory shows the run; at any moment only the last grid of the index can lack data; a refused save loses one grid, a torn index stops the run at the next dump | 5 schedules, 4 steps, 3 runs in the directory, 1 refused write, kills anywhere |
| `mesh` | each intersection is recorded in the cell of its exact position with psi bounded, pieces and solid points of every direction are those of the shapes, the fluid selection is what is outside, `interp_line` finds the line's piece, construction ends | 24 meshes in 1, 2 and 3 dimensions, 114 with the roundings |
| `operators`, Stencils | interior and closures differentiate the polynomials of their order exactly, the conservative schemes conserve, interpolation is exact and reads only points it was given | 21 tables, 5 wall distances, 2 spacings, both ends and all conditions, lines of 6 to 8 points with an interpolated point at every cell and 5 offsets |
| `operators`, EigenvalueMatrix | every unknown's row is written once and no other; no row reads outside its piece; derivatives of polynomials are exact on the lines, in the plane and in space, boundary data included; the kernel computes what the block does, reading its blocks from one array; both visits of the eigenvalue visitor number alike and its matrix is the operator | 13 meshes, 4 schemes, every pair of wall conditions on lines and every condition on objects |
| `operators`, ScalarSystem | for solutions that the scheme is exact for, the right-hand side is the equation's time derivative at every unknown; steps and boundary data keep the solution, in the fields written too; boundary data and sources are those of the time they are used at | 9 meshes in 1, 2 and 3 dimensions with walls and objects of every condition, 2 steps |
| `registry` | no two buffers share memory, refs stay usable, pointers move only under `swap_slots`, the slots are values | 2 slots with a scalar and a vector, with and without points on Rx, allocated in any order |
| `setup` | the solution a configuration makes is the one it describes, derivatives included; the views visit every point and line once, forwards, backwards and by jumps; a simulation is set up only with parts that fit each other and nothing is left when it is not; handles are values | 34 tables, meshes of at most 24 points, then handles used in any order on 5 bodies |

Six more runs check a sentence of a document, a comment or an assertion, and are
violated (`findings`).  The properties above say what the code does; the comments
of those concerned name the sentence.  `cycle`'s two take the systems with a field,
an integrator and a step size, and those of `operators` leave out the calls.

- `linf_only_if_valid`: the comment above the return of `run()` says Linf is
  returned only for a valid final state.  A step that reaches the limit and leaves
  the solution invalid ends the loop, and the code asks the controller only.  The
  run starts valid, as set-up assigns the solution itself, and takes steps.
- `dumps_on_reach`: `io.md:135` has the time interval fire on the step that first
  reaches the target time.  The step size is its tolerance, so that it fires as
  soon as less than a step is missing (`interval.hpp:76`).
- `save_error_stops`: `io.md:155` says that a load or save error aborts the
  simulation.  Only load errors do; the result of `save_file` is not looked at
  (`xdmf.cpp:153`, `xdmf.cpp:172`).
- `block_ranges_disjoint`: `block::builder::to_block` asserts that no row ranges
  overlap (`block.hpp:232-244`), taking a block to fill all of its range.  Lines with
  a stride, those along x in the plane and along x and y in space, interleave: the
  assertion fails although RowsOnce holds.  A build without assertions, as the
  documents and the CI use, does not look.
- `neumann_is_gradient`: a Neumann face should hold the component of the
  gradient along its direction; where faces of two directions meet, the one
  buffer they share holds the later direction's.
- `gauss_active_dims`: `mms.md:98` has the Gaussians sum over the active dimensions.
  The code counts these (`cartesian.cpp:39`) and takes as many of the first
  coordinates: on a mesh in y alone, the solution is one of x.

### Bounds

`cycle`: `StepCap = 4`, `Scales` are the powers of 24 down to 1, and the tables of limits contain a limit that falls on a
step, one that falls between two, both at once, neither, a `min_dt` above the
step, a zero step; the dump tables contain intervals shorter and longer than a
step, coprime ones, and both.  Four steps are two trips past the first copy
back, after which the loop's state differs from an earlier one only in counters.

`step`: three runs let a directory hold files of two earlier runs.

Of the graphs, two submissions are what a leftover of the one before needs to appear.
A derivative is built along a direction with rows and along one without, for
which the code adds no kernel.
For scalar_wave the component set is cut down because its derivatives run
concurrently and the number of orders is their product; one cut component has
every kind of kernel.

Three threads are what joins in different orders need.

`mesh`: spheres between two points of a line, with points on the surface, over a
corner, across a wall, two in either order, two with both surfaces in one cell,
and rectangles facing both ways; more points on a line would repeat these.
`MaxHits = 5` is one more than the four intersections a ray can have with two
shapes; it only cuts a loop that does not end.  The meshes keep to what the
code asks for or the documentation excludes: no line lies entirely in a solid,
shapes do not touch, no intersection is within the tolerance of the last point
of a line (an entry there would have its solid point outside the mesh), and
rectangles appear on a line, between its points.
`HitsBracketed` speaks of `Regular` meshes, as all of these are, since it does not hold
of others: where an intersection's cell is decided by rounding alone (a rectangle
within the tolerance of a grid plane, or a sphere that meets the last point of a
ray when distances are rounded down), its cell, or the point taken as
fluid, may be one beyond the domain (`object_geometry.cpp:71-81`).  The proof
below found the second case.  `InterpFindsPiece` leaves out
points that are the solid point of an intersection, for the reason the comment
at `mesh.cpp:202` gives.  All 114 meshes also are `Apart` and have `OneEntry`, the
conditions of the theorems about them.

`operators`: a coefficient is a quotient of polynomials in psi; five psi, two of
them the ends 0 and 1 where a scheme changes its closure, and generic free
parameters make an accidental identity unlikely.  Exactness on monomials is
exactness on polynomials, since the operators are linear.

Lines have at least six points between their ends, which is what the widest
interpolant takes; the code does not bound a piece from below.

Assembled operators have a wall, a sphere or a rectangle at either end of a line, spheres far
enough apart and close, and a line of five points on which the closures of both
ends overlap and rows of one are dropped.  Where that happens at an object,
DerivativeExact leaves the line out: what `B` adds to a dropped row stays.
Fields are all monomials that the scheme is exact for.

`registry`: two slots are what copying, swapping and a stale ref take; one
scalar and one vector have every kind of component; one write through one of
two watched pointers shows whose memory it reaches.

The meshes of the systems have a line, a ball on it, an upright line, a ball in the
plane, over a corner and across a wall, a wider one for the wider scheme, and
space with and without a ball.  Two steps are what data of the step before needs
to appear.  Solutions are polynomials in space and linear in time, which euler
integrates exactly.

`setup`: the tables reach every branch of the readers, each key absent once and
each enumeration with a value of its own and an unknown one.  `MCJumps` goes
over both ends of a view.  The bodies of handles are interchangeable and a
symmetry set.

Deadlock is checked where a run of the system has no end of its own (`cycle`,
`step`, `mesh`); in RhsGraph that shows the graph
is acyclic and every node is eventually enabled.  The other models stop when
what they compute is there, or when set-up refuses a table.

Fairness.  `Termination` and `BuildEnds` need it: weak fairness of `Next`, since
one thread executes `run()`, or the constructors, and none of their statements
waits for anything else.  All else is safety.

### Observed beside the runs

What the models take as the code has it, where a document or a reader might
expect otherwise:

- A NaN is never greater than the maximum so far, so Linf skips it
  (`systems.md` says the maximum over all components).
- A `yz_rect` in a plane of grid points is hit by the rays within that plane at
  NaN, for ever; one on a grid point is hit twice.  The assertion of `init_solid`
  also fails for a sphere across the low wall away from the origin.  A sphere
  through a grid point is solid there for one direction and fluid for another.
- A ray that lies wholly inside a shape has no intersection with it, so all its
  points count as fluid (`object_geometry.cpp:34`, `mesh.cpp:30`).  A
  `yz_rect` is only met along x: with y or z active, too, the points behind it
  are on lines of those directions.  The proof of `PiecesDivideFluid` needs that
  no such ray exists (`Apart`).
- Where a ray enters two shapes in one cell, the piece that ends there ends at the
  first entry, what `interp_line` returns at the second: its comparison admits an
  equal coordinate (`mesh.cpp:195`).
- With a floating object whose centre lies between a wall and a row of points,
  `interp_deriv_coefficients` (`derivative.cpp:22`) reads beyond the wall.
- The rows of an E4_1 closure are the derivative one point further from the wall
  than the point the operator stores them to, so OperatorExact allows for it.
- At the points where objects cut a line, the E2 schemes take values between lines
  by linear interpolation: DerivativeExact and RhsIsEquation ask no more there.
- A default variance of 0 gives NaN.  The Laplacian (`laplacian.cpp:49`)
  sums over directions with more than one point, so a solution that depends on
  an inactive one is not a solution of the discrete equation.
- Extents of 0 or less are clamped to 1 by the mesh and passed on as they are to
  the output.  heat accepts a first-derivative scheme (`order` defaults to 1),
  and asserts that it has a solution (`heat.cpp:43`); without assertions
  `update_boundary` dereferences what is not there.  scalar_wave ignores Neumann
  conditions.

## 4. Proofs

`SimulationCycle_proofs` proves, for every `StepCap`, every `Scales` satisfying
`LinearFieldAssumption`, and every set of configurations satisfying
`ConfigsAssumption` and `StepsAssumption` (each is ended by one of its limits
after at most `StepCap` steps; only the fields, polynomials of bounded degree
with integer coefficients over a common denominator, need that):

| theorem | inductive invariant and why it is needed |
|---|---|
| `GraphStaysBound` (GraphBound) | `Bound`: Views never move, so the graph's buffers are the slots'. GraphBound alone does not say which buffer a slot has. |
| `TypeCorrect` (TypeOK) | TypeOK with `Bound`, and that a started step has a graph; the field operations keep their types by `FieldOps`. The invariants below need it. |
| `ForcingStaysFresh` (ForcingFresh) | `Fresh`: at each program point, which slots and system buffers are of which time. ForcingFresh speaks of the last evaluation only; rk4's first stage and euler use data left by the step before. |
| `OvershootStaysBounded`, `RejectionOnlyAtStart` | `Limited`: a step in progress was started inside the bounds and passed the min_dt test, and after the first step that test is known to pass. |
| `DumpsAreDue` (DumpCadence) | `Cadence`: the next time and the next step at which a dump is due follow from the multiples of the intervals that have passed (`TimeSchedule`, `StepSchedule`), and what was dumped is what fell due (`Dumped`). The induction step is that exactly one multiple falls between two consecutive dumps (`OneFallsDue`, `BetweenMultiples`), which reduces a division by the interval to a multiplication. |
| `RunIsTimeMarch` (RunsTimeMarch) | Step simulation, with `sol` mapped to slot u0; a stage stutters, accepting a step is one application of the abstract map. `Marching` says at each stage of a step which combination of `q`, dt D q, .., dt^4 D^4 q each slot holds, where u0 = 24 q (`RhsWeights`, `SumWeights`, `StateWeights`); `StageCombines` carries it over a stage by the linearity of D, and `ExactStep` reads the Taylor polynomial off the last. That a q exists is the other half of it: after n steps every coefficient is divisible by `Scales[n]`. |
| `FramesStayLabelled` (FramesLabelled) | `Labelled`: u1 at acceptance is of the time the controller is about to have, and the dump counter is the number of frames. |

`FieldRegistry_proofs`, for any number of slots, scalars and vectors, any sizes
and values (`RegistryAssumption`):

| theorem | argument |
|---|---|
| `RegistryTypes`, `RegistryNoSharing`, `RegistryCounts`, `RegistryRefs` | One inductive invariant, `Inv`: TypeOK, NoSharing, CountsMatch and RefsUsable together. That a new buffer is no old one needs the types; that an allocation overwrites no view in use needs the counts, and that positions of different handles differ (`AtInjective`, by the bounds of a slot in `SlotsApart` and `SlotRange`); that refs taken earlier stay usable needs that counts only grow (`KnowsMonotone`). |
| `RegistryIsStore` (IsStore) | Step simulation of FieldStore, with an array mapped to what the View at its position points to. `Placed` (every View ever made is of memory that exists) is the strengthening: with NoSharing it makes a write through a pointer change the named array or none, never two. |
| `RegistryPointers` (PointersStable) | From `Inv`: an allocation leaves every view that existed in its place (`AllocateKeeps`), so only `SwapSlots` moves one. |

`Configuration_proofs`, for any holders, bodies and contents (`HandleAssumption`)
that have the places and kinds of the set-up among them (`PlacesAssumption`), and
any tables that hold what is read from them (`ConfigurationAssumption`: extents,
bounds and psi are integers, with fewer cells than the field has residues):

| theorem | argument |
|---|---|
| `HandlesOwnOnce` | `HandleInv`, the type and OneOwner: nothing is shared, dangling or lost. It is inductive as it stands; the one subtle case is an assignment to itself by copy. |
| `HandlesImplementValues` (HandlesAreValues) | Step simulation with a handle mapped to the contents of its body: because no body has two owners, deleting or overwriting one changes one value only. |
| `WalksStayTogether` (WalksAgree) | `WalkInv`: the position of the flat iterator is the number of points before it (`OnPoint`), and what an iterator of a strided view has passed and what it is short of make up its position in strides (`Stands`). The latter is what WalksAgree leaves out and the last, shortened step needs: without `missing` a step back from the end of a line whose length is no multiple of the stride would not return to its last element. |
| `SetupStaysSound` (SetupSound), `SetupUsesValues` (HandlesAreValues) | `SetupInv`: `HandleInv`; `TableRead`, each part is what the table gives or is not yet read; and `HandlesLead`, which of the handles exist and have a body. The last is stated of the future, since a function leaves many operations to do: those left (`Leads`) take the handles to where the function that comes next expects them (`Fits`), so an operation of a function needs no case of its own (`LeadsOn`) and each function one, the operations it makes (`SolutionLeads`, `FinishLeads`, ...). That a refusal leaves nothing is `Fits` at its end. Where psi puts a rectangle is arithmetic in the field, for which division by the number of cells has to be one: `Reciprocal` gives inverses since no number up to the root of the modulus divides it (`NoSmallDivisor`, `ReciprocalInverts`, `PsiFar`). |

`ScalarStats_proofs`, for any number of threads, any selections, spacings and
values (`ScalarStatsAssumption`: the manufactured solution is finite at selected
points; the computed one may be infinite or NaN):

| theorem | argument |
|---|---|
| `StatsInvariant` | `StatsInv`: a point already taken is bounded by a partial result that has not yet been joined into another, or by the total, and each entry of a partial result is the value of a point taken. Joining partial results in any order keeps both. |
| `UnboundedSolutionStopsRun` (UnboundedStopsRun), `StatsAreExact` (StatsExact) | When no work is left, the two halves of `StatsInv` bound the total from below and from above (`Totals`). |

`RhsGraph_proofs`, for the graph of any system, any components that have
points, any Dirichlet set (`RhsGraphAssumption`: a derivative's own graph has one
direction), over any number of submissions:

| theorem | argument |
|---|---|
| `GraphInvariant` | `GraphInv`: done nodes are closed under predecessors; outside the fence nothing runs. |
| `GraphHasNoRace` (NoRace) | Two nodes that write, or read and write, one buffer are ordered by a path of edges (`ChainOrder` inside a direction and from one direction to the next, `NodeKinds` for the tails of heat and scalar_wave), so by closure both cannot be running. |
| `GraphComputesRhs` (RhsAgrees) | `MemInv`: what a buffer holds is a function of the set of kernels that are done, in whatever order they ran. For each buffer its writers are a chain, so that set is a prefix of the chain; a kernel that is the next of the chain turns the contents of one prefix into those of the following, and reads a buffer whose own chain is finished. Nothing of an earlier submission remains because the first of a chain overwrites. |

`FieldOutput_proofs`, for any `io` tables, any number of steps and of runs in
the same directory, each killed anywhere, and any number of refused writes:

| theorem | argument |
|---|---|
| `KillTearsTailOnly` (OnlyTailIncomplete), `ReturnedStaysOnDisk` (ReturnedIsDurable) | `OutInv` says what a call has done at each of its nine points (`Done`): the operations left are the rest of `Plan` (`CallGoesOn`), the grids before the one being written are shown by the files, and the document that waits to be saved lists them. Both properties alone are far from inductive: they do not say where in the call a file is. Saving a file spoils no shown grid because file names differ by dump (`FilesApart`, `KeepLists`), and geometry is only rewritten with an index of one grid. Of an index left by an earlier run nothing has to be kept track of: the first thing a run does to the directory is to replace it, and until then it changes nothing. |
| `RefusalsLoseOneGrid` (RefusalsContained) | `RefusalInv`: the grids an index lists are those of the dumps whose save of the index was not refused, said between calls (`IndexBetween`) and, at each point of a call, for the index that has or has not been replaced yet (`IndexInCall`); no refusal is of a dump to come (`RefusedSoFar`). |

`MeshLines_proofs`, for any extents, any number of shapes of any size and place
and any rounding within the tolerance (`MeshLinesAssumption`; `MaxHits` leaves room for
two intersections with each shape).  The last three are of meshes that are
`Regular`, as in section 3, and `Apart`: the chords that two shapes cut out of a ray
are more than twice the tolerance apart, and a ray with points inside a shape
meets it between its ends:

| theorem | argument |
|---|---|
| `HitsAreBracketed` (HitsBracketed) | `MeshInv`: every record is that of a hit (`AllRecorded`), the records of a ray are in order (`Ordered`), and the search has passed all of them (`Beyond`); without the last, a new hit could lie before an old one. A hit is one of a shape's candidates within the limits (`ClosestIs`, by induction over the shapes, as each hit lowers the limit for the next). Of a sphere the candidates are half a chord from its centre; that the fluid neighbour is outside is then a comparison of squares (`ChordIs`, `RootIs`), and that the computed distance and the exact one have the same cell is the purpose of the tolerance (`CellOfRounded`, `SphereCell`). |
| `PiecesStayDivided` (PiecesDivideFluid) | `FoundInv`: beside `MeshInv`, each record is of a hit that the search can find (`Genuine`), records follow by distance (`Sorted`), there is room for the next (`RoomLeft`, by counting the two ends of each shape), and of a ray that has been searched every hit is recorded (`Searched`).  The records of a ray are then exactly the ends of disjoint chords between its own ends (`RayIsCut`), an alternation which MeshInv does not see.  What is left is about such a division and no longer about geometry: a slot between successive ends is fluid or lies in one chord (`FluidSlot`), the pieces are the fluid slots (`PieceIsSlot`, `OnlyPiece`), a point is in one slot, and inside a shape when the slot is in its chord (`ShapeOnRay`, `SlotOutside`). |
| `SelectionsStayMatched` (SelectionsMatchShapes) | From the pieces, along the direction whose points are consecutive: their slices in order tile the fluid (`LinesOrder`, `SlicesTile`), merging a slice with one that begins where it ended changes no point (`MergedTiles`), and gathering slices lists them in increasing order (`GatherTiles`).  For solid points, those that `init_solid` marks for the records of a ray are the ones in slots that are not fluid (`MarkedBy`, `SolidSlot`); two exits, or two entries, never follow each other (`ExitsApart`). |
| `InterpKeepsFinding` (InterpFindsPiece) | As `PiecesStayDivided`, for rays that are entered in cells of their own (`OneEntry`).  `Narrowed` says what is left of the line after the first m intersections: its ends are those of the piece once they have been passed, and before that they are loose enough not to stop them from being taken (`NarrowingStep`). |

`ScalarSystem_proofs`, for such meshes (regular and apart for `RowsAssembledOnce`,
regular or not, apart or not for the others): of the derivative, any schemes and any conditions at walls and objects, of a stencil only
that its closures have as many coefficients as its query says
(`ClosureAssumption`); of the systems, either one, any solution and any conditions,
and only that a time step is an integer (`SystemAssumption`):

| theorem | argument |
|---|---|
| `KernelsMatchBlocks` (KernelIsBlock) | `AsmInv`: the mesh's invariant; its lines end at walls or at recorded intersections (`Divided`); and each end of a block holds a matrix of its rows and columns, also after a Dirichlet end or an object has taken a row or a column away (`BlocksOK`). The coefficients of a block are then in the joined array where the kernel looks for them (`FlattenAt`, `CoeffsAt`), and a row is one of left, interior or right, by its distance from the first in strides (`RowsHad`, `HostBlock`). |
| `RowsAssembledOnce` (RowsOnce) | `RowsInv`: beside `AsmInv` and the invariant of the pieces, that blocks are made line by line (`LineByLine`): each is for a line of its own, among those passed, that no Dirichlet wall of another direction gives, every such line has one (`MadeFrom`), and its rows are the fluid points of that line less those given at its ends (`HasRowsOf`).  The last is about strides and flat indices: a step along a ray is a stride (`FlatSteps`), a flat index belongs to one point (`FlatOnce`), so a distance in strides from the first row is a place on the ray (`RowsOnRay`); and where a line begins and ends, at a wall or in the solid point of an intersection, decides what is taken off (`LineOnRay`, `RowsOfLine`).  That the blocks are then disjoint and miss no point is that the pieces divide the fluid (`OnlyPiece`).  Nothing is asked of the length of a line: where the two closures overlap the interior has a negative number of rows, and still the sum is right. |
| `BoundaryStaysCurrent` (BoundaryCurrent) | `SysInv`: the mesh's invariant, that the buffers have a value at every point once they are made (`SysTyped`), and that the data are those of `Now` from `update_boundary` to the right-hand side, in u1 until `Write` has copied it back (`DataCurrent`). That a data point is set and no other needs the planes to be the walls: a flat index is in a plane exactly when its coordinate is (`PlaneIs`, from `IndexIs` and `Coordinates`), strided selections for y and z included. From there a selection gathers the points of its predicate (`KeptElements`, `Gathers`), the faces of a condition are those of `FacesAre`, and the loops assign the source at each of them (`AssignedIs`, by induction over the descriptors). The three Neumann directions share one buffer, so a point of two directions has the slope of the later: `DataSloped` therefore speaks of points on the faces of one direction. That the time of the data is that of the next step is `NextTime`. |

Assumptions are those named, nothing else: every theorem is of a specification
with the constants as its module declares them.  Each invariant is proved with
one step per action.

What recursive functions compute (the closest hit over the shapes, the joining of
sequences, an assignment over several selections, reciprocals) is proved by the
least element of a set of naturals, from a library theorem on well-founded
relations: a solution of the recursion exists on each initial range, and two
agree (`ChainExists`, `FlattensExists`, `InvertsExists`).

Only model-checked: `Termination` and `BuildEnds`, which are liveness.  Of
DerivativeAssembly, `DerivativeExact`, and `ReadsInPiece`, which is false of a line
too short for its closures and depends on every coefficient that interpolation
answers.  The stencils, since each identity is one of residues with
several divisions, which the provers do not do unaided; what EigenvalueMatrix
states and, of ScalarSystem, `RhsIsEquation` and `SolutionKept`, which are sums
over those stencils; and of Configuration `SolutionRight`, derivatives of sums of
Gaussians.

## 5. What could follow

- Proofs of stencil identities, on the field arithmetic of `Configuration_proofs`.
- Proofs of `ReadsInPiece` and `NumberedAlike`, from `RowsAssembledOnce` and an
  assumption that the lines are long enough for the closures.
- The archive that the Python sweeps resume from, if it ever keeps more state
  than the results of objectives.

## 6. Not modelled

- Floating-point rounding, but for ray intersections.  The model's ticks are
  exact, so a dump or a limit that depends on the last bit of an accumulated
  time is outside it; so are the conditioning and the stability of a scheme.
- LAPACK's eigenvalues, behind the matrices that are modelled.
- The Python tools: derivation and stability analysis are symbolic and
  numerical algebra without state; sweeps and the bridge drive them offline.
- Formatting, logging, timers, labels of Views and the bytes of output files.
- In the mesh: rectangles in other directions than x (the code makes them the
  same way), the lists per shape, and the geometry log.
- `simulation_builder.cpp` (nothing calls it), `index_view`, `repeat_n`'s use
  and the seeded generator (used by tests), expression templates that only
  inline arithmetic, the application's `main`, build files, benchmarks,
  containers.
