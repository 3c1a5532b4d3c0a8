---------------------------- MODULE Configuration ---------------------------
(***************************************************************************)
(* How a simulation is set up from a Lua table (simulation_cycle::from_lua *)
(* and what it calls): system, mesh with its shapes, boundary conditions,  *)
(* scheme and manufactured solution, integrator, step controller, output.  *)
(* Handles to the scheme and to the solution are created, copied, moved    *)
(* and destroyed on the way (ValueHandle).  Then the points of the mesh    *)
(* are visited with the views of LazyViews, asking the solution there.     *)
(*                                                                         *)
(* Reals are elements of StencilField.  An optional result is a sequence   *)
(* that may be empty.  Assertions are taken to be compiled in.             *)
(***************************************************************************)
EXTENDS ManufacturedSolution, LazyViews, ValueHandle, FiniteSets

CONSTANTS
  Tables,       \* configurations
  Times,        \* times at which the solution is asked
  Jumps,        \* steps of an iterator at a time
  Unlimited     \* the largest int and real: no limit given

(* What is read from a table has the type that is read, there are fewer    *)
(* cells than residues, and the largest numbers are not zero.              *)
MeshTable(m) ==
  /\ Has(m, "index_extents") =>
       m.index_extents \in Seq(Int) /\ \A i \in DOMAIN m.index_extents : m.index_extents[i] <= Prime
  /\ Has(m, "domain_bounds") =>
       \A key \in {"min", "max", "corner"} : Has(m.domain_bounds, key) => m.domain_bounds[key] \in Seq(Int)
ShapeTable(t) == Has(t, "psi") => t.psi \in Int
ASSUME ConfigurationAssumption ==
  /\ \A c \in Tables :
       /\ Has(c, "mesh") => MeshTable(c.mesh)
       /\ Has(c, "shapes") => c.shapes \in Seq(Range(c.shapes)) /\ \A t \in Range(c.shapes) : ShapeTable(t)
  /\ Jumps \subseteq Int /\ Unlimited # 0

VARIABLES
  tbl,          \* the configuration
  pc,           \* what is called next
  todo,         \* operations on handles that the function called has left
  ext, dom,     \* from cartesian::from_lua: extents and bounds
  shapes,       \* from object_geometry::from_lua
  cart,         \* the cartesian mesh
  bcs,          \* optional: conditions of walls and objects
  system, integrator, controller, io,   \* optional: what the cycle is made of
  it,           \* iterator over the points of the mesh
  line, at, pos,  \* a view of a line, an iterator of it and its position
  sample        \* optional: what the solution answered at a point

parsed == <<ext, dom, shapes, cart, bcs>>
parts == <<system, integrator, controller, io>>
visit == <<it, line, at, pos, sample>>
configVars == <<tbl, pc, todo, parsed, parts, visit, handleVars>>

Dirs == {0, 1, 2}
NoSpacing == Prime     \* null_v

-----------------------------------------------------------------------------
(* mesh/cartesian.cpp *)

CartesianFromLua ==
  IF ~Has(tbl, "mesh") THEN <<>>
  ELSE LET m == tbl.mesh
           d == m.domain_bounds
           lb == Triple(GetOr(d, "min", <<>>), Zeros)
           ub == IF Has(d, "max") THEN d.max ELSE GetOr(d, "corner", <<>>)
       IN  IF ~Has(m, "index_extents") \/ ~Has(m, "domain_bounds") THEN <<>>
           ELSE IF ~Has(d, "max") /\ ~Has(d, "corner") THEN <<>>
           ELSE <<[ext |-> Triple(m.index_extents, [e \in Dirs |-> 1]),
                   dom |-> [min |-> lb, max |-> Triple(ub, lb)]]>>

LinearDistribute(mn, mx, count) ==
  [i \in 0 .. count - 1 |->
    IF count > 1 THEN mn ++ ((i ** (mx -- mn)) // (count - 1)) ELSE mn]

(* The constructor of cartesian. *)
Cartesian ==
  LET n == [e \in Dirs |-> IF ext[e] > 0 THEN ext[e] ELSE 1]
  IN  [n |-> n,
       h |-> [e \in Dirs |-> IF n[e] = 1 THEN NoSpacing
                             ELSE (dom.max[e] -- dom.min[e]) // (n[e] - 1)],
       dims |-> Cardinality({e \in Dirs : n[e] # 1}),
       x |-> [e \in Dirs |-> LinearDistribute(dom.min[e], dom.max[e], n[e])]]

NoMesh == [n |-> Zeros, h |-> Zeros, dims |-> 0, x |-> [e \in Dirs |-> <<>>]]

(* indexing.hpp and cartesian.hpp: a direction is the fastest of its own   *)
(* numbering of the points.                                                *)
SlowDir(d) == IF d = 0 THEN 1 ELSE 0
FastDir(d) == IF d = 2 THEN 1 ELSE 2
PointCount(n) == n[0] * n[1] * n[2]
StrideOf(n, d) == CASE d = 0 -> n[1] * n[2] [] d = 1 -> n[2] [] d = 2 -> 1
BoundsIndex(n, d, p) ==
  p[SlowDir(d)] * n[d] * n[FastDir(d)] + p[FastDir(d)] * n[d] + p[d]
UcIjk2Dir(n, d, p) == n[d] * (n[FastDir(d)] * p[SlowDir(d)] + p[FastDir(d)]) + p[d]
(* q is in the order slow, fast, direction. *)
UcDir(n, d, q) == n[d] * (n[FastDir(d)] * q[1] + q[2]) + q[3]
(* From the order direction, fast, slow of one direction to that of another. *)
Transpose(a, b, q) ==
  LET place(e) == CASE e = a -> 1 [] e = FastDir(a) -> 2 [] e = SlowDir(a) -> 3
  IN  <<q[place(b)], q[place(FastDir(b))], q[place(SlowDir(b))]>>
OnBoundary(n, d, right, p) == p[d] = IF right THEN n[d] - 1 ELSE 0

-----------------------------------------------------------------------------
(* mesh/object_geometry.cpp and operators/boundaries.cpp *)

SphereFromLua(t, id) ==
  [kind |-> "sphere", id |-> id, center |-> Triple(GetOr(t, "center", <<>>), Zeros),
   radius |-> GetOr(t, "radius", 0)]

(* Fault: the fraction counts from the wall. *)
RectPlane_FromWall(t, h) ==
  IF GetOr(t, "normal", 1) > 0 THEN dom.min[0] ++ (t.psi ** h) ELSE dom.max[0] -- (t.psi ** h)

(* A rectangle normal to x.  psi puts it that part of a cell away from the *)
(* second point of a line, or from the last but one.                       *)
RectPlane(t, h) ==
  IF GetOr(t, "normal", 1) > 0 THEN dom.min[0] ++ ((1 -- t.psi) ** h)
                               ELSE dom.max[0] -- ((1 -- t.psi) ** h)

RectFromLua(t, id) ==
  LET h == (dom.max[0] -- dom.min[0]) // (ext[0] - 1)
      lc == Triple(GetOr(t, "lower_corner", <<>>),
                   [e \in Dirs |-> IF e = 0 THEN dom.min[e] ELSE dom.min[e] -- h])
      uc == Triple(GetOr(t, "upper_corner", <<>>),
                   [e \in Dirs |-> IF e = 0 THEN dom.min[e] ELSE dom.max[e] ++ h])
      at0(c) == IF Has(t, "psi") THEN [c EXCEPT ![0] = RectPlane(t, h)] ELSE c
  IN  [kind |-> "yz_rect", id |-> id, lower |-> at0(lc), upper |-> at0(uc),
       normal |-> GetOr(t, "normal", 1)]

KnownShape(t) == GetOr(t, "type", "") \in {"sphere", "yz_rect"}
ShapeTables == GetOr(tbl, "shapes", <<>>)
ShapesFromLua ==
  IF \E i \in DOMAIN ShapeTables : ~KnownShape(ShapeTables[i]) THEN <<>>
  ELSE <<[i \in DOMAIN ShapeTables |->
           IF ShapeTables[i].type = "sphere" THEN SphereFromLua(ShapeTables[i], i - 1)
                                             ELSE RectFromLua(ShapeTables[i], i - 1)]>>

(* The condition of a side with n points; a side of one point is floating  *)
(* whatever the table says.                                                *)
GetBc(t, side, n) ==
  IF ~Has(t, side) THEN <<"Floating">>
  ELSE CASE t[side] = "dirichlet" -> <<IF n = 1 THEN "Floating" ELSE "Dirichlet">>
         [] t[side] = "neumann" -> <<IF n = 1 THEN "Floating" ELSE "Neumann">>
         [] t[side] = "floating" -> <<"Floating">>
         [] OTHER -> <<>>

Sides == <<<<"xmin", "xmax">>, <<"ymin", "ymax">>, <<"zmin", "zmax">>>>
BoundariesFromLua ==
  LET m == GetOr(tbl, "domain_boundaries", [xmin |-> "floating"])
      wall(e, j) == GetBc(m, Sides[e + 1][j], cart.n[e])
      obj(i) == GetBc(ShapeTables[i], "boundary_condition", 0)
  IN  IF \/ \E e \in Dirs, j \in {1, 2} : wall(e, j) = <<>>
         \/ \E i \in DOMAIN ShapeTables : obj(i) = <<>>
      THEN <<>>
      ELSE <<[grid |-> [e \in Dirs |-> [left |-> wall(e, 1)[1], right |-> wall(e, 2)[1]]],
              obj |-> [i \in DOMAIN ShapeTables |-> obj(i)[1]]]>>

-----------------------------------------------------------------------------
(* The other parts of a cycle. *)

(* scalar_wave: the center and radius of its equation, from the system's   *)
(* table or from the first sphere.                                         *)
WaveSource ==
  LET spheres == {i \in DOMAIN ShapeTables : GetOr(ShapeTables[i], "type", "") = "sphere"}
      from(t) == <<[center |-> Triple(GetOr(t, "center", <<>>), Zeros), radius |-> GetOr(t, "radius", 0)]>>
  IN  IF Has(tbl.system, "center") /\ Has(tbl.system, "radius") THEN from(tbl.system)
      ELSE IF spheres # {} THEN from(ShapeTables[Min(spheres)])
      ELSE <<>>

IntegratorFromLua ==
  IF ~Has(tbl, "integrator") THEN <<"empty">>
  ELSE IF GetOr(tbl.integrator, "type", "") \in {"rk4", "euler"} THEN <<tbl.integrator.type>>
  ELSE <<>>

(* Without any limit no step is taken. *)
StepControllerFromLua ==
  LET c == GetOr(tbl, "step_controller", [none |-> 0])
      steps == GetOr(c, "max_step", Unlimited)
      time == GetOr(c, "max_time", Unlimited)
  IN  IF ~Has(tbl, "step_controller") THEN <<[max_step |-> 0, max_time |-> 0]>>
      ELSE <<[max_step |-> IF steps = Unlimited /\ time = Unlimited THEN 0 ELSE steps,
              max_time |-> time]>>

(* The output reads the extents for itself.  Steps take precedence in what *)
(* is logged, but both intervals are used.                                 *)
FieldIoFromLua ==
  LET given == CartesianFromLua
      i == tbl.io
  IN  IF given = <<>> THEN <<>>
      ELSE IF ~Has(tbl, "io") THEN <<[ext |-> Zeros, step |-> Unlimited, time |-> Unlimited]>>
      ELSE <<[ext |-> given[1].ext, step |-> GetOr(i, "write_every_step", Unlimited),
              time |-> GetOr(i, "write_every_time", Unlimited)]>>

SystemType == GetOr(tbl.system, "type", "")
Built == [kind |-> SystemType, source |-> IF SystemType = "scalar wave" THEN WaveSource ELSE <<>>]
Scheme == <<GetOr(tbl.scheme, "type", ""), GetOr(tbl.scheme, "order", 1)>>
SharedSchemes == {<<"E2", 2>>, <<"E4", 2>>}
MadeSchemes == {<<x, 1>> : x \in {"E2", "E4", "E4u", "E6u", "E8u", "tension_E4u", "gaussian_E4u",
                                 "multiquadric_E4u", "E2-poly"}}

-----------------------------------------------------------------------------
(* Handles.  What an implementation holds is told by its kind. *)

(* The places that from_lua and what it calls have for handles.            *)
Places == {"E2", "E4", "made", "st_opt", "st", "ms_opt", "t", "m_sol", "heat_opt", "system", "sys_opt", "cycle"}
Kinds == {"E2_2", "E4_2", "gauss1d", "gauss2d", "gauss3d", "lua"} \cup {x[1] : x \in MadeSchemes}
ASSUME PlacesAssumption == Places \subseteq Holders /\ Kinds \subseteq Contents

New(x, kind) == [op |-> "new", x |-> x, y |-> kind]
Default(x) == [op |-> "default", x |-> x, y |-> ""]
CopyOf(x, y) == [op |-> "copy", x |-> x, y |-> y]
MoveOf(x, y) == [op |-> "move", x |-> x, y |-> y]
Drop(x) == [op |-> "drop", x |-> x, y |-> ""]
(* A result is moved to where it is wanted and the place it had is left. *)
Hand(x, y) == <<MoveOf(x, y), Drop(y)>>

NothingRead ==
  /\ ext = Zeros /\ dom = [min |-> Zeros, max |-> Zeros] /\ shapes = <<>> /\ cart = NoMesh /\ bcs = <<>>
  /\ system = <<>> /\ integrator = <<>> /\ controller = <<>> /\ io = <<>>
  /\ it = <<0, 0, 0>> /\ line = <<>> /\ at = <<>> /\ pos = 0 /\ sample = <<>>
  /\ HandleInit

ConfigInit ==
  /\ tbl \in Tables /\ NothingRead
  /\ pc = "type" /\ todo = <<New("E2", "E2_2"), New("E4", "E4_2")>>  \* second::E2, second::E4

(* The next operation on handles of the function under way. *)
Statement ==
  /\ todo # <<>>
  /\ LET o == Head(todo)
     IN  \/ o.op = "new" /\ Construct(o.x, o.y)
         \/ o.op = "default" /\ DefaultConstruct(o.x)
         \/ o.op = "copy" /\ CopyConstruct(o.x, o.y)
         \/ o.op = "move" /\ MoveConstruct(o.x, o.y)
         \/ o.op = "drop" /\ Destroy(o.x)
  /\ todo' = Tail(todo)
  /\ UNCHANGED <<tbl, pc, parsed, parts, visit>>

At(p) == pc = p /\ todo = <<>> /\ UNCHANGED <<tbl, handleVars>>
Then(p, ops) == pc' = p /\ todo' = ops

(* system::from_lua up to the from_lua of a system. *)
ChooseSystem ==
  /\ At("type")
  /\ \/ Has(tbl, "system") /\ SystemType \in {"heat", "eigenvalues"}
        /\ Then("cartesian", <<>>) /\ UNCHANGED parts
     \/ Has(tbl, "system") /\ SystemType = "scalar wave" /\ WaveSource # <<>>
        /\ Then("cartesian", <<>>) /\ UNCHANGED parts
     \/ Has(tbl, "system") /\ SystemType = "inviscid vortex"
        /\ Then("integrator", <<>>) /\ system' = <<Built>>
        /\ UNCHANGED <<integrator, controller, io>>
     \/ ~Has(tbl, "system") /\ Then("integrator", <<>>) /\ UNCHANGED parts
     \/ Has(tbl, "system") /\ SystemType = "scalar wave" /\ WaveSource = <<>>
        /\ Then("integrator", <<>>) /\ UNCHANGED parts
     \/ Has(tbl, "system") /\ SystemType \notin {"heat", "eigenvalues", "scalar wave", "inviscid vortex"}
        /\ Then("integrator", <<>>) /\ UNCHANGED parts
  /\ UNCHANGED <<parsed, visit>>

ReadCartesian ==
  /\ At("cartesian")
  /\ \/ CartesianFromLua = <<>> /\ Then("integrator", <<>>) /\ UNCHANGED <<ext, dom>>
     \/ CartesianFromLua # <<>> /\ Then("shapes", <<>>)
        /\ ext' = CartesianFromLua[1].ext /\ dom' = CartesianFromLua[1].dom
  /\ UNCHANGED <<shapes, cart, bcs, parts, visit>>

(* The shapes of the table and the mesh with them. *)
BuildMesh ==
  /\ At("shapes")
  /\ \/ ShapesFromLua = <<>> /\ Then("integrator", <<>>) /\ UNCHANGED <<shapes, cart>>
     \/ ShapesFromLua # <<>> /\ Then("boundaries", <<>>)
        /\ shapes' = ShapesFromLua[1] /\ cart' = Cartesian
  /\ UNCHANGED <<ext, dom, bcs, parts, visit>>

(* The scheme is read whether or not there are conditions. *)
ReadBoundaries ==
  /\ At("boundaries") /\ Then("scheme", <<>>)
  /\ bcs' = BoundariesFromLua
  /\ UNCHANGED <<ext, dom, shapes, cart, parts, visit>>

(* stencil::from_lua: second derivatives copy a scheme that all share.     *)
ReadScheme ==
  /\ At("scheme")
  /\ \/ Has(tbl, "scheme") /\ Scheme \in SharedSchemes
        /\ Then("solution", <<CopyOf("st_opt", Scheme[1])>>)
     \/ Has(tbl, "scheme") /\ Scheme \in MadeSchemes
        /\ Then("solution", <<New("made", Scheme[1])>> \o Hand("st_opt", "made"))
     \/ (Has(tbl, "scheme") => Scheme \notin SharedSchemes \cup MadeSchemes) /\ Then("integrator", <<>>)
  /\ UNCHANGED <<parsed, parts, visit>>

(* heat: the manufactured solution, or an empty one.  The other systems    *)
(* have none.                                                              *)
ReadSolution ==
  /\ At("solution") /\ bcs # <<>> /\ SystemType = "heat"
  /\ LET ms == SolutionFromLua(tbl, cart.dims)
     IN  \/ ms = <<>> /\ Then("construct", <<Default("t")>>)
         \/ ms # <<>> /\ Then("construct",
              (CASE ms[1].kind = "lua" -> <<New("ms_opt", "lua")>>
                 [] ms[1].kind = "empty" -> <<Default("made")>> \o Hand("ms_opt", "made")
                 [] OTHER -> <<New("made", ms[1].kind)>> \o Hand("ms_opt", "made"))
              \o <<MoveOf("t", "ms_opt")>>)
  /\ UNCHANGED <<parsed, parts, visit>>

NoConditions ==
  /\ At("solution") /\ bcs = <<>>
  /\ Then("integrator", <<Drop("st_opt")>>)
  /\ UNCHANGED <<parsed, parts, visit>>

(* The constructor of heat takes a copy of the scheme and the solution.    *)
ConstructHeat ==
  /\ At("construct") /\ Then("assert", <<CopyOf("st", "st_opt"), MoveOf("m_sol", "t")>>)
  /\ UNCHANGED <<parsed, parts, visit>>

Locals == {"ms_opt", "t"}
(* heat goes into an optional, the locals of from_lua end, then it goes to *)
(* the system and to the optional that system::from_lua returns.           *)
FinishHeat ==
  /\ At("assert")
  /\ \/ s["m_sol"] = Null /\ Then("aborted", <<>>) /\ UNCHANGED parts
     \/ s["m_sol"] # Null
        /\ Then("integrator",
             Hand("heat_opt", "m_sol") \o <<Drop("st")>>
             \o [i \in 1 .. Cardinality({x \in Locals : s[x] # Absent}) |-> Drop(<<"t", "ms_opt">>[i])]
             \o <<Drop("st_opt"), MoveOf("system", "heat_opt")>> \o Hand("sys_opt", "system")
             \o <<Drop("heat_opt")>>)
        /\ system' = <<Built>> /\ UNCHANGED <<integrator, controller, io>>
  /\ UNCHANGED <<parsed, visit>>

(* scalar_wave and hyperbolic_eigenvalues. *)
ConstructOther ==
  /\ At("solution") /\ bcs # <<>> /\ SystemType # "heat"
  /\ Then("integrator", <<CopyOf("st", "st_opt"), Drop("st"), Drop("st_opt")>>)
  /\ system' = <<Built>>
  /\ UNCHANGED <<integrator, controller, io, parsed, visit>>

(* simulation_cycle::from_lua reads every part, whatever came of the ones  *)
(* before.                                                                 *)
ReadIntegrator ==
  /\ At("integrator") /\ Then("controller", <<>>)
  /\ integrator' = IntegratorFromLua
  /\ UNCHANGED <<system, controller, io, parsed, visit>>
ReadController ==
  /\ At("controller") /\ Then("io", <<>>)
  /\ controller' = StepControllerFromLua
  /\ UNCHANGED <<system, integrator, io, parsed, visit>>
ReadIo ==
  /\ At("io") /\ Then("cycle", <<>>)
  /\ io' = FieldIoFromLua
  /\ UNCHANGED <<system, integrator, controller, parsed, visit>>

Complete == system # <<>> /\ integrator # <<>> /\ controller # <<>> /\ io # <<>>
SolutionMoves ==
  IF s["sys_opt"] = Absent THEN <<>>
  ELSE IF Complete THEN <<MoveOf("made", "sys_opt")>> \o Hand("cycle", "made") \o <<Drop("sys_opt")>>
  ELSE <<Drop("sys_opt")>>
BuildCycle ==
  /\ At("cycle")
  /\ Then(IF Complete THEN "built" ELSE "failed", SolutionMoves)
  /\ UNCHANGED <<parsed, parts, visit>>

-----------------------------------------------------------------------------
(* Visits of the points. *)

Lens == [e \in 1 .. 3 |-> cart.n[e - 1]]
PointAt(i) == [e \in Dirs |-> cart.x[e][i[e + 1]]]

StartVisit ==
  /\ At("built") /\ cart # NoMesh /\ Then("visit", <<>>)
  /\ it' = ProductBegin(Lens)
  /\ UNCHANGED <<parsed, parts, line, at, pos, sample>>

(* The solution of a heat system is asked at the point; a Lua solution     *)
(* gives what its functions give.                                          *)
VisitPoint ==
  /\ At("visit") /\ it # ProductEnd(Lens) /\ Then("visit", <<>>)
  /\ \E t \in Times :
       LET kind == IF s["cycle"] \in Bodies THEN impl[s["cycle"]] ELSE "empty"
           x == PointAt(it)
       IN  sample' = <<[t |-> t, x |-> x, kind |-> kind, parallel |-> IsThreadSafe(kind),
                        answers |-> IF kind \in {"empty", "lua"} THEN <<>>
                          ELSE <<Answers(SolutionFromLua(tbl, cart.dims)[1], t, x)>>]>>
  /\ it' = ProductNext(Lens, it) /\ pos' = pos + 1
  /\ UNCHANGED <<parsed, parts, line, at>>

(* A line of points along a direction, as the strided rest of a buffer,    *)
(* from its first element or from its end.                                 *)
ChooseLine ==
  /\ At("visit") /\ it = ProductEnd(Lens) /\ Then("line", <<>>)
  /\ \E d \in Dirs, first \in 0 .. PointCount(cart.n) - 1 :
       LET v == [len |-> PointCount(cart.n) - first, stride |-> StrideOf(cart.n, d)]
       IN  /\ line' = v
           /\ \/ at' = StrideBegin(v) /\ pos' = 0
              \/ at' = StrideEnd(v) /\ pos' = StrideSize(v)
  /\ sample' = <<>>
  /\ UNCHANGED <<parsed, parts, it>>

Walk(a, p) ==
  /\ At("line") /\ Then("line", <<>>)
  /\ p \in 0 .. StrideSize(line) /\ at' = a /\ pos' = p
  /\ UNCHANGED <<parsed, parts, it, line, sample>>
LineNext == pc = "line" /\ pos < StrideSize(line) /\ Walk(StrideNext(line, at), pos + 1)
LinePrev == pc = "line" /\ pos > 0 /\ Walk(StridePrev(line, at), pos - 1)
LineJump == pc = "line" /\ \E k \in Jumps : Walk(StridePlus(line, at, k), pos + k)

ConfigNext ==
  \/ Statement
  \/ ChooseSystem \/ ReadCartesian \/ BuildMesh \/ ReadBoundaries \/ ReadScheme
  \/ ReadSolution \/ NoConditions \/ ConstructHeat \/ FinishHeat \/ ConstructOther
  \/ ReadIntegrator \/ ReadController \/ ReadIo \/ BuildCycle
  \/ StartVisit \/ VisitPoint \/ ChooseLine \/ LineNext \/ LinePrev \/ LineJump

ConfigSpec == ConfigInit /\ [][ConfigNext]_configVars

-----------------------------------------------------------------------------
(* The Gaussian sum over a set of directions, with its derivatives, at the *)
(* point visited.                                                          *)
JetOver(dirs) ==
  GaussJet(GaussTerms(tbl.manufactured_solution.entries), dirs, sample[1].t, sample[1].x)

(* The derivatives that a Gaussian solution answers are those of the value *)
(* it answers, written out apart in gauss1d.cpp, gauss2d.cpp, gauss3d.cpp: *)
(* the source term of heat, ddt minus diffusivity times laplacian, and its *)
(* Neumann data rest on them.  The value is the sum over the leading dims  *)
(* coordinates: the documented one if the active directions come first,    *)
(* otherwise see GaussActiveDims.                                          *)
SolutionRight ==
  sample # <<>> /\ sample[1].answers # <<>> =>
    LET a == sample[1].answers[1]
        jet == JetOver(0 .. cart.dims - 1)
    IN  /\ a.value = jet.v /\ a.ddt = jet.t
        /\ a.gradient = jet.g /\ a.laplacian = jet.h[0] ++ jet.h[1] ++ jet.h[2]

(* What docs/reference/mms.md says of the value: the exponent sums "over   *)
(* only the active dimensions (1, 2, or 3)".  The code counts the          *)
(* directions with more than one point (cartesian.cpp) and takes as many   *)
(* of the first coordinates.                                               *)
GaussActiveDims ==
  sample # <<>> /\ sample[1].answers # <<>> =>
    sample[1].answers[1].value = JetOver({e \in Dirs : cart.n[e] > 1}).v

(* The domain's view visits every point once, in the order of the flat     *)
(* index; the numberings of the directions agree with one another; and the *)
(* strided view of a line finds the element of its position however the    *)
(* iterator came there, by steps, backwards from the end or by jumps       *)
(* (lazy_views.hpp, indexing.hpp, cartesian.hpp).                          *)
WalksAgree ==
  /\ pc = "visit" =>
       LET n == cart.n
           p == [e \in Dirs |-> it[e + 1]]
           in(d) == <<p[d], p[FastDir(d)], p[SlowDir(d)]>>
       IN  /\ pos = it[1] * StrideOf(n, 0) + it[2] * StrideOf(n, 1) + it[3] * StrideOf(n, 2)
           /\ it = ProductEnd(Lens) <=> pos = ProductSize(Lens)
           /\ \A d \in Dirs :
                /\ BoundsIndex(n, d, p) = UcIjk2Dir(n, d, p)
                /\ UcDir(n, d, <<p[SlowDir(d)], p[FastDir(d)], p[d]>>) = UcIjk2Dir(n, d, p)
                /\ \A e \in Dirs : Transpose(d, e, in(d)) = in(e)
                /\ OnBoundary(n, d, FALSE, p) => UcIjk2Dir(n, d, p) % n[d] = 0
  /\ pc = "line" =>
       /\ at.cur = IF pos * line.stride < line.len THEN pos * line.stride ELSE line.len
       /\ StrideDistance(line, at, StrideBegin(line)) = pos
       /\ StrideDistance(line, at, StrideEnd(line)) = pos - StrideSize(line)
       /\ StrideDistance(line, StrideEnd(line), at) = StrideSize(line) - pos

-----------------------------------------------------------------------------
(* Parts of SetupSound. *)

(* A rectangle that psi places cuts the grid lines psi cells from the next *)
(* point outside, if there are cells.                                      *)
RectsAtPsi == cart # NoMesh /\ cart.n[0] > 1 =>
  \A i \in DOMAIN shapes :
    shapes[i].kind = "yz_rect" /\ Has(ShapeTables[i], "psi") =>
      LET x == cart.x[0]
          outside == IF shapes[i].normal > 0 THEN x[1] -- shapes[i].lower[0]
                                             ELSE shapes[i].lower[0] -- x[cart.n[0] - 2]
      IN  outside = ShapeTables[i].psi ** cart.h[0] /\ shapes[i].upper[0] = shapes[i].lower[0]

(* Every shape has a condition, and a direction of one point has no wall   *)
(* with a condition.                                                       *)
ConditionsFit == bcs # <<>> =>
  /\ DOMAIN bcs[1].obj = DOMAIN shapes
  /\ \A e \in Dirs : cart.n[e] = 1 => bcs[1].grid[e] = [left |-> "Floating", right |-> "Floating"]

(* A scalar wave starts from the sphere in its mesh unless told otherwise. *)
WaveFollowsSphere ==
  \A i \in DOMAIN shapes :
    /\ system # <<>> /\ system[1].kind = "scalar wave" /\ shapes[i].kind = "sphere"
    /\ \A j \in 1 .. i - 1 : shapes[j].kind # "sphere"
    /\ ~(Has(tbl.system, "center") /\ Has(tbl.system, "radius"))
    => system[1].source = <<[center |-> shapes[i].center, radius |-> shapes[i].radius]>>

(* What is set up is complete, has a limit, writes files of its mesh, and  *)
(* a heat system has its solution, evaluated in parallel if it may be.     *)
CycleComplete == pc \in {"built", "visit", "line"} /\ todo = <<>> =>
  /\ Complete
  /\ controller[1].max_step # Unlimited \/ controller[1].max_time # Unlimited
  /\ Has(tbl, "io") /\ cart # NoMesh /\ (\A e \in Dirs : ext[e] > 0) => io[1].ext = cart.n
  /\ system[1].kind = "heat" <=> s["cycle"] \in Bodies
  /\ sample # <<>> => ~(sample[1].kind = "lua" /\ sample[1].parallel)

(* Implementations have one owner, and once from_lua has returned only the *)
(* shared schemes and what the cycle holds are left.                       *)
NothingLeft == OneOwner /\ (pc \in {"failed", "built", "visit", "line"} /\ todo = <<>> =>
  \A x \in Holders : s[x] # Absent => x \in {"E2", "E4", "cycle"})

(* A simulation that is set up is the one its table describes: geometry,   *)
(* conditions, equation and limits fit together, and no handle is left     *)
(* behind on any path (from_lua of simulation_cycle, system, heat,         *)
(* scalar_wave, mesh, object_geometry and bcs).                            *)
SetupSound ==
  RectsAtPsi /\ ConditionsFit /\ WaveFollowsSphere /\ CycleComplete /\ NothingLeft
=============================================================================
