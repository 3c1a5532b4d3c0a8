-------------------------- MODULE MCConfiguration --------------------------
(***************************************************************************)
(* Configurations that reach every branch of the set-up, and the visits of *)
(* the small meshes of those that set up a simulation.                     *)
(***************************************************************************)
EXTENDS Configuration, TLC

(* Functions of a residue of which nothing is known but their values. *)
MCExp(a) == (7 * a + 5) ** (a + 3)
MCCos(a) == ((11 * a) + 2) ** (a + 29)
MCSin(a) == ((5 * a) + 13) ** (a + 17)

Without(t, key) == [k \in DOMAIN t \ {key} |-> t[k]]
With(t, key, v) == [k \in DOMAIN t \cup {key} |-> IF k = key THEN v ELSE t[k]]

Bounds(lb, ub) == [min |-> lb, max |-> ub]
Mesh(e, b) == [index_extents |-> e, domain_bounds |-> b]
Line == Mesh(<<4>>, Bounds(<<1>>, <<2>>))
Plane == Mesh(<<3, 2>>, [corner |-> <<3, 5>>])
Space == Mesh(<<2, 2, 3>>, Bounds(<<1, 2, 3>>, <<4, 6, 9>>))
Skewed == Mesh(<<1, 3, 0>>, Bounds(<<0, 1>>, <<1, 5>>))
Point == Mesh(<<1>>, Bounds(<<1>>, <<2>>))

Entry1 == [center |-> <<3, 4, 5>>, variance |-> <<2, 3, 7>>, amplitude |-> 3, frequency |-> 5]
Entry2 == [center |-> <<1>>, variance |-> <<5, 6, 4>>, amplitude |-> 2]
Gaussian == [type |-> "gaussian", entries |-> <<Entry1, Entry2>>]
Sphere(bc) == [type |-> "sphere", center |-> <<3, 1>>, radius |-> 2, boundary_condition |-> bc]
Rect(normal) == [type |-> "yz_rect", psi |-> Cells(16), normal |-> normal]

Heat == [system |-> [type |-> "heat"], mesh |-> Line, scheme |-> [type |-> "E2", order |-> 2],
         manufactured_solution |-> Gaussian, integrator |-> [type |-> "rk4"],
         step_controller |-> [max_step |-> 5], io |-> [write_every_step |-> 1]]
Wave == With(With(Heat, "system", [type |-> "scalar wave", center |-> <<1, 2>>, radius |-> 3]),
             "scheme", [type |-> "E4"])
BareWave == With(Wave, "system", [type |-> "scalar wave"])

HeatTables == {
  Heat,
  With(With(Heat, "mesh", Plane), "manufactured_solution", [Gaussian EXCEPT !.type = "Gaussian"]),
  With(With(Heat, "mesh", Space), "domain_boundaries",
       [xmin |-> "dirichlet", xmax |-> "neumann", zmin |-> "neumann"]),
  With(With(Heat, "scheme", [type |-> "E2"]), "manufactured_solution",
       [type |-> "Lua", functions |-> LuaFunctions]),
  With(Heat, "manufactured_solution", [type |-> "lua", functions |-> LuaFunctions \ {"lap"}]),
  Without(Heat, "manufactured_solution"),
  With(Heat, "manufactured_solution", [type |-> "gaussian", entries |-> <<>>]),
  With(Heat, "mesh", Point),
  With(With(Heat, "mesh", Skewed), "domain_boundaries",
       [xmin |-> "dirichlet", ymax |-> "dirichlet", zmax |-> "neumann"]),
  With(Heat, "shapes", <<With(Rect(1), "boundary_condition", "dirichlet"), Rect(-1)>>),
  With(Heat, "shapes", <<With(Rect(1), "boundary_condition", "robin")>>),
  With(Heat, "shapes", <<[type |-> "torus"]>>),
  With(Heat, "domain_boundaries", [ymin |-> "periodic"]),
  With(Heat, "scheme", [type |-> "E4", order |-> 2]),
  With(Heat, "scheme", [type |-> "E8", order |-> 3]),
  Without(Heat, "scheme"), Without(Heat, "mesh"),
  With(Heat, "mesh", [domain_bounds |-> [max |-> <<1>>]]),
  With(Heat, "mesh", [index_extents |-> <<3>>, domain_bounds |-> [min |-> <<1>>]])}

OtherTables == {
  Wave, With(Wave, "mesh", Mesh(<<3, 4, 2>>, Bounds(<<>>, <<6, 6, 3>>))), Without(Wave, "integrator"), Without(Wave, "step_controller"),
  With(Wave, "step_controller", [max_time |-> 4]), With(Wave, "integrator", [type |-> "leapfrog"]),
  With(With(BareWave, "mesh", Plane), "shapes", <<Rect(1), Sphere("dirichlet"), Sphere("neumann")>>),
  BareWave, With(BareWave, "domain_boundaries", [xmin |-> "periodic"]),
  With(With(Wave, "shapes", <<Sphere("floating")>>), "domain_boundaries", [xmin |-> "periodic"]),
  With(With(Heat, "system", [type |-> "eigenvalues"]), "step_controller", [none |-> 0]),
  With(Heat, "system", [type |-> "inviscid vortex"]),
  Without(With(Heat, "system", [type |-> "inviscid vortex"]), "io"),
  With(Heat, "system", [type |-> "euler"]), Without(Heat, "system")}

MCTables == HeatTables \cup OtherTables
MCTimes == {2, 3}
MCJumps == -3 .. 3
MCHolders == Places
MCContents == Kinds
(* A program that uses handles in any way, like the tests of the classes.  *)
FreeInit == tbl = Heat /\ NothingRead /\ pc = "free" /\ todo = <<>>
FreeUse ==
  /\ pc = "free" /\ UNCHANGED <<tbl, pc, todo, parsed, parts, visit>>
  /\ \E x, y \in {"made", "t", "system"} :
       \/ DefaultConstruct(x) \/ \E c \in {"gauss1d", "lua"} : Construct(x, c)
       \/ CopyConstruct(x, y) \/ MoveConstruct(x, y)
       \/ CopyAssign(x, y) \/ MoveAssign(x, y) \/ Swap(x, y) \/ Destroy(x)

MCSpec == (ConfigInit \/ FreeInit) /\ [][ConfigNext \/ FreeUse]_configVars

BodySymmetry == Permutations(Bodies)
=============================================================================
