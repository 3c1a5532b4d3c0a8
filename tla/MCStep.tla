------------------------------- MODULE MCStep -------------------------------
(***************************************************************************)
(* What a time step does besides its loop: the right-hand-side graph       *)
(* (RhsGraph), the statistics that decide whether the run goes on          *)
(* (ScalarStats) and the dump to the output directory (FieldOutput).  The  *)
(* loop runs them one after the other and they share no state, so that     *)
(* each behaviour is one of a single component while the others rest.      *)
(***************************************************************************)
EXTENDS RhsGraph, ScalarStats, FieldOutput

VARIABLE component   \* "graph", "stats" or "output", the others rest

(* Graphs: heat in three dimensions with cuts in every direction, in two   *)
(* and in one dimension; the scalar wave with cuts in one direction, whose *)
(* three derivatives run concurrently; a laplacian and a derivative with   *)
(* graphs of their own, either overload.                                   *)
Problem(system, active, comps, dirichlet, neumann, op, filled) ==
  [system |-> system, active |-> active, comps |-> comps, dirichlet |-> dirichlet,
   neumann |-> neumann, op |-> op, filled |-> filled]
Heat(active, comps, dirichlet) ==
  Problem("heat", active, comps, dirichlet, TRUE, "plus_eq", FALSE)
Wave(active, comps, dirichlet) ==
  Problem("scalar wave", active, comps, dirichlet, FALSE, "eq", FALSE)
Laplacian(active, comps, dirichlet, neumann) ==
  Problem("laplacian", active, comps, dirichlet, neumann, "plus_eq", FALSE)

HeatOnLine == Heat({1}, {"D"}, {"D"})
MCConfigs ==
  {Heat({0, 1, 2}, Components, {"D", "Rx"}),
   Heat({0, 1}, {"D", "Rx", "Ry"}, {"Ry"}),
   HeatOnLine,
   Wave({0, 1}, {"D", "Rx"}, {"D"}),
   Wave({0, 1, 2}, {"D"}, {})}
  \cup {Laplacian({0, 2}, {"D", "Rx", "Rz"}, {"D"}, neumann) : neumann \in BOOLEAN}
  \cup {Problem("derivative", active, Components, {"D", "Ry"}, neumann, op, filled) :
           active \in {{}, {1}}, neumann \in BOOLEAN, op \in {"eq", "plus_eq"}, filled \in BOOLEAN}

(* Meshes for the statistics: fluid points only, fluid and cut points in   *)
(* one and in two components, and cut points alone.                        *)
Mesh(d, rx, ry, rz) ==
  [c \in Spaces |->
     CASE c = "D" -> d [] c = "Rx" -> rx [] c = "Ry" -> ry [] OTHER -> rz]
FluidOnly == Mesh({2, 3, 5}, {}, {}, {})
MCSelections ==
  {FluidOnly, Mesh({2, 4}, {7}, {}, {}),
   Mesh({3}, {}, {7}, {8}), Mesh({}, {}, {}, {7, 8})}
MCSol(p) == p % 3
MCValues == {-3, 1, 2, NaN, Inf, -Inf}

(* Schedules of the output: every step, every other step, by time, by      *)
(* both, and no output at all.                                             *)
NoOutput == [everyStep |-> Absent, everyTime |-> Absent, dt |-> 1]
MCOutConfigs ==
  {[everyStep |-> 1, everyTime |-> Absent, dt |-> 1],
   [everyStep |-> 2, everyTime |-> Absent, dt |-> 1],
   [everyStep |-> Absent, everyTime |-> 3, dt |-> 1],
   [everyStep |-> 2, everyTime |-> 5, dt |-> 2],
   NoOutput}

-----------------------------------------------------------------------------
(* A component at rest is in an initial state. *)
GraphRests == Init /\ cfg = HeatOnLine
StatsRest == StatsInit /\ sel = FluidOnly /\ u = [p \in Points |-> 1]
OutputRests == OutInit /\ lua = NoOutput

MCInit ==
  \/ component = "graph" /\ Init /\ StatsRest /\ OutputRests
  \/ component = "stats" /\ GraphRests /\ StatsInit /\ OutputRests
  \/ component = "output" /\ GraphRests /\ StatsRest /\ OutInit

MCNext ==
  /\ UNCHANGED component
  /\ \/ component = "graph" /\ Next /\ UNCHANGED <<statsVars, outVars>>
     \/ component = "stats" /\ StatsNext /\ UNCHANGED <<vars, outVars>>
     \/ component = "output" /\ OutNext /\ UNCHANGED <<vars, statsVars>>

MCSpec == MCInit /\ [][MCNext]_<<component, vars, statsVars, outVars>>
=============================================================================
