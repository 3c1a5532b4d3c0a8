---------------------------- MODULE Integrators ----------------------------
(***************************************************************************)
(* temporal/{integrator,rk4,euler}.cpp on the four registry slots that     *)
(* simulation_cycle::run allocates, and the parts of a system they call:   *)
(* update_boundary, fill_source and submit_rhs_graph.  A slot is a View    *)
(* (buf) onto a buffer (data); the right-hand-side graph captured the      *)
(* buffers of two slots when it was built.                                 *)
(***************************************************************************)
EXTENDS Schedule, LinearField

CONSTANT Configs     \* the configurations (the Lua table) a run may have

Slots == {"u0", "u1", "rk", "srhs"}
Systems == {"heat", "scalar wave", "eigenvalues", "inviscid vortex"}

ASSUME ConfigsAssumption ==
  Configs \subseteq
    [system : Systems, integrator : {"rk4", "euler", "empty"},
     maxStep : Nat \cup {Absent}, maxTime : Nat \cup {Absent}, minDt : Int,
     half : Nat, everyStep : Nat \cup {Absent}, everyTime : Nat \cup {Absent}]

(* No configuration outruns the polynomials: one of its limits ends it     *)
(* after at most StepCap steps.                                            *)
ASSUME StepsAssumption ==
  \A c \in Configs :
    \/ EffectiveMaxStep(c) # Absent /\ EffectiveMaxStep(c) <= StepCap
    \/ c.maxTime # Absent /\ c.maxTime <= StepCap * (2 * c.half)

VARIABLES
  pc,        \* where run() and the integrator it called are
  lua,       \* the configuration, fixed for the run
  ctrl,      \* the step_controller
  buf,       \* registry: slot -> buffer its View points to
  data,      \* buffer -> contents
  graph,     \* buffers captured by build_rhs_graph, none before
  neumann,   \* time at which the system's Neumann data was evaluated
  source,    \* time at which the system's source buffers were filled
  stage,     \* Runge-Kutta stage, 1 .. 4
  rhsAt      \* history: the last RHS evaluation and the data it used

integratorVars == <<buf, data, graph, neumann, source, stage, rhsAt>>

(* scalar_wave and heat have one scalar, the other systems have none, so   *)
(* that slot_ops and deep_copy_slot have nothing to loop over.             *)
HasField == lua.system \in {"heat", "scalar wave"}

Dt == 2 * lua.half

(* Fault: the weights of the inner and outer stages are exchanged. *)
Rkf_Exchanged == <<2, 1, 1, 2>>

(* rk4.cpp: rki in halves, rkf in sixths. *)
Rki == <<0, 1, 1, 2>>
Rkf == <<1, 2, 2, 1>>

Val(s) == data[buf[s]]

StageTime(i) == ctrl.time + lua.half * Rki[i]

(* The store after writing field f through slot s of store d. *)
Write(d, s, f) == IF HasField THEN [d EXCEPT ![buf[s]] = f] ELSE d

(* deep_copy_slot. *)
DeepCopy(d, dst, src) == Write(d, dst, d[buf[src]])

(* update_boundary: Dirichlet data of the slot, and heat's Neumann data. *)
UpdateBoundary(d, s, t) == Write(d, s, [d[buf[s]] EXCEPT !.bdy = t])
NeumannAfter(t) == IF lua.system = "heat" THEN t ELSE neumann

(* system::submit_rhs_graph: heat fills its source buffers first; then the *)
(* graph runs on the buffers it captured.                                  *)
FillSource(t) == IF lua.system = "heat" THEN t ELSE source
SubmitRhs(d) ==
  IF HasField THEN [d EXCEPT ![graph.out] = ApplyL(d[graph.in])] ELSE d
RecordRhs(d, t, neu) ==
  IF HasField
  THEN [at |-> t, boundary |-> d[graph.in].bdy, neumann |-> neu,
        source |-> FillSource(t)]
  ELSE rhsAt

-----------------------------------------------------------------------------
(* rk4: zero the accumulator and the RHS, copy u0 to the output slot. *)
Rk4Begin ==
  /\ pc = "integrate" /\ lua.integrator = "rk4"
  /\ data' = DeepCopy(Write(Write(data, "rk", ZeroField), "srhs", ZeroField),
                      "u1", "u0")
  /\ stage' = 1
  /\ pc' = "stage"
  /\ UNCHANGED <<lua, ctrl, buf, graph, neumann, source, rhsAt>>

(* Fault: the stage state is formed without its boundary data. *)
StageState_NoBoundary(i) ==
  IF i = 1 THEN data
  ELSE Write(data, "u1", AssignLC(Val("u0"), Rki[i], 2, Val("srhs")))

NextStage(i) == IF i = 4 THEN i ELSE i + 1

(* One trip of rk4's stage loop: form the stage state and its boundary     *)
(* data (not for the first stage), evaluate, accumulate.                   *)
StageState(i) ==
  IF i = 1 THEN data
  ELSE UpdateBoundary(
         Write(data, "u1", AssignLC(Val("u0"), Rki[i], 2, Val("srhs"))),
         "u1", StageTime(i))

Rk4Stage ==
  LET t    == StageTime(stage)
      neu  == IF stage = 1 THEN neumann ELSE NeumannAfter(t)
      form == StageState(stage)
      rhs  == SubmitRhs(form)
  IN
  /\ pc = "stage"
  /\ neumann' = neu
  /\ source' = FillSource(t)
  /\ rhsAt' = RecordRhs(form, t, neu)
  /\ data' = Write(rhs, "rk",
                   Accumulate(rhs[buf["rk"]], Rkf[stage], 6, rhs[buf["srhs"]]))
  /\ stage' = NextStage(stage)
  /\ pc' = IF stage = 4 THEN "update" ELSE "stage"
  /\ UNCHANGED <<lua, ctrl, buf, graph>>

(* The final update of rk4 and its boundary data at the new time. *)
Rk4Update ==
  /\ pc = "update"
  /\ data' = UpdateBoundary(
               Write(data, "u1", AssignLC(Val("u0"), 1, 1, Val("rk"))),
               "u1", ctrl.time + Dt)
  /\ neumann' = NeumannAfter(ctrl.time + Dt)
  /\ pc' = "accept"
  /\ UNCHANGED <<lua, ctrl, buf, graph, source, stage, rhsAt>>

(* euler: one call does everything. *)
EulerStep ==
  LET copied == Write(DeepCopy(data, "u1", "u0"), "srhs", ZeroField)
      rhs    == SubmitRhs(copied)
      moved  == Write(rhs, "u1",
                      AssignLC(rhs[buf["u0"]], 1, 1, rhs[buf["srhs"]]))
  IN
  /\ pc = "integrate" /\ lua.integrator = "euler"
  /\ data' = UpdateBoundary(moved, "u1", ctrl.time + Dt)
  /\ rhsAt' = RecordRhs(copied, ctrl.time, neumann)
  /\ source' = FillSource(ctrl.time)
  /\ neumann' = NeumannAfter(ctrl.time + Dt)
  /\ pc' = "accept"
  /\ UNCHANGED <<lua, ctrl, buf, graph, stage>>

(* integrators::empty: std::visit finds neither branch. *)
EmptyStep ==
  /\ pc = "integrate" /\ lua.integrator = "empty"
  /\ pc' = "accept"
  /\ UNCHANGED <<lua, ctrl, integratorVars>>

Integrate == Rk4Begin \/ Rk4Stage \/ Rk4Update \/ EulerStep \/ EmptyStep
=============================================================================
