-------------------------- MODULE SimulationCycle --------------------------
(***************************************************************************)
(* simulation/simulation_cycle.cpp: run(), composed with the step          *)
(* controller, the integrators and the dump schedule.                      *)
(***************************************************************************)
EXTENDS Integrators, Sequences

VARIABLES
  valid,    \* what sys.valid(stats) will answer for the latest stats
  sched,    \* the d_interval of field_io
  frames,   \* history: the dumps field_io has written, in order
  result    \* the real3 run() returned, or Running

vars == <<pc, lua, ctrl, buf, data, graph, neumann, source, stage, rhsAt,
          valid, sched, frames, result>>

NoGraph == [in |-> "none", out |-> "none"]
Running == [time |-> NoTime, err |-> "running"]
NoRhs == [at |-> NoTime, boundary |-> NoTime, neumann |-> NoTime, source |-> NoTime]

(* Whether a statistic is finite and below the system's limit is data the  *)
(* model leaves open after a step; before the first one the solution is    *)
(* compared with itself, the error is 0 and the system valid (max_error is *)
(* not negative).  The systems without fields answer with a constant.      *)
ValidAnswers ==
  CASE lua.system = "eigenvalues" -> {TRUE}
    [] lua.system = "inviscid vortex" -> {FALSE}
    [] OTHER -> BOOLEAN

ValidAtStart == lua.system # "inviscid vortex"

Frame(k, n, t, u) == [dump |-> k, step |-> n, time |-> t, field |-> u]

(* sys.write: heat and scalar_wave hand the slot to field_io::write, which *)
(* asks the schedule, writes and advances it; the others write nothing.    *)
Publish(c, dt, u) ==
  IF HasField /\ Fires(sched, lua, c, dt)
  THEN /\ frames' = Append(frames, Frame(sched.ndumps, c.step, c.time, u))
       /\ sched' = AfterDump(sched, lua, c, dt)
  ELSE UNCHANGED <<frames, sched>>

Init ==
  /\ lua \in Configs
  /\ pc = "setup"
  /\ ctrl = FromLua(lua)
  /\ buf = [s \in Slots |-> s]
  /\ data = [b \in Slots |-> ZeroField]
  /\ graph = NoGraph
  /\ neumann = NoTime /\ source = NoTime
  /\ stage = 1
  /\ rhsAt = NoRhs
  /\ valid = FALSE
  /\ sched = NewSchedule
  /\ frames = <<>>
  /\ result = Running

(* Everything before the loop: initial data in u0 and u1, boundary data in *)
(* u0, statistics, the initial write, the right-hand-side graph.           *)
Setup ==
  LET init == Write(data, "u0", InitialField(ctrl.time))
      both == DeepCopy(init, "u1", "u0")
  IN
  /\ pc = "setup"
  /\ data' = UpdateBoundary(both, "u0", ctrl.time)
  /\ neumann' = NeumannAfter(ctrl.time)
  /\ valid' = ValidAtStart
  /\ Publish(ctrl, 0, data'[buf["u0"]])
  /\ graph' = IF HasField THEN [in |-> buf["u1"], out |-> buf["srhs"]] ELSE NoGraph
  /\ pc' = "loop"
  /\ UNCHANGED <<lua, ctrl, buf, source, stage, rhsAt, result>>

(* The loop condition holds and the step size is acceptable. *)
StartStep ==
  /\ pc = "loop"
  /\ InBounds(ctrl) /\ valid
  /\ CheckTimestepSize(ctrl, Dt)
  /\ pc' = "integrate"
  /\ UNCHANGED <<lua, ctrl, integratorVars, valid, sched, frames, result>>

(* Fault: a step size that is too small is skipped instead of ending the run. *)
RejectStep_Continue ==
  /\ pc = "loop"
  /\ InBounds(ctrl) /\ valid
  /\ ~CheckTimestepSize(ctrl, Dt)
  /\ UNCHANGED vars

(* "required timestep too small": {null, 0, 0} at once. *)
RejectStep ==
  /\ pc = "loop"
  /\ InBounds(ctrl) /\ valid
  /\ ~CheckTimestepSize(ctrl, Dt)
  /\ result' = [time |-> NoTime, err |-> "zero"]
  /\ pc' = "done"
  /\ UNCHANGED <<lua, ctrl, integratorVars, valid, sched, frames>>

IntegrateStep == Integrate /\ UNCHANGED <<valid, sched, frames, result>>

(* Fault: the loop writes the slot the step started from. *)
WrittenSlot_Old == "u0"
WrittenSlot == "u1"

(* Fault: the registry's swap_slots instead of its deep_copy_slot. *)
CopyBack_Swap(d) ==
  [data |-> d, buf |-> [buf EXCEPT !["u0"] = buf["u1"], !["u1"] = buf["u0"]]]

(* deep_copy_slot at the end of a trip. *)
CopyBack(d) == [data |-> DeepCopy(d, "u0", "u1"), buf |-> buf]

(* After integrate(): advance the controller, statistics and output of u1, *)
(* then u1 becomes the u0 of the next trip.                                *)
AcceptStep ==
  /\ pc = "accept"
  /\ ctrl' = Advance(ctrl, Dt)
  /\ valid' \in ValidAnswers
  /\ Publish(ctrl', Dt, Val(WrittenSlot))
  /\ data' = CopyBack(data).data
  /\ buf' = CopyBack(data).buf
  /\ pc' = "loop"
  /\ UNCHANGED <<lua, graph, neumann, source, stage, rhsAt, result>>

(* What run() returns after the loop. *)
Summary(c) ==
  IF InBounds(c) THEN [time |-> c.time, err |-> "null"]
  ELSE [time |-> c.time, err |-> "linf"]

(* The loop condition fails. *)
Finish ==
  /\ pc = "loop"
  /\ ~(InBounds(ctrl) /\ valid)
  /\ result' = Summary(ctrl)
  /\ pc' = "done"
  /\ UNCHANGED <<lua, ctrl, integratorVars, valid, sched, frames>>

Returned == pc = "done" /\ UNCHANGED vars

Next ==
  \/ Setup \/ StartStep \/ RejectStep \/ IntegrateStep \/ AcceptStep
  \/ Finish \/ Returned

(* One thread executes run(): whenever it has a next statement it takes it. *)
Spec == Init /\ [][Next]_vars /\ WF_vars(Next)

-----------------------------------------------------------------------------
(* Types of all variables. *)
TypeOK ==
  /\ pc \in {"setup", "loop", "integrate", "stage", "update", "accept", "done"}
  /\ lua \in Configs
  /\ ctrl \in ControllerType
  /\ buf \in [Slots -> Slots]
  /\ data \in [Slots -> Field]
  /\ graph \in [in : Slots, out : Slots] \cup {NoGraph}
  /\ neumann \in Nat \cup {NoTime} /\ source \in Nat \cup {NoTime}
  /\ stage \in 1 .. 4
  /\ rhsAt \in [at : Nat \cup {NoTime}, boundary : Nat \cup {NoTime},
                neumann : Nat \cup {NoTime}, source : Nat \cup {NoTime}]
  /\ valid \in BOOLEAN
  /\ sched \in ScheduleType
  /\ frames \in Seq([dump : Nat, step : Nat, time : Nat, field : Field])
  /\ result \in [time : Nat \cup {NoTime}, err : {"running", "null", "zero", "linf"}]

(* The right-hand-side graph, built once, always reads the buffer behind   *)
(* u1 and writes the buffer behind srhs, and no two slots share a buffer:  *)
(* the copies at the loop end must never become swaps.                     *)
GraphBound ==
  /\ \A s, t \in Slots : s # t => buf[s] # buf[t]
  /\ (HasField /\ pc # "setup") => graph = [in |-> buf["u1"], out |-> buf["srhs"]]

(* Every evaluation of the right-hand side, in every stage of every step,  *)
(* reads Dirichlet data, Neumann data and sources of the one time it is    *)
(* evaluated at, although rk4's first stage and euler evaluate nothing     *)
(* themselves and rely on the update that ended the step before.           *)
ForcingFresh ==
  rhsAt.at # NoTime =>
    /\ rhsAt.boundary = rhsAt.at
    /\ lua.system = "heat" => rhsAt.neumann = rhsAt.at /\ rhsAt.source = rhsAt.at

(* Output files are numbered 0, 1, 2, ... and the n-th is labelled with    *)
(* the step and time of the solution it holds: its boundary data is of     *)
(* that time (write comes after advance but before the copy to u0).        *)
FramesLabelled ==
  \A i \in 1 .. Len(frames) :
    /\ frames[i].dump = i - 1
    /\ frames[i].time = frames[i].step * Dt
    /\ lua.integrator # "empty" => frames[i].field.bdy = frames[i].time

(* The run never takes a step past max_step and passes max_time by less    *)
(* than one step: nothing clamps the last step, so this is the most the    *)
(* final time can exceed the limit.                                        *)
OvershootBounded ==
  /\ ctrl.maxStep # Absent => ctrl.step <= ctrl.maxStep
  /\ (ctrl.maxTime # Absent /\ ctrl.step > 0) => ctrl.time - Dt < ctrl.maxTime

(* "required timestep too small" can only be the outcome before the first  *)
(* step: a run that has advanced is not thrown away by the min_dt check.   *)
RejectedOnlyAtStart ==
  (result # Running /\ result.err = "zero") => ctrl.step = 0

(* The dumps are those of the configured intervals and no others: step 0,  *)
(* every multiple of write_every_step, and for the k-th multiple of        *)
(* write_every_time the first step within one dt of it (one dump per step  *)
(* when dt is larger than the interval), although each interval's origin   *)
(* moves only when it fired itself.  That step may lie before the multiple *)
(* itself, which the reference does not say: see DumpsOnReach.             *)
CeilDiv(a, b) == (a + b - 1) \div b
TimeDue(s) ==
  /\ lua.everyTime # Absent
  /\ \E k \in 1 .. s :
       LET near == CeilDiv(k * lua.everyTime, Dt) - 1
       IN  s = IF k > near THEN k ELSE near
StepDue(s) ==
  /\ lua.everyStep # Absent
  /\ lua.everyStep = 0 \/ s % lua.everyStep = 0
DueSteps(n) ==
  {s \in 0 .. n : /\ lua.everyStep # Absent \/ lua.everyTime # Absent
                  /\ s = 0 \/ StepDue(s) \/ TimeDue(s)}
DumpCadence ==
  (pc = "loop" /\ HasField /\ Dt > 0) =>
    {frames[i].step : i \in 1 .. Len(frames)} = DueSteps(ctrl.step)

(* Every run returns: each accepted step moves a bounded counter, and a    *)
(* step size of zero is either rejected or the step counter is bounded.    *)
Termination == <>(pc = "done")

(* What docs/reference/io.md says of the time interval: it "fires on the   *)
(* step that first reaches the target simulation time".  Without a step    *)
(* interval the n-th dump after the initial one is then not labelled with  *)
(* a time before n intervals.  interval::operator() takes the step size    *)
(* for a tolerance and fires up to one step earlier.                       *)
DumpsOnReach ==
  lua.everyStep = Absent /\ lua.everyTime # Absent =>
    \A i \in 2 .. Len(frames) : frames[i].time >= (i - 1) * lua.everyTime

(* What the comment above the return statement says of the result: "only   *)
(* return Linf if system ends in a valid state".  A step that reaches the  *)
(* limit and spoils the solution still has its error returned.             *)
LinfOnlyIfValid ==
  (result # Running /\ result.err = "linf") => valid

(* The run implements the abstract time march: in u0 at the loop head is   *)
(* the exact n-th iterate of the method's stability polynomial, and every  *)
(* frame holds the iterate of its own step.                                *)
March == INSTANCE TimeMarch WITH
  method <- IF HasField /\ lua.integrator # "empty" THEN lua.integrator ELSE "none",
  step <- ctrl.step, time <- ctrl.time,
  sol <- IF pc = "setup" /\ HasField THEN InitialField(0) ELSE Val("u0")
RunsTimeMarch == March!MarchSpec
=============================================================================
