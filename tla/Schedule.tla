------------------------------ MODULE Schedule ------------------------------
(***************************************************************************)
(* When a run steps and when it writes.                                    *)
(* temporal/step_controller.{hpp,cpp} and utils/bounded.hpp: the counter   *)
(* of accepted steps and the simulation time, each bounded above.          *)
(* Times are integers (ticks); the code's limits that mean "not given"     *)
(* (numeric_limits::max) are Absent.                                       *)
(* io/interval.hpp: interval<T> and d_interval, the state that decides     *)
(* which accepted steps are written to disk.  A schedule is a record of    *)
(* the two interval origins and the dump counter; the configured distances *)
(* are lua.everyStep and lua.everyTime, Absent when the table has no such  *)
(* key.                                                                    *)
(***************************************************************************)
EXTENDS Integers

Absent == -1

(* Fault: the upper bound is taken to be inclusive. *)
Within_Inclusive(t, max) == 0 <= t /\ (max = Absent \/ t <= max)

(* bounded<T>::operator bool with t_min = 0 (the one-argument constructor). *)
Within(t, max) == 0 <= t /\ (max = Absent \/ t < max)

(* from_lua: with neither limit in the table the run takes zero steps. *)
EffectiveMaxStep(lua) ==
  IF lua.maxStep = Absent /\ lua.maxTime = Absent THEN 0 ELSE lua.maxStep

FromLua(lua) ==
  [step |-> 0, time |-> 0,
   maxStep |-> EffectiveMaxStep(lua), maxTime |-> lua.maxTime,
   minDt |-> lua.minDt]

(* operator bool: both counters are inside their bounds. *)
InBounds(ctrl) == Within(ctrl.time, ctrl.maxTime) /\ Within(ctrl.step, ctrl.maxStep)

(* Fault: a step that would pass max_time counts as too small. *)
CheckTimestepSize_Clamped(ctrl, dt) ==
  dt >= ctrl.minDt /\ Within(ctrl.time + dt, ctrl.maxTime)

CheckTimestepSize(ctrl, dt) == dt >= ctrl.minDt

Advance(ctrl, dt) == [ctrl EXCEPT !.time = @ + dt, !.step = @ + 1]

ControllerType ==
  [step : Nat, time : Nat, maxStep : Nat \cup {Absent},
   maxTime : Nat \cup {Absent}, minDt : Int]

-----------------------------------------------------------------------------
NewSchedule == [stepFirst |-> 0, timeFirst |-> 0, ndumps |-> 0]

(* Fault: the interval must be exceeded, not reached. *)
IntervalReady_Strict(every, first, val, tolerance) ==
  every # Absent /\ val - first > every - tolerance

(* interval::operator(), false without a distance. *)
IntervalReady(every, first, val, tolerance) ==
  every # Absent /\ val - first >= every - tolerance

StepReady(sched, lua, ctrl) ==
  IntervalReady(lua.everyStep, sched.stepFirst, ctrl.step, 0)

(* The time interval is asked with the step size as its tolerance. *)
TimeReady(sched, lua, ctrl, dt) ==
  IntervalReady(lua.everyTime, sched.timeFirst, ctrl.time, dt)

(* d_interval::operator(). *)
Fires(sched, lua, ctrl, dt) ==
  /\ lua.everyStep # Absent \/ lua.everyTime # Absent
  /\ StepReady(sched, lua, ctrl) \/ TimeReady(sched, lua, ctrl, dt) \/ ctrl.step = 0

(* d_interval::operator++ after a call of operator() that returned true. *)
AfterDump(sched, lua, ctrl, dt) ==
  [stepFirst |-> IF StepReady(sched, lua, ctrl)
                 THEN sched.stepFirst + lua.everyStep ELSE sched.stepFirst,
   timeFirst |-> IF TimeReady(sched, lua, ctrl, dt)
                 THEN sched.timeFirst + lua.everyTime ELSE sched.timeFirst,
   ndumps |-> sched.ndumps + 1]

ScheduleType == [stepFirst : Nat, timeFirst : Nat, ndumps : Nat]
=============================================================================
