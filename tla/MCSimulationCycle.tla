------------------------- MODULE MCSimulationCycle -------------------------
(***************************************************************************)
(* Configurations for model checking SimulationCycle: every system with    *)
(* every integrator, limits by step, by time, by both and by neither,      *)
(* dumps by step, by time, by both and by neither.                         *)
(***************************************************************************)
EXTENDS SimulationCycle

MCScales == [n \in 0 .. StepCap |-> 24 ^ (StepCap - n)]

Limits ==   \* <<max_step, max_time, min_dt, half the step size>>
  {<<3, Absent, 1, 1>>, <<4, 5, 1, 1>>, <<Absent, 6, 1, 1>>, <<Absent, 7, 0, 1>>,
   <<2, 40, 1, 2>>, <<Absent, Absent, 1, 1>>, <<3, 9, 3, 1>>, <<0, 5, 1, 1>>,
   <<2, Absent, 0, 0>>}

Dumps ==    \* <<write_every_step, write_every_time>>
  {<<Absent, Absent>>, <<1, Absent>>, <<2, Absent>>, <<Absent, 2>>, <<Absent, 3>>,
   <<Absent, 5>>, <<2, 3>>, <<3, 4>>, <<Absent, 1>>}

MCConfigs ==
  {[system |-> sys, integrator |-> it,
    maxStep |-> l[1], maxTime |-> l[2], minDt |-> l[3], half |-> l[4],
    everyStep |-> d[1], everyTime |-> d[2]] :
      sys \in Systems, it \in {"rk4", "euler", "empty"}, l \in Limits, d \in Dumps}

(* The configurations whose steps change the solution. *)
MCFieldConfigs ==
  {c \in MCConfigs : /\ c.system \in {"heat", "scalar wave"}
                     /\ c.integrator # "empty" /\ c.half > 0}
=============================================================================
