----------------------------- MODULE TimeMarch -----------------------------
(***************************************************************************)
(* What a simulation run promises its user, without slots, stages, graphs  *)
(* or schedules: it repeats one exact one-step map, carries the prescribed *)
(* boundary data of the current time, publishes frames that are numbered   *)
(* without gaps and hold the solution of the time they are labelled with,  *)
(* and changes nothing after it has returned.                              *)
(***************************************************************************)
EXTENDS LinearField, Sequences

VARIABLES
  method,   \* the one-step method
  step, time, sol,
  frames,   \* what has been written, in order
  result    \* what run() returned, or Running

marchVars == <<method, step, time, sol, frames, result>>

Running == [time |-> NoTime, err |-> "running"]
Methods == {"rk4", "euler", "none"}

(* The stability polynomials of the methods: exp(z) to the method's order. *)
Rk4Coefs == <<24, 24, 12, 4, 1>>
EulerCoefs == <<24, 24, 0, 0, 0>>
NoneCoefs == <<24, 0, 0, 0, 0>>
MethodCoefs(m) ==
  IF m = "rk4" THEN Rk4Coefs ELSE IF m = "euler" THEN EulerCoefs ELSE NoneCoefs

Propagate(u, t) ==
  [coef |-> TimesOneStep(u.coef, MethodCoefs(method), 24),
   bdy |-> IF method = "none" THEN u.bdy ELSE t]

Frame(k, n, t, u) == [dump |-> k, step |-> n, time |-> t, field |-> u]

MarchInit ==
  /\ method \in Methods
  /\ step = 0 /\ time = 0
  /\ sol \in {InitialField(0), ZeroField}
  /\ frames = <<>>
  /\ result = Running

(* Nothing, or the initial field, is published before the first step. *)
Open ==
  /\ result = Running /\ step = 0 /\ frames = <<>>
  /\ frames' = <<Frame(0, 0, 0, sol)>>
  /\ UNCHANGED <<method, step, time, sol, result>>

March ==
  /\ result = Running
  /\ step' = step + 1
  /\ time' >= time
  /\ sol' = Propagate(sol, time')
  /\ frames' \in {frames, Append(frames, Frame(Len(frames), step', time', sol'))}
  /\ UNCHANGED <<method, result>>

Return ==
  /\ result = Running
  /\ result' \in [time : {time, NoTime}, err : {"null", "zero", "linf"}]
  /\ UNCHANGED <<method, step, time, sol, frames>>

MarchSpec == MarchInit /\ [][Open \/ March \/ Return]_marchVars
=============================================================================
