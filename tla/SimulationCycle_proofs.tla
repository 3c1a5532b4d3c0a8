----------------------- MODULE SimulationCycle_proofs -----------------------
(***************************************************************************)
(* Theorems about SimulationCycle, for every set of configurations.        *)
(***************************************************************************)
EXTENDS SimulationCycle, TLAPS

(* The field operations keep their types; a linear combination keeps the   *)
(* boundary data of its first operand.                                     *)
LEMMA FieldOps ==
  /\ ZeroField \in Field
  /\ \A t \in Nat : InitialField(t) \in Field /\ InitialField(t).bdy = t
  /\ \A u \in Field : ApplyL(u) \in Field
  /\ \A u, v \in Field, num \in Nat, den \in Nat \ {0} :
       AssignLC(u, num, den, v) \in Field /\ AssignLC(u, num, den, v).bdy = u.bdy
  /\ \A u \in Field, t \in Nat :
       [u EXCEPT !.bdy = t] \in Field /\ [u EXCEPT !.bdy = t].bdy = t
<1>. USE LinearFieldAssumption DEF Field, Coefs, Degree, NoTime
<1>1. ZeroField \in Field
  BY DEF ZeroField
<1>2. \A t \in Nat : InitialField(t) \in Field /\ InitialField(t).bdy = t
  <2>1. Scale \in Int
    BY DEF Scale
  <2>. QED BY <2>1 DEF InitialField
<1>3. ASSUME NEW u \in Field PROVE ApplyL(u) \in Field
  BY DEF ApplyL
<1>4. ASSUME NEW u \in Field, NEW v \in Field, NEW num \in Nat, NEW den \in Nat \ {0}
      PROVE  AssignLC(u, num, den, v) \in Field /\ AssignLC(u, num, den, v).bdy = u.bdy
  <2>1. \A k \in 0 .. Degree : u.coef[k] + (num * v.coef[k]) \div den \in Int
    <3>1. SUFFICES ASSUME NEW k \in 0 .. Degree
                   PROVE  u.coef[k] + (num * v.coef[k]) \div den \in Int
      OBVIOUS
    <3>2. u.coef[k] \in Int /\ v.coef[k] \in Int
      OBVIOUS
    <3>3. num * v.coef[k] \in Int
      BY <3>2
    <3>4. \A a \in Int : a \div den \in Int
      OBVIOUS
    <3>5. (num * v.coef[k]) \div den \in Int
      BY <3>3, <3>4, Zenon
    <3>. QED BY <3>2, <3>5
  <2>. QED BY <2>1 DEF AssignLC
<1>5. ASSUME NEW u \in Field, NEW t \in Nat
      PROVE  [u EXCEPT !.bdy = t] \in Field /\ [u EXCEPT !.bdy = t].bdy = t
  OBVIOUS
<1>. QED BY <1>1, <1>2, <1>3, <1>4, <1>5

(* slot_assign_lc and slot_accumulate keep types and boundary data. *)
LEMMA LcType ==
  ASSUME NEW u \in Field, NEW v \in Field, NEW num \in Nat, NEW den \in Nat \ {0}
  PROVE  /\ AssignLC(u, num, den, v) \in Field
         /\ AssignLC(u, num, den, v).bdy = u.bdy
         /\ Accumulate(u, num, den, v) \in Field
BY FieldOps DEF Accumulate

(* advance moves the two counters and leaves the limits alone. *)
LEMMA AdvanceType ==
  ASSUME NEW c \in ControllerType, NEW dt \in Nat
  PROVE  /\ Advance(c, dt) \in ControllerType
         /\ Advance(c, dt).time = c.time + dt /\ Advance(c, dt).step = c.step + 1
         /\ Advance(c, dt).maxTime = c.maxTime /\ Advance(c, dt).maxStep = c.maxStep
         /\ Advance(c, dt).minDt = c.minDt
<1>1. c.time + dt \in Nat /\ c.step + 1 \in Nat
  BY DEF ControllerType
<1>. QED BY <1>1 DEF Advance, ControllerType

(* Writing a field through a slot keeps the store's type. *)
LEMMA WriteType ==
  ASSUME NEW d \in [Slots -> Field], NEW s, NEW f \in Field
  PROVE  Write(d, s, f) \in [Slots -> Field]
BY DEF Write

(* The configuration's types, from the assumption on Configs. *)
LEMMA ConfigType ==
  ASSUME lua \in Configs
  PROVE  /\ lua.system \in Systems /\ lua.integrator \in {"rk4", "euler", "empty"}
         /\ lua.half \in Nat /\ Dt \in Nat
         /\ lua.minDt \in Int
         /\ lua.maxStep \in Nat \cup {Absent} /\ lua.maxTime \in Nat \cup {Absent}
         /\ lua.everyStep \in Nat \cup {Absent} /\ lua.everyTime \in Nat \cup {Absent}
BY ConfigsAssumption DEF Dt

-----------------------------------------------------------------------------
(* Views never move: with buf the identity, a slot is its buffer. *)
Identity == [s \in Slots |-> s]
Bound ==
  /\ buf = Identity
  /\ graph = IF HasField /\ pc # "setup" THEN [in |-> "u1", out |-> "srhs"] ELSE NoGraph

(* run() and the integrators only copy between slots. *)
LEMMA BoundInvariant == Spec => []Bound
<1>1. Init => Bound
  BY DEF Init, Bound, Identity
<1>2. Bound /\ [Next]_vars => Bound'
  <2>. SUFFICES ASSUME Bound, [Next]_vars PROVE Bound'
    OBVIOUS
  <2>. USE DEF Bound, Identity, HasField
  <2>1. CASE Setup
    BY <2>1 DEF Setup, Slots
  <2>2. CASE StartStep
    BY <2>2 DEF StartStep, integratorVars
  <2>3. CASE RejectStep
    BY <2>3 DEF RejectStep, integratorVars
  <2>4. CASE Rk4Begin
    BY <2>4 DEF Rk4Begin
  <2>5. CASE Rk4Stage
    BY <2>5 DEF Rk4Stage
  <2>6. CASE Rk4Update
    BY <2>6 DEF Rk4Update
  <2>7. CASE EulerStep
    BY <2>7 DEF EulerStep
  <2>8. CASE EmptyStep
    BY <2>8 DEF EmptyStep, integratorVars
  <2>9. CASE AcceptStep
    BY <2>9 DEF AcceptStep, CopyBack
  <2>10. CASE Finish
    BY <2>10 DEF Finish, integratorVars
  <2>11. CASE UNCHANGED vars
    BY <2>11 DEF vars
  <2>. QED
    BY <2>1, <2>2, <2>3, <2>4, <2>5, <2>6, <2>7, <2>8, <2>9, <2>10, <2>11
       DEF Next, IntegrateStep, Integrate, Returned
<1>. QED BY <1>1, <1>2, PTL DEF Spec

(* The graph built before the loop stays bound to the slots the            *)
(* integrators work on.                                                    *)
THEOREM GraphStaysBound == Spec => []GraphBound
<1>1. Bound => GraphBound
  BY DEF Bound, GraphBound, Identity, Slots
<1>. QED BY <1>1, BoundInvariant, PTL

-----------------------------------------------------------------------------
(* Appending to a sequence. *)
LEMMA AppendType ==
  ASSUME NEW S, NEW s \in Seq(S), NEW e \in S
  PROVE  Append(s, e) \in Seq(S) /\ Len(Append(s, e)) = Len(s) + 1
OBVIOUS

(* One accepted dump keeps the schedule's type and counts one dump. *)
LEMMA PublishType ==
  ASSUME lua \in Configs, sched \in ScheduleType, NEW c \in ControllerType,
         NEW dt \in Nat, NEW u \in Field,
         frames \in Seq([dump : Nat, step : Nat, time : Nat, field : Field]),
         Publish(c, dt, u)
  PROVE  /\ sched' \in ScheduleType
         /\ frames' \in Seq([dump : Nat, step : Nat, time : Nat, field : Field])
<1>. DEFINE Row == [dump : Nat, step : Nat, time : Nat, field : Field]
           row == Frame(sched.ndumps, c.step, c.time, u)
<1>1. CASE HasField /\ Fires(sched, lua, c, dt)
  <2>1. row \in Row
    BY DEF Frame, ScheduleType, ControllerType
  <2>2. frames' = Append(frames, row)
    BY <1>1 DEF Publish
  <2>. HIDE DEF Row, row
  <2>4. frames \in Seq(Row)
    BY DEF Row
  <2>5. frames' \in Seq(Row)
    BY <2>1, <2>2, <2>4, AppendType
  <2>3. AfterDump(sched, lua, c, dt) \in ScheduleType
    <3>1. StepReady(sched, lua, c) => lua.everyStep \in Nat
      BY ConfigType DEF StepReady, IntervalReady
    <3>2. TimeReady(sched, lua, c, dt) => lua.everyTime \in Nat
      BY ConfigType DEF TimeReady, IntervalReady
    <3>. QED BY <3>1, <3>2 DEF AfterDump, ScheduleType
  <2>. QED BY <1>1, <2>5, <2>3 DEF Publish, Row
<1>2. CASE ~(HasField /\ Fires(sched, lua, c, dt))
  BY <1>2 DEF Publish
<1>. QED BY <1>1, <1>2

(* The Runge-Kutta stages' times; the first is the controller's. *)
LEMMA StageTimes ==
  ASSUME lua \in Configs, ctrl \in ControllerType, NEW i \in 1 .. 4
  PROVE  /\ StageTime(i) \in Nat
         /\ StageTime(1) = ctrl.time
         /\ Rki[i] \in Nat /\ Rkf[i] \in Nat
<1>1. Rki[i] \in Nat /\ Rkf[i] \in Nat /\ Rki[1] = 0
  BY DEF Rki, Rkf
<1>2. ctrl.time \in Nat /\ lua.half \in Nat
  BY ConfigType DEF ControllerType
<1>3. \A a, b \in Nat : a * b \in Nat /\ a * 0 = 0
  OBVIOUS
<1>. QED BY <1>1, <1>2, <1>3 DEF StageTime

(* Running the graph keeps the store's type. *)
LEMMA SubmitType ==
  ASSUME Bound, pc # "setup", NEW d \in [Slots -> Field]
  PROVE  SubmitRhs(d) \in [Slots -> Field]
BY FieldOps DEF SubmitRhs, Bound, Slots

(* Type correctness of run() and all it calls. *)
THEOREM TypeCorrect == Spec => []TypeOK
<1>1. Init => TypeOK
  <2>. SUFFICES ASSUME Init PROVE TypeOK
    OBVIOUS
  <2>1. lua \in Configs
    BY DEF Init
  <2>2. ctrl \in ControllerType
    BY <2>1, ConfigType DEF Init, FromLua, ControllerType, EffectiveMaxStep
  <2>3. data \in [Slots -> Field] /\ buf \in [Slots -> Slots]
    BY FieldOps DEF Init
  <2>4. graph \in [in : Slots, out : Slots] \cup {NoGraph}
    BY DEF Init
  <2>5. sched \in ScheduleType
    BY DEF Init, ScheduleType, NewSchedule
  <2>6. frames \in Seq([dump : Nat, step : Nat, time : Nat, field : Field])
    BY DEF Init
  <2>7. rhsAt \in [at : Nat \cup {NoTime}, boundary : Nat \cup {NoTime},
                   neumann : Nat \cup {NoTime}, source : Nat \cup {NoTime}]
    BY DEF Init, NoRhs
  <2>8. result \in [time : Nat \cup {NoTime}, err : {"running", "null", "zero", "linf"}]
    BY DEF Init, Running
  <2>9. valid \in BOOLEAN
    BY DEF Init
  <2>10. pc = "setup" /\ stage \in 1 .. 4 /\ neumann = NoTime /\ source = NoTime
    BY DEF Init
  <2>. QED
    BY <2>1, <2>2, <2>3, <2>4, <2>5, <2>6, <2>7, <2>8, <2>9, <2>10 DEF TypeOK
<1>2. TypeOK /\ Bound /\ [Next]_vars => TypeOK'
  <2>. SUFFICES ASSUME TypeOK, Bound, [Next]_vars PROVE TypeOK'
    OBVIOUS
  <2>. DEFINE Stores == [Slots -> Field]
  <2>c. lua \in Configs /\ ctrl \in ControllerType /\ data \in Stores /\ buf \in [Slots -> Slots]
    BY DEF TypeOK
  <2>b. ctrl.time \in Nat /\ ctrl.step \in Nat /\ Dt \in Nat /\ ctrl.time + Dt \in Nat
    BY <2>c, ConfigType DEF ControllerType
  <2>d. \A t \in Nat : NeumannAfter(t) \in Nat \cup {NoTime} /\ FillSource(t) \in Nat \cup {NoTime}
    BY DEF NeumannAfter, FillSource, TypeOK
  <2>w. \A d \in Stores, s \in Slots, f \in Field : Write(d, s, f) \in Stores
    BY <2>c, WriteType
  <2>y. \A d \in Stores, s, t \in Slots : DeepCopy(d, s, t) \in Stores
    BY <2>c, <2>w DEF DeepCopy
  <2>u. \A d \in Stores, s \in Slots, t \in Nat : UpdateBoundary(d, s, t) \in Stores
    BY <2>c, <2>w, FieldOps DEF UpdateBoundary
  <2>s. "u0" \in Slots /\ "u1" \in Slots /\ "rk" \in Slots /\ "srhs" \in Slots
    BY DEF Slots
  <2>r. ASSUME NEW d \in Stores, NEW t \in Nat, NEW n \in Nat \cup {NoTime}, pc # "setup"
        PROVE  RecordRhs(d, t, n) \in [at : Nat \cup {NoTime}, boundary : Nat \cup {NoTime},
                                   neumann : Nat \cup {NoTime}, source : Nat \cup {NoTime}]
    <3>1. CASE HasField
      <4>1. graph.in \in Slots
        BY <2>r, <3>1 DEF Bound, Slots
      <4>2. d[graph.in].bdy \in Nat \cup {NoTime}
        BY <4>1 DEF Field
      <4>. QED BY <3>1, <4>2, <2>d DEF RecordRhs
    <3>2. CASE ~HasField
      BY <3>2 DEF RecordRhs, TypeOK
    <3>. QED BY <3>1, <3>2
  <2>1. CASE Setup
    <3>1. Write(data, "u0", InitialField(ctrl.time)) \in Stores
      BY <2>b, <2>c, <2>s, <2>w, FieldOps
    <3>2. data' \in Stores
      BY <3>1, <2>1, <2>b, <2>s, <2>y, <2>u DEF Setup
    <3>3. data'[buf["u0"]] \in Field
      BY <3>2, <2>c, <2>s
    <3>4. /\ sched' \in ScheduleType
          /\ frames' \in Seq([dump : Nat, step : Nat, time : Nat, field : Field])
      BY <2>1, <2>c, <3>3, PublishType DEF Setup, TypeOK
    <3>5. valid' \in BOOLEAN
      BY <2>1 DEF Setup, ValidAtStart
    <3>6. graph' \in [in : Slots, out : Slots] \cup {NoGraph}
      BY <2>1, <2>c, <2>s DEF Setup
    <3>7. neumann' \in Nat \cup {NoTime}
      BY <2>1, <2>b, <2>d DEF Setup
    <3>. QED BY <2>1, <3>2, <3>4, <3>5, <3>6, <3>7 DEF Setup, TypeOK
  <2>2. CASE StartStep
    BY <2>2 DEF StartStep, integratorVars, TypeOK
  <2>3. CASE RejectStep
    BY <2>3 DEF RejectStep, integratorVars, TypeOK
  <2>4. CASE Rk4Begin /\ UNCHANGED <<valid, sched, frames, result>>
    <3>1. data' \in Stores
      BY <2>4, <2>c, <2>s, <2>w, <2>y, FieldOps DEF Rk4Begin
    <3>. QED BY <2>4, <3>1 DEF Rk4Begin, TypeOK
  <2>5. CASE Rk4Stage /\ UNCHANGED <<valid, sched, frames, result>>
    <3>. DEFINE t == StageTime(stage)
                neu == IF stage = 1 THEN neumann ELSE NeumannAfter(t)
                form == StageState(stage)
                rhs == SubmitRhs(form)
    <3>0. stage \in 1 .. 4 /\ neumann \in Nat \cup {NoTime} /\ pc # "setup"
      BY <2>5 DEF TypeOK, Rk4Stage
    <3>1. t \in Nat /\ Rki[stage] \in Nat /\ Rkf[stage] \in Nat
      BY <3>0, <2>c, StageTimes
    <3>2. form \in Stores
      <4>1. Val("u0") \in Field /\ Val("srhs") \in Field
        BY <2>c, <2>s DEF Val
      <4>2. AssignLC(Val("u0"), Rki[stage], 2, Val("srhs")) \in Field
        <5>1. 2 \in Nat \ {0}
          OBVIOUS
        <5>. QED BY <5>1, <4>1, <3>1, LcType
      <4>. QED BY <4>2, <3>1, <2>c, <2>s, <2>w, <2>u DEF StageState
    <3>3. rhs \in Stores
      BY <3>0, <3>2, SubmitType
    <3>4. Accumulate(rhs[buf["rk"]], Rkf[stage], 6, rhs[buf["srhs"]]) \in Field
      <4>1. rhs[buf["rk"]] \in Field /\ rhs[buf["srhs"]] \in Field
        BY <3>3, <2>c, <2>s
      <4>2. 6 \in Nat \ {0}
        OBVIOUS
      <4>. QED BY <4>1, <4>2, <3>1, LcType
    <3>5. data' \in Stores
      BY <2>5, <3>3, <3>4, <2>s, <2>w DEF Rk4Stage
    <3>6. neu \in Nat \cup {NoTime}
      BY <3>0, <3>1, <2>d
    <3>7. neumann' \in Nat \cup {NoTime} /\ source' \in Nat \cup {NoTime}
      BY <2>5, <3>1, <3>6, <2>d DEF Rk4Stage
    <3>8. rhsAt' \in [at : Nat \cup {NoTime}, boundary : Nat \cup {NoTime},
                      neumann : Nat \cup {NoTime}, source : Nat \cup {NoTime}]
      BY <2>5, <3>0, <3>1, <3>2, <3>6, <2>r DEF Rk4Stage
    <3>9. stage' \in 1 .. 4
      BY <2>5, <3>0 DEF Rk4Stage, NextStage
    <3>. QED BY <2>5, <3>5, <3>7, <3>8, <3>9 DEF Rk4Stage, TypeOK
  <2>6. CASE Rk4Update /\ UNCHANGED <<valid, sched, frames, result>>
    <3>1. Val("u0") \in Field /\ Val("rk") \in Field
      BY <2>c, <2>s DEF Val
    <3>2. AssignLC(Val("u0"), 1, 1, Val("rk")) \in Field
      BY <3>1, FieldOps
    <3>3. data' \in Stores
      BY <2>6, <3>2, <2>b, <2>c, <2>s, <2>w, <2>u DEF Rk4Update
    <3>. QED BY <2>6, <3>3, <2>b, <2>d DEF Rk4Update, TypeOK
  <2>7. CASE EulerStep /\ UNCHANGED <<valid, sched, frames, result>>
    <3>. DEFINE copied == Write(DeepCopy(data, "u1", "u0"), "srhs", ZeroField)
                rhs == SubmitRhs(copied)
                next == AssignLC(rhs[buf["u0"]], 1, 1, rhs[buf["srhs"]])
    <3>0. pc # "setup" /\ neumann \in Nat \cup {NoTime}
      BY <2>7 DEF EulerStep, TypeOK
    <3>1. copied \in Stores
      BY <2>c, <2>s, <2>w, <2>y, FieldOps
    <3>2. rhs \in Stores
      BY <3>0, <3>1, SubmitType
    <3>3. next \in Field
      BY <3>2, <2>c, <2>s, FieldOps
    <3>4. Write(rhs, "u1", next) \in Stores
      BY <3>2, <3>3, <2>s, <2>w
    <3>5. data' \in Stores
      BY <2>7, <3>4, <2>b, <2>s, <2>u DEF EulerStep
    <3>6. rhsAt' \in [at : Nat \cup {NoTime}, boundary : Nat \cup {NoTime},
                      neumann : Nat \cup {NoTime}, source : Nat \cup {NoTime}]
      BY <2>7, <3>0, <3>1, <2>b, <2>r DEF EulerStep
    <3>. QED BY <2>7, <3>5, <3>6, <2>b, <2>d DEF EulerStep, TypeOK
  <2>8. CASE EmptyStep /\ UNCHANGED <<valid, sched, frames, result>>
    BY <2>8 DEF EmptyStep, integratorVars, TypeOK
  <2>9. CASE AcceptStep
    <3>1. ctrl' \in ControllerType
      BY <2>9, <2>b, <2>c, AdvanceType DEF AcceptStep
    <3>2. Val(WrittenSlot) \in Field
      BY <2>c, <2>s DEF Val, WrittenSlot
    <3>3. /\ sched' \in ScheduleType
          /\ frames' \in Seq([dump : Nat, step : Nat, time : Nat, field : Field])
      BY <2>9, <2>b, <2>c, <3>1, <3>2, PublishType DEF AcceptStep, TypeOK
    <3>4. data' \in Stores /\ buf' \in [Slots -> Slots]
      BY <2>9, <2>c, <2>s, <2>y DEF AcceptStep, CopyBack
    <3>5. valid' \in BOOLEAN
      BY <2>9 DEF AcceptStep, ValidAnswers
    <3>. QED BY <2>9, <3>1, <3>3, <3>4, <3>5 DEF AcceptStep, TypeOK
  <2>10. CASE Finish
    BY <2>10, <2>b DEF Finish, Summary, integratorVars, TypeOK
  <2>11. CASE UNCHANGED vars
    BY <2>11 DEF vars, TypeOK
  <2>. QED
    BY <2>1, <2>2, <2>3, <2>4, <2>5, <2>6, <2>7, <2>8, <2>9, <2>10, <2>11
       DEF Next, IntegrateStep, Integrate, Returned
<1>. QED BY <1>1, <1>2, BoundInvariant, PTL DEF Spec

-----------------------------------------------------------------------------
(* What the stages rely on without evaluating it themselves: at the loop   *)
(* head u0 carries boundary data of the current time, and the integrator   *)
(* ends with u1 and the Neumann data at the next one.                      *)
Evaluates == HasField /\ lua.integrator # "empty"
FirstStage == pc = "stage" /\ stage = 1
Fresh ==
  /\ pc \in {"stage", "update"} => lua.integrator = "rk4"
  /\ Evaluates =>
       /\ pc \in {"loop", "integrate", "stage", "update"} => data["u0"].bdy = ctrl.time
       /\ FirstStage => data["u1"].bdy = ctrl.time
       /\ pc = "accept" => data["u1"].bdy = ctrl.time + Dt
       /\ lua.system = "heat" =>
            /\ pc \in {"loop", "integrate"} \/ FirstStage => neumann = ctrl.time
            /\ pc = "accept" => neumann = ctrl.time + Dt
  /\ ForcingFresh

(* What one write through a slot of an identity store does. *)
LEMMA WriteAt ==
  ASSUME Bound, NEW d \in [Slots -> Field], NEW s \in Slots, NEW f \in Field
  PROVE  /\ HasField => Write(d, s, f)[s] = f
         /\ \A t \in Slots : t # s => Write(d, s, f)[t] = d[t]
BY DEF Bound, Identity, Write

(* update_boundary changes the slot it is given and no other. *)
LEMMA BoundaryAt ==
  ASSUME Bound, NEW d \in [Slots -> Field], NEW s \in Slots, NEW t \in Nat
  PROVE  /\ UpdateBoundary(d, s, t) \in [Slots -> Field]
         /\ HasField => UpdateBoundary(d, s, t)[s].bdy = t
         /\ \A r \in Slots : r # s => UpdateBoundary(d, s, t)[r] = d[r]
<1>1. buf[s] = s /\ d[s] \in Field
  BY DEF Bound, Identity
<1>2. [d[s] EXCEPT !.bdy = t] \in Field /\ [d[s] EXCEPT !.bdy = t].bdy = t
  BY <1>1, FieldOps
<1>. DEFINE f == [d[s] EXCEPT !.bdy = t]
<1>3. UpdateBoundary(d, s, t) = Write(d, s, f)
  BY <1>1 DEF UpdateBoundary
<1>4. f \in Field /\ f.bdy = t
  BY <1>2
<1>. HIDE DEF f
<1>5. Write(d, s, f) \in [Slots -> Field]
  BY <1>4, WriteType
<1>6. (HasField => Write(d, s, f)[s] = f) /\ \A r \in Slots : r # s => Write(d, s, f)[r] = d[r]
  BY <1>4, WriteAt
<1>. QED BY <1>3, <1>4, <1>5, <1>6

(* The graph changes srhs only. *)
LEMMA SubmitAt ==
  ASSUME Bound, pc # "setup", NEW d \in [Slots -> Field]
  PROVE  \A s \in Slots : s # "srhs" => SubmitRhs(d)[s] = d[s]
BY DEF SubmitRhs, Bound

(* deep_copy_slot changes its destination and no other slot. *)
LEMMA CopyAt ==
  ASSUME Bound, NEW d \in [Slots -> Field], NEW s \in Slots, NEW t \in Slots
  PROVE  /\ DeepCopy(d, s, t) \in [Slots -> Field]
         /\ HasField => DeepCopy(d, s, t)[s] = d[t]
         /\ \A r \in Slots : r # s => DeepCopy(d, s, t)[r] = d[r]
<1>1. buf[t] = t /\ d[t] \in Field
  BY DEF Bound, Identity
<1>. QED BY <1>1, WriteAt, WriteType DEF DeepCopy

(* Boundary, Neumann and source data are of the time each point needs. *)
LEMMA FreshInvariant == Spec => []Fresh
<1>1. Init => Fresh
  BY DEF Init, Fresh, FirstStage, ForcingFresh, NoRhs
<1>2. TypeOK /\ Bound /\ Fresh /\ [Next]_vars => Fresh'
  <2>. SUFFICES ASSUME TypeOK, Bound, Fresh, [Next]_vars PROVE Fresh'
    OBVIOUS
  <2>. DEFINE Stores == [Slots -> Field]
  <2>c. lua \in Configs /\ ctrl \in ControllerType /\ data \in Stores
    BY DEF TypeOK
  <2>b. ctrl.time \in Nat /\ Dt \in Nat /\ ctrl.time + Dt \in Nat
    BY <2>c, ConfigType DEF ControllerType
  <2>s. "u0" \in Slots /\ "u1" \in Slots /\ "rk" \in Slots /\ "srhs" \in Slots
    BY DEF Slots
  <2>i. buf["u0"] = "u0" /\ buf["u1"] = "u1" /\ buf["rk"] = "rk" /\ buf["srhs"] = "srhs"
    BY <2>s DEF Bound, Identity
  <2>g. HasField /\ pc # "setup" => graph.in = "u1"
    BY DEF Bound
  <2>1. CASE Setup
    <3>. DEFINE init == Write(data, "u0", InitialField(ctrl.time))
                both == DeepCopy(init, "u1", "u0")
    <3>1. both \in Stores
      BY <2>b, <2>c, <2>s, WriteType, CopyAt, FieldOps
    <3>2. HasField => data'["u0"].bdy = ctrl.time
      BY <3>1, <2>1, <2>b, <2>s, BoundaryAt DEF Setup
    <3>. QED
      BY <3>2, <2>1
         DEF Setup, Fresh, Evaluates, HasField, FirstStage, NeumannAfter, ForcingFresh
  <2>2. CASE StartStep
    BY <2>2 DEF StartStep, integratorVars, Fresh, Evaluates, HasField, FirstStage, ForcingFresh
  <2>3. CASE RejectStep
    BY <2>3 DEF RejectStep, integratorVars, Fresh, Evaluates, HasField, FirstStage, ForcingFresh
  <2>4. CASE Rk4Begin /\ UNCHANGED <<valid, sched, frames, result>>
    <3>. DEFINE first == Write(data, "rk", ZeroField)
                zeroed == Write(first, "srhs", ZeroField)
    <3>z. ZeroField \in Field
      BY FieldOps
    <3>f. first \in Stores /\ first["u0"] = data["u0"]
      BY <3>z, <2>c, <2>s, WriteType, WriteAt
    <3>d. data' = DeepCopy(zeroed, "u1", "u0")
      BY <2>4 DEF Rk4Begin
    <3>. HIDE DEF first
    <3>1. zeroed \in Stores /\ zeroed["u0"] = data["u0"]
      BY <3>z, <3>f, <2>s, WriteType, WriteAt
    <3>. HIDE DEF zeroed
    <3>2. /\ data'["u0"] = data["u0"]
          /\ HasField => data'["u1"] = data["u0"]
      <4>1. "u0" # "u1"
        OBVIOUS
      <4>2. zeroed \in Stores
        BY <3>1
      <4>3. DeepCopy(zeroed, "u1", "u0")["u0"] = zeroed["u0"]
        <5>1. \A r \in Slots : r # "u1" => DeepCopy(zeroed, "u1", "u0")[r] = zeroed[r]
          BY <4>2, <2>s, CopyAt
        <5>. QED BY <5>1, <4>1, <2>s
      <4>4. HasField => DeepCopy(zeroed, "u1", "u0")["u1"] = zeroed["u0"]
        BY <4>2, <2>s, CopyAt
      <4>. QED BY <3>1, <3>d, <4>3, <4>4
    <3>. QED
      BY <3>2, <2>4 DEF Rk4Begin, Fresh, Evaluates, HasField, FirstStage, ForcingFresh, Dt
  <2>5. CASE Rk4Stage /\ UNCHANGED <<valid, sched, frames, result>>
    <3>. DEFINE t == StageTime(stage)
                neu == IF stage = 1 THEN neumann ELSE NeumannAfter(t)
                lc == AssignLC(Val("u0"), Rki[stage], 2, Val("srhs"))
                form == StageState(stage)
                rhs == SubmitRhs(form)
                acc == Accumulate(rhs["rk"], Rkf[stage], 6, rhs["srhs"])
    <3>0. stage \in 1 .. 4 /\ pc = "stage" /\ lua.integrator = "rk4"
      BY <2>5 DEF TypeOK, Rk4Stage, Fresh
    <3>1. /\ t \in Nat /\ Rki[stage] \in Nat /\ Rkf[stage] \in Nat
          /\ stage = 1 => t = ctrl.time
      BY <3>0, <2>c, StageTimes
    <3>n. 2 \in Nat \ {0} /\ 6 \in Nat \ {0}
      OBVIOUS
    <3>2. lc \in Field
      BY <3>1, <3>n, <2>c, <2>s, <2>i, LcType DEF Val
    <3>. DEFINE Good == /\ form \in Stores /\ form["u0"] = data["u0"]
                        /\ HasField => form["u1"].bdy = t
                        /\ (HasField /\ lua.system = "heat") => neu = t
    <3>3. ASSUME stage = 1 PROVE Good
      <4>1. form = data /\ t = ctrl.time /\ neu = neumann
        BY <3>1, <3>3 DEF StageState
      <4>2. HasField => form["u1"].bdy = t
        BY <4>1, <3>0, <3>3 DEF Fresh, Evaluates, FirstStage
      <4>3. (HasField /\ lua.system = "heat") => neu = t
        BY <4>1, <3>0, <3>3 DEF Fresh, Evaluates, FirstStage
      <4>4. form \in Stores /\ form["u0"] = data["u0"]
        BY <4>1, <2>c
      <4>. QED BY <4>2, <4>3, <4>4
    <3>4. ASSUME stage # 1 PROVE Good
      <4>. DEFINE moved == Write(data, "u1", lc)
      <4>1. form = UpdateBoundary(moved, "u1", t)
        BY <3>4 DEF StageState
      <4>2. moved \in Stores /\ moved["u0"] = data["u0"]
        BY <3>2, <2>c, <2>s, WriteType, WriteAt
      <4>4. lua.system = "heat" => neu = t
        BY <3>4 DEF NeumannAfter
      <4>5. t \in Nat
        BY <3>1
      <4>. HIDE DEF form, t, neu, lc, moved
      <4>3. form \in Stores /\ form["u0"] = data["u0"] /\ (HasField => form["u1"].bdy = t)
        BY <4>1, <4>2, <4>5, <2>s, BoundaryAt
      <4>. QED BY <4>3, <4>4
    <3>5. Good
      BY <3>3, <3>4
    <3>. HIDE DEF t, neu, lc, form
    <3>6. /\ data' = Write(rhs, "rk", acc)
          /\ neumann' = neu
          /\ rhsAt' = RecordRhs(form, t, neu)
          /\ pc' \in {"stage", "update"}
          /\ pc' = "stage" => stage' # 1
          /\ UNCHANGED <<lua, ctrl>>
      BY <2>5, <2>i, <3>0 DEF Rk4Stage, t, neu, form, NextStage
    <3>7. rhs \in Stores /\ rhs["u0"] = form["u0"]
      BY <3>0, <3>5, <2>s, SubmitType, SubmitAt
    <3>8. acc \in Field
      BY <3>1, <3>7, <3>n, <2>s, LcType
    <3>9. data'["u0"] = data["u0"]
      BY <3>5, <3>6, <3>7, <3>8, <2>s, WriteAt
    <3>10. ForcingFresh'
      <4>1. CASE HasField
        <5>1. rhsAt' = [at |-> t, boundary |-> form["u1"].bdy, neumann |-> neu,
                        source |-> FillSource(t)]
          BY <4>1, <3>0, <3>6, <2>g DEF RecordRhs
        <5>. QED BY <4>1, <5>1, <3>5, <3>6 DEF ForcingFresh, FillSource
      <4>2. CASE ~HasField
        BY <4>2, <3>6 DEF RecordRhs, ForcingFresh, Fresh
      <4>. QED BY <4>1, <4>2
    <3>. QED
      BY <3>0, <3>6, <3>9, <3>10 DEF Fresh, Evaluates, HasField, FirstStage, Dt
  <2>6. CASE Rk4Update /\ UNCHANGED <<valid, sched, frames, result>>
    <3>. DEFINE lc == AssignLC(Val("u0"), 1, 1, Val("rk"))
    <3>1. lc \in Field
      <4>1. 1 \in Nat \ {0}
        OBVIOUS
      <4>. QED BY <4>1, <2>c, <2>s, <2>i, LcType DEF Val
    <3>2. Write(data, "u1", lc) \in Stores
      BY <3>1, <2>c, <2>s, WriteType
    <3>3. HasField => data'["u1"].bdy = ctrl.time + Dt
      BY <3>2, <2>6, <2>b, <2>s, BoundaryAt DEF Rk4Update
    <3>. QED
      BY <3>3, <2>6
         DEF Rk4Update, Fresh, Evaluates, HasField, FirstStage, NeumannAfter, ForcingFresh, Dt
  <2>7. CASE EulerStep /\ UNCHANGED <<valid, sched, frames, result>>
    <3>. DEFINE copied == Write(DeepCopy(data, "u1", "u0"), "srhs", ZeroField)
                rhs == SubmitRhs(copied)
                next == AssignLC(rhs[buf["u0"]], 1, 1, rhs[buf["srhs"]])
    <3>0. pc = "integrate" /\ lua.integrator = "euler"
      BY <2>7 DEF EulerStep
    <3>1. copied \in Stores /\ (HasField => copied["u1"] = data["u0"])
      <4>. DEFINE dup == DeepCopy(data, "u1", "u0")
      <4>1. /\ dup \in Stores
            /\ HasField => dup["u1"] = data["u0"]
        BY <2>c, <2>s, CopyAt
      <4>2. ZeroField \in Field
        BY FieldOps
      <4>3. "u1" # "srhs"
        OBVIOUS
      <4>. HIDE DEF dup
      <4>4. Write(dup, "srhs", ZeroField) \in Stores
        BY <4>1, <4>2, WriteType
      <4>5. Write(dup, "srhs", ZeroField)["u1"] = dup["u1"]
        BY <4>1, <4>2, <4>3, <2>s, WriteAt
      <4>. QED BY <4>1, <4>4, <4>5 DEF dup
    <3>2. rhs \in Stores
      BY <3>0, <3>1, SubmitType
    <3>3. next \in Field
      <4>1. 1 \in Nat \ {0}
        OBVIOUS
      <4>. QED BY <4>1, <3>2, <2>s, <2>i, LcType
    <3>4. Write(rhs, "u1", next) \in Stores
      BY <3>2, <3>3, <2>s, WriteType
    <3>. HIDE DEF next, rhs, copied
    <3>5. /\ data' = UpdateBoundary(Write(rhs, "u1", next), "u1", ctrl.time + Dt)
          /\ rhsAt' = RecordRhs(copied, ctrl.time, neumann)
          /\ neumann' = NeumannAfter(ctrl.time + Dt)
          /\ pc' = "accept"
          /\ UNCHANGED <<lua, ctrl>>
      BY <2>7 DEF EulerStep, next, rhs, copied
    <3>6. HasField => data'["u1"].bdy = ctrl.time + Dt
      BY <3>4, <3>5, <2>b, <2>s, BoundaryAt
    <3>7. ForcingFresh'
      <4>1. CASE HasField
        <5>1. rhsAt' = [at |-> ctrl.time, boundary |-> copied["u1"].bdy,
                        neumann |-> neumann, source |-> FillSource(ctrl.time)]
          BY <4>1, <3>0, <3>5, <2>g DEF RecordRhs
        <5>2. copied["u1"].bdy = ctrl.time
          BY <4>1, <3>0, <3>1 DEF Fresh, Evaluates
        <5>3. lua.system = "heat" => neumann = ctrl.time
          BY <4>1, <3>0 DEF Fresh, Evaluates
        <5>. QED BY <5>1, <5>2, <5>3, <3>5 DEF ForcingFresh, FillSource
      <4>2. CASE ~HasField
        BY <4>2, <3>5 DEF RecordRhs, ForcingFresh, Fresh
      <4>. QED BY <4>1, <4>2
    <3>. QED
      BY <3>5, <3>6, <3>7 DEF Fresh, Evaluates, HasField, FirstStage, NeumannAfter, Dt
  <2>8. CASE EmptyStep /\ UNCHANGED <<valid, sched, frames, result>>
    BY <2>8 DEF EmptyStep, integratorVars, Fresh, Evaluates, HasField, FirstStage, ForcingFresh
  <2>9. CASE AcceptStep
    <3>1. HasField => data'["u0"] = data["u1"]
      BY <2>9, <2>c, <2>s, CopyAt DEF AcceptStep, CopyBack
    <3>2. ctrl'.time = ctrl.time + Dt
      BY <2>9, <2>b, <2>c, AdvanceType DEF AcceptStep
    <3>. QED
      BY <3>1, <3>2, <2>9 DEF AcceptStep, Fresh, Evaluates, HasField, FirstStage, ForcingFresh
  <2>10. CASE Finish
    BY <2>10 DEF Finish, integratorVars, Fresh, Evaluates, HasField, FirstStage, ForcingFresh
  <2>11. CASE UNCHANGED vars
    BY <2>11 DEF vars, Fresh, Evaluates, HasField, FirstStage, ForcingFresh, Dt
  <2>. QED
    BY <2>1, <2>2, <2>3, <2>4, <2>5, <2>6, <2>7, <2>8, <2>9, <2>10, <2>11
       DEF Next, IntegrateStep, Integrate, Returned
<1>. QED BY <1>1, <1>2, TypeCorrect, BoundInvariant, PTL DEF Spec

(* Every evaluation of the right-hand side, in every stage of every step   *)
(* of every configuration, reads data of its own time only.                *)
THEOREM ForcingStaysFresh == Spec => []ForcingFresh
<1>1. Fresh => ForcingFresh
  BY DEF Fresh
<1>. QED BY <1>1, FreshInvariant, PTL

-----------------------------------------------------------------------------
(* The controller: limits never change, a step in progress was started     *)
(* inside them with an acceptable step size, and time is steps times dt.   *)
InStep == {"integrate", "stage", "update", "accept"}
Limited ==
  /\ ctrl.time = ctrl.step * Dt
  /\ pc = "setup" => ctrl.step = 0
  /\ pc \in InStep => InBounds(ctrl) /\ CheckTimestepSize(ctrl, Dt)
  /\ ctrl.step > 0 => CheckTimestepSize(ctrl, Dt)
  /\ OvershootBounded
  /\ result # Running => pc = "done"
  /\ RejectedOnlyAtStart

(* A step is only started inside the limits and above min_dt. *)
LEMMA LimitedInvariant == Spec => []Limited
<1>1. Init => Limited
  <2>. SUFFICES ASSUME Init PROVE Limited
    OBVIOUS
  <2>1. lua \in Configs /\ ctrl = FromLua(lua) /\ result = Running
    BY DEF Init
  <2>2. ctrl.step = 0 /\ ctrl.time = 0 /\ ctrl.maxStep \in Nat \cup {Absent}
    BY <2>1, ConfigType DEF FromLua, EffectiveMaxStep
  <2>3. Dt \in Nat
    BY <2>1, ConfigType
  <2>. QED
    BY <2>1, <2>2, <2>3
       DEF Init, Limited, InStep, OvershootBounded, RejectedOnlyAtStart, Absent
<1>2. TypeOK /\ Limited /\ [Next]_vars => Limited'
  <2>. SUFFICES ASSUME TypeOK, Limited, [Next]_vars PROVE Limited'
    OBVIOUS
  <2>c. lua \in Configs /\ ctrl \in ControllerType /\ Dt \in Nat
    BY ConfigType DEF TypeOK
  <2>. USE DEF InStep
  <2>k. ASSUME UNCHANGED <<lua, ctrl, result>>,
               pc' \in InStep => pc \in InStep, pc # "done", pc' # "setup"
        PROVE  Limited'
    BY <2>k DEF Limited, OvershootBounded, RejectedOnlyAtStart, InBounds,
                CheckTimestepSize, Dt
  <2>1. CASE Setup
    BY <2>1, <2>k DEF Setup
  <2>2. CASE StartStep
    BY <2>2 DEF StartStep, integratorVars, Limited, OvershootBounded,
                RejectedOnlyAtStart, InBounds, CheckTimestepSize, Dt
  <2>3. CASE RejectStep
    <3>1. ctrl.step = 0
      BY <2>3, <2>c DEF RejectStep, Limited, ControllerType
    <3>. QED
      BY <2>3, <3>1 DEF RejectStep, integratorVars, Limited, OvershootBounded,
                RejectedOnlyAtStart, InBounds, CheckTimestepSize, Dt
  <2>4. CASE Integrate /\ UNCHANGED <<valid, sched, frames, result>>
    <3>1. /\ UNCHANGED <<lua, ctrl, result>>
          /\ pc \in InStep /\ pc' \in InStep
      BY <2>4 DEF Integrate, Rk4Begin, Rk4Stage, Rk4Update, EulerStep, EmptyStep
    <3>. QED BY <3>1, <2>k
  <2>5. CASE AcceptStep
    <3>1. /\ UNCHANGED <<lua, result>> /\ pc' = "loop" /\ pc = "accept"
          /\ ctrl' = Advance(ctrl, Dt)
      BY <2>5 DEF AcceptStep
    <3>2. /\ ctrl'.time = ctrl.time + Dt /\ ctrl'.step = ctrl.step + 1
          /\ ctrl'.maxTime = ctrl.maxTime /\ ctrl'.maxStep = ctrl.maxStep
          /\ ctrl'.minDt = ctrl.minDt
      BY <3>1, <2>c, AdvanceType
    <3>3. ctrl.step \in Nat /\ ctrl.time \in Nat
      BY <2>c DEF ControllerType
    <3>4. \A a, b \in Nat : (a + 1) * b = a * b + b
      OBVIOUS
    <3>5. ctrl'.time = ctrl'.step * Dt' /\ Dt' = Dt
      BY <3>1, <3>2, <3>3, <3>4, <2>c DEF Limited, Dt
    <3>6. InBounds(ctrl) /\ CheckTimestepSize(ctrl, Dt)
      BY <3>1 DEF Limited
    <3>7. OvershootBounded'
      <4>1. ctrl.maxStep \in Nat \cup {Absent} /\ ctrl.maxTime \in Nat \cup {Absent}
        BY <2>c DEF ControllerType
      <4>. QED
        BY <3>2, <3>3, <3>5, <3>6, <4>1, <2>c
           DEF OvershootBounded, InBounds, Within, Absent
    <3>8. CheckTimestepSize(ctrl, Dt)'
      BY <3>2, <3>5, <3>6 DEF CheckTimestepSize
    <3>9. result = Running
      BY <3>1 DEF Limited
    <3>. QED
      BY <3>1, <3>3, <3>2, <3>5, <3>7, <3>8, <3>9 DEF Limited, RejectedOnlyAtStart, Running
  <2>6. CASE Finish
    BY <2>6 DEF Finish, Summary, integratorVars, Limited, OvershootBounded,
                RejectedOnlyAtStart, InBounds, CheckTimestepSize, Dt
  <2>7. CASE UNCHANGED vars
    BY <2>7 DEF vars, Limited, OvershootBounded, RejectedOnlyAtStart, InBounds,
                CheckTimestepSize, Dt
  <2>. QED
    BY <2>1, <2>2, <2>3, <2>4, <2>5, <2>6, <2>7 DEF Next, IntegrateStep, Returned
<1>. QED BY <1>1, <1>2, TypeCorrect, PTL DEF Spec

(* No configuration takes a step past max_step, or passes max_time by a    *)
(* whole step.                                                             *)
THEOREM OvershootStaysBounded == Spec => []OvershootBounded
<1>1. Limited => OvershootBounded
  BY DEF Limited
<1>. QED BY <1>1, LimitedInvariant, PTL

(* No configuration returns "timestep too small" after its first step.     *)
THEOREM RejectionOnlyAtStart == Spec => []RejectedOnlyAtStart
<1>1. Limited => RejectedOnlyAtStart
  BY DEF Limited
<1>. QED BY <1>1, LimitedInvariant, PTL

-----------------------------------------------------------------------------
(* One publication of the field u, which is labelled with c.               *)
LEMMA PublishLabels ==
  ASSUME FramesLabelled, sched.ndumps = Len(frames),
         frames \in Seq([dump : Nat, step : Nat, time : Nat, field : Field]),
         UNCHANGED lua, NEW c \in ControllerType, NEW dt \in Nat, NEW u \in Field,
         sched \in ScheduleType,
         c.time = c.step * Dt, Evaluates => u.bdy = c.time,
         Publish(c, dt, u)
  PROVE  FramesLabelled' /\ sched'.ndumps = Len(frames')
<1>1. CASE HasField /\ Fires(sched, lua, c, dt)
  <2>. DEFINE row == Frame(sched.ndumps, c.step, c.time, u)
  <2>1. frames' = Append(frames, row) /\ sched' = AfterDump(sched, lua, c, dt)
    BY <1>1 DEF Publish
  <2>2. sched'.ndumps = sched.ndumps + 1
    BY <2>1 DEF AfterDump
  <2>3. /\ row.dump = Len(frames) /\ row.time = row.step * Dt
        /\ lua.integrator # "empty" => row.field.bdy = row.time
    BY <1>1 DEF Frame, Evaluates
  <2>. HIDE DEF row
  <2>4. /\ Len(frames') = Len(frames) + 1
        /\ Len(frames) \in Nat
        /\ \A i \in 1 .. Len(frames) : frames'[i] = frames[i]
        /\ frames'[Len(frames) + 1] = row
    BY <2>1
  <2>5. Dt' = Dt
    BY DEF Dt
  <2>6. ASSUME NEW i \in 1 .. Len(frames')
        PROVE  /\ frames'[i].dump = i - 1
               /\ frames'[i].time = frames'[i].step * Dt
               /\ lua.integrator # "empty" => frames'[i].field.bdy = frames'[i].time
    <3>1. CASE i \in 1 .. Len(frames)
      BY <2>4, <3>1 DEF FramesLabelled
    <3>2. CASE i = Len(frames) + 1
      BY <2>3, <2>4, <3>2
    <3>. QED BY <2>4, <3>1, <3>2
  <2>. QED BY <2>2, <2>4, <2>5, <2>6 DEF FramesLabelled
<1>2. CASE ~(HasField /\ Fires(sched, lua, c, dt))
  BY <1>2 DEF Publish, FramesLabelled, Dt
<1>. QED BY <1>1, <1>2

Labelled == FramesLabelled /\ sched.ndumps = Len(frames)

(* field_io's counter is the number of frames it has written. *)
LEMMA LabelledInvariant == Spec => []Labelled
<1>1. Init => Labelled
  BY DEF Init, Labelled, FramesLabelled, NewSchedule
<1>2. TypeOK /\ Bound /\ Fresh /\ Limited /\ Labelled /\ [Next]_vars => Labelled'
  <2>. SUFFICES ASSUME TypeOK, Bound, Fresh, Limited, Labelled, [Next]_vars
                PROVE  Labelled'
    OBVIOUS
  <2>c. /\ lua \in Configs /\ ctrl \in ControllerType /\ data \in [Slots -> Field]
        /\ frames \in Seq([dump : Nat, step : Nat, time : Nat, field : Field])
        /\ sched \in ScheduleType
    BY DEF TypeOK
  <2>b. ctrl.time \in Nat /\ Dt \in Nat
    BY <2>c, ConfigType DEF ControllerType
  <2>s. /\ "u0" \in Slots /\ "u1" \in Slots
        /\ buf["u0"] = "u0" /\ buf["u1"] = "u1"
    BY DEF Slots, Bound, Identity
  <2>k. ASSUME UNCHANGED <<lua, sched, frames>> PROVE Labelled'
    BY <2>k DEF Labelled, FramesLabelled, Dt
  <2>1. CASE Setup
    <3>. DEFINE init == Write(data, "u0", InitialField(ctrl.time))
                both == DeepCopy(init, "u1", "u0")
    <3>1. InitialField(ctrl.time) \in Field
      BY <2>b, FieldOps
    <3>2. init \in [Slots -> Field]
      BY <3>1, <2>c, <2>s, WriteType
    <3>3. both \in [Slots -> Field]
      BY <3>2, <2>s, CopyAt
    <3>4. data' = UpdateBoundary(both, "u0", ctrl.time) /\ lua' = lua
      BY <2>1 DEF Setup
    <3>. HIDE DEF both
    <3>5. data'["u0"] \in Field /\ (HasField => data'["u0"].bdy = ctrl.time)
      BY <3>3, <3>4, <2>b, <2>s, BoundaryAt
    <3>6. Publish(ctrl, 0, data'["u0"])
      BY <2>1, <2>s DEF Setup
    <3>. QED
      BY <3>4, <3>5, <3>6, <2>c, PublishLabels DEF Limited, Labelled, Evaluates
  <2>2. CASE AcceptStep
    <3>1. ctrl' \in ControllerType /\ ctrl'.time = ctrl.time + Dt
      BY <2>2, <2>b, <2>c, AdvanceType DEF AcceptStep
    <3>2. ctrl'.time = ctrl'.step * Dt
      <4>1. ctrl'.step = ctrl.step + 1 /\ ctrl.step \in Nat
        BY <2>2, <2>b, <2>c, AdvanceType DEF AcceptStep, ControllerType
      <4>2. \A a, b \in Nat : (a + 1) * b = a * b + b
        OBVIOUS
      <4>. QED BY <4>1, <4>2, <3>1, <2>b DEF Limited
    <3>3. data["u1"] \in Field /\ (Evaluates => data["u1"].bdy = ctrl.time + Dt)
      BY <2>2, <2>c, <2>s DEF AcceptStep, Fresh
    <3>4. Publish(ctrl', Dt, data["u1"]) /\ lua' = lua
      BY <2>2, <2>s DEF AcceptStep, Val, WrittenSlot
    <3>. QED
      BY <3>1, <3>2, <3>3, <3>4, <2>b, <2>c, PublishLabels DEF Labelled
  <2>3. CASE StartStep \/ RejectStep \/ Finish \/ UNCHANGED vars
    BY <2>3, <2>k DEF StartStep, RejectStep, Finish, vars
  <2>4. CASE Integrate /\ UNCHANGED <<valid, sched, frames, result>>
    <3>1. UNCHANGED lua
      BY <2>4 DEF Integrate, Rk4Begin, Rk4Stage, Rk4Update, EulerStep, EmptyStep
    <3>. QED BY <3>1, <2>4, <2>k
  <2>. QED
    BY <2>1, <2>2, <2>3, <2>4 DEF Next, IntegrateStep, Returned
<1>. QED
  BY <1>1, <1>2, TypeCorrect, BoundInvariant, FreshInvariant, LimitedInvariant, PTL
     DEF Spec

(* The n-th output file is number n - 1 and holds the boundary data of the *)
(* time in its label, for every pair of dump intervals.                    *)
THEOREM FramesStayLabelled == Spec => []FramesLabelled
<1>1. Labelled => FramesLabelled
  BY DEF Labelled
<1>. QED BY <1>1, LabelledInvariant, PTL

-----------------------------------------------------------------------------
(* When dumps are due. *)

(* Division with remainder, for any divisor. *)
LEMMA DivisionIs ==
  ASSUME NEW a \in Int, NEW d \in Nat \ {0}
  PROVE  /\ a \div d \in Int /\ a % d \in Int
         /\ a = d * (a \div d) + (a % d) /\ 0 <= a % d /\ a % d < d
         /\ d * (a \div d) <= a /\ a < d * (a \div d) + d
<1>1. a \div d \in Int /\ a % d \in Int
  OBVIOUS
<1>2. a = d * (a \div d) + (a % d) /\ 0 <= a % d /\ a % d < d
  OBVIOUS
<1>3. d * (a \div d) <= a /\ a < d * (a \div d) + d
  OBVIOUS
<1> QED
  BY <1>1, <1>2, <1>3

(* A larger factor makes no smaller product. *)
LEMMA TimesMonotone ==
  ASSUME NEW x \in Int, NEW y \in Int, NEW d \in Nat, x <= y
  PROVE  d * x <= d * y
OBVIOUS

(* Rounding up: the ceiling is at most s + 1 when its argument is.         *)
LEMMA CeilDivIs ==
  ASSUME NEW a \in Nat, NEW d \in Nat \ {0}, NEW s \in Int
  PROVE  CeilDiv(a, d) - 1 \in Int /\ (CeilDiv(a, d) - 1 <= s <=> a <= (s + 1) * d)
<1> DEFINE q == (a + d - 1) \div d
<1>1. q \in Int /\ d * q <= a + d - 1 /\ a + d - 1 < d * q + d
  BY DivisionIs
<1>2. q = CeilDiv(a, d)
  BY DEF CeilDiv
<1> HIDE DEF q
<1>3. ASSUME q <= s + 1 PROVE a <= (s + 1) * d
  <2>1. d * q <= d * (s + 1)
    BY <1>1, <1>3, TimesMonotone
  <2>2. d * (s + 1) = (s + 1) * d /\ (s + 1) * d \in Int /\ d * q \in Int
    BY <1>1
  <2> QED
    BY <1>1, <2>1, <2>2
<1>4. ASSUME a <= (s + 1) * d, ~(q <= s + 1) PROVE FALSE
  <2>1. d * (s + 2) <= d * q
    BY <1>1, <1>4, TimesMonotone
  <2>2. d * (s + 2) = (s + 1) * d + d /\ (s + 1) * d \in Int /\ d * q \in Int
    BY <1>1
  <2> QED
    BY <1>1, <1>4, <2>1, <2>2
<1> QED
  BY <1>1, <1>2, <1>3, <1>4

(* A number between two multiples of e is the lower one or none.           *)
LEMMA BetweenMultiples ==
  ASSUME NEW e \in Nat \ {0}, NEW j \in Int, NEW s \in Int, j * e <= s, s < j * e + e
  PROVE  s % e = 0 <=> s = j * e
<1> DEFINE q == s \div e
<1>1. q \in Int /\ s = e * q + (s % e) /\ 0 <= s % e /\ s % e < e /\ s % e \in Int
  BY DivisionIs
<1> HIDE DEF q
<1>2. e * q \in Int /\ e * j \in Int /\ j * e = e * j
  BY <1>1
<1>3. ASSUME q < j PROVE FALSE
  <2>1. e * (q + 1) <= e * j
    BY <1>1, <1>3, TimesMonotone
  <2>2. e * (q + 1) = e * q + e
    BY <1>1
  <2> QED
    BY <1>1, <1>2, <2>1, <2>2
<1>4. ASSUME j < q PROVE FALSE
  <2>1. e * (j + 1) <= e * q
    BY <1>1, <1>4, TimesMonotone
  <2>2. e * (j + 1) = e * j + e
    OBVIOUS
  <2> QED
    BY <1>1, <1>2, <2>1, <2>2
<1>5. q = j
  BY <1>1, <1>3, <1>4
<1> QED
  BY <1>1, <1>2, <1>5

(* The k-th multiple w of the time interval has been due by step s: within *)
(* one dt of it, and one dump per step.                                    *)
DueBy(w, d, k, s) == k <= s /\ k * w <= (s + 1) * d

(* Once due it stays due, the multiples are due in order, and no two are   *)
(* due for the first time in the same step.                                *)
LEMMA DueInOrder ==
  ASSUME NEW w \in Nat, NEW d \in Nat, NEW k \in Nat, NEW s \in Nat
  PROVE  /\ DueBy(w, d, k, s) => DueBy(w, d, k, s + 1)
         /\ \A i \in Nat : i <= k /\ DueBy(w, d, k, s) => DueBy(w, d, i, s)
         /\ DueBy(w, d, k + 1, s + 1) => DueBy(w, d, k, s)
<1>1. /\ k * w \in Int /\ (s + 1) * d \in Int
      /\ (s + 2) * d = (s + 1) * d + d /\ (s + 1) * d = s * d + d
      /\ (k + 1) * w = k * w + w /\ s * d \in Nat
  OBVIOUS
<1>2. DueBy(w, d, k, s) => DueBy(w, d, k, s + 1)
  BY <1>1 DEF DueBy
<1>3. ASSUME NEW i \in Nat, i <= k, DueBy(w, d, k, s) PROVE DueBy(w, d, i, s)
  <2>1. w * i <= w * k
    BY <1>3, TimesMonotone
  <2>2. w * i = i * w /\ w * k = k * w /\ i * w \in Int
    OBVIOUS
  <2> QED
    BY <1>1, <1>3, <2>1, <2>2 DEF DueBy
<1>4. ASSUME DueBy(w, d, k + 1, s + 1) PROVE DueBy(w, d, k, s)
  <2>1. k <= s /\ k * w + w <= (s + 1) * d + d
    BY <1>1, <1>4 DEF DueBy
  <2>2. CASE w >= d
    BY <1>1, <2>1, <2>2 DEF DueBy
  <2>3. CASE w < d
    <3>1. k * w <= k * d
      <4>1. k * w <= k * d
        BY <2>3, TimesMonotone
      <4> QED
        BY <4>1
    <3>2. k * d <= (s + 1) * d
      <4>1. d * k <= d * (s + 1)
        BY <2>1, TimesMonotone
      <4>2. d * k = k * d /\ d * (s + 1) = (s + 1) * d
        OBVIOUS
      <4> QED
        BY <4>1, <4>2
    <3>3. k * d \in Int
      OBVIOUS
    <3> QED
      BY <1>1, <2>1, <3>1, <3>2, <3>3 DEF DueBy
  <2> QED
    BY <2>2, <2>3
<1> QED
  BY <1>2, <1>3, <1>4

(* The multiple that falls due at step s is the one of DumpCadence.        *)
LEMMA TimeDueIs ==
  ASSUME lua \in Configs, Dt > 0, lua.everyTime # Absent, NEW s \in Nat \ {0}
  PROVE  TimeDue(s) <=>
           \E k \in 1 .. s : /\ DueBy(lua.everyTime, Dt, k, s)
                             /\ ~DueBy(lua.everyTime, Dt, k, s - 1)
<1> DEFINE w == lua.everyTime
           d == Dt
           near(k) == CeilDiv(k * w, d) - 1
<1>1. w \in Nat /\ d \in Nat \ {0}
  BY ConfigType
<1> HIDE DEF w, d
<1>2. ASSUME NEW k \in 1 .. s
      PROVE  s = (IF k > near(k) THEN k ELSE near(k)) <=> DueBy(w, d, k, s) /\ ~DueBy(w, d, k, s - 1)
  <2>1. k * w \in Nat
    BY <1>1
  <2>2. near(k) \in Int /\ (near(k) <= s <=> k * w <= (s + 1) * d)
    BY <1>1, <2>1, CeilDivIs
  <2>3. s - 1 \in Int /\ s - 1 + 1 = s
    OBVIOUS
  <2>4. near(k) <= s - 1 <=> k * w <= s * d
    BY <1>1, <2>1, <2>3, CeilDivIs
  <2> HIDE DEF near
  <2>5. DueBy(w, d, k, s) <=> near(k) <= s
    BY <2>2 DEF DueBy
  <2>6. DueBy(w, d, k, s - 1) <=> k <= s - 1 /\ near(k) <= s - 1
    BY <2>3, <2>4 DEF DueBy
  <2> QED
    BY <2>2, <2>5, <2>6
<1>3. TimeDue(s) <=> \E k \in 1 .. s : s = IF k > near(k) THEN k ELSE near(k)
  BY DEF TimeDue, w, d
<1> QED
  BY <1>2, <1>3 DEF w, d

(* What one accepted step from s does to the multiples of the interval:    *)
(* the schedule asks for the multiple after the last one due, and no other *)
(* falls due in this step.                                                 *)
LEMMA OneFallsDue ==
  ASSUME NEW w \in Nat, NEW d \in Nat \ {0}, NEW s \in Nat, NEW k \in 0 .. s,
         k = 0 \/ DueBy(w, d, k, s), ~DueBy(w, d, k + 1, s)
  PROVE  /\ (s + 1) * d - k * w >= w - d <=> DueBy(w, d, k + 1, s + 1)
         /\ ~DueBy(w, d, k + 2, s + 1)
         /\ \A i \in 1 .. (s + 1) :
              DueBy(w, d, i, s + 1) /\ ~DueBy(w, d, i, s)
                <=> i = k + 1 /\ DueBy(w, d, k + 1, s + 1)
<1>1. (s + 1) * d - k * w >= w - d <=> DueBy(w, d, k + 1, s + 1)
  <2>1. /\ (k + 1) * w = k * w + w /\ (s + 1 + 1) * d = (s + 1) * d + d
        /\ k * w \in Int /\ (s + 1) * d \in Int
    OBVIOUS
  <2> QED
    BY <2>1 DEF DueBy
<1>2. ~DueBy(w, d, k + 2, s + 1)
  <2>1. k + 1 \in Nat /\ k + 1 + 1 = k + 2
    OBVIOUS
  <2> QED
    BY <2>1, DueInOrder
<1>3. ASSUME NEW i \in 1 .. (s + 1), DueBy(w, d, i, s + 1), ~DueBy(w, d, i, s)
      PROVE  i = k + 1
  <2>1. ~(i <= k)
    <3>1. ASSUME i <= k PROVE DueBy(w, d, i, s)
      <4>1. k # 0 /\ k \in Nat /\ i \in Nat
        BY <3>1
      <4> QED
        BY <3>1, <4>1, DueInOrder
    <3> QED
      BY <1>3, <3>1
  <2>2. ~(k + 2 <= i)
    <3>1. ASSUME k + 2 <= i PROVE DueBy(w, d, k + 1, s)
      <4>1. i - 1 \in Nat /\ i - 1 + 1 = i /\ k + 1 <= i - 1 /\ k + 1 \in Nat
        BY <3>1
      <4>2. DueBy(w, d, i - 1, s)
        <5> DEFINE h == i - 1
        <5>1. h \in Nat /\ h + 1 = i
          BY <4>1
        <5> HIDE DEF h
        <5>2. DueBy(w, d, h, s)
          BY <1>3, <5>1, DueInOrder
        <5> QED
          BY <5>2 DEF h
      <4> QED
        BY <4>1, <4>2, DueInOrder
    <3> QED
      BY <3>1
  <2> QED
    BY <2>1, <2>2
<1>4. ASSUME NEW i \in 1 .. (s + 1)
      PROVE  DueBy(w, d, i, s + 1) /\ ~DueBy(w, d, i, s)
               <=> i = k + 1 /\ DueBy(w, d, k + 1, s + 1)
  <2>1. CASE i = k + 1
    BY <2>1
  <2>2. CASE i # k + 1
    BY <1>3, <2>2
  <2> QED
    BY <2>1, <2>2
<1> QED
  BY <1>1, <1>2, <1>4

(* The origin of the time interval is its last multiple due by step n.     *)
TimeSchedule(sc, n) ==
  lua.everyTime # Absent =>
    \E k \in 0 .. n :
      /\ sc.timeFirst = k * lua.everyTime
      /\ k = 0 \/ DueBy(lua.everyTime, Dt, k, n)
      /\ ~DueBy(lua.everyTime, Dt, k + 1, n)

(* The origin of the step interval is its last multiple up to step n.      *)
StepSchedule(sc, n) ==
  lua.everyStep # Absent =>
    /\ \E j \in 0 .. n : sc.stepFirst = j * lua.everyStep
    /\ lua.everyStep > 0 => sc.stepFirst <= n /\ n < sc.stepFirst + lua.everyStep

(* The step after s is asked of the time interval exactly when a multiple  *)
(* falls due in it, and asking keeps the origin at the last one due.       *)
LEMMA TimeScheduleNext ==
  ASSUME lua \in Configs, Dt > 0, NEW sc \in ScheduleType, NEW c \in ControllerType,
         NEW s \in Nat, c.step = s + 1, c.time = (s + 1) * Dt, TimeSchedule(sc, s),
         NEW next \in ScheduleType,
         next.timeFirst = IF TimeReady(sc, lua, c, Dt)
                          THEN sc.timeFirst + lua.everyTime ELSE sc.timeFirst
  PROVE  /\ TimeReady(sc, lua, c, Dt) <=> TimeDue(s + 1)
         /\ TimeSchedule(next, s + 1)
<1>1. CASE lua.everyTime = Absent
  BY <1>1 DEF TimeReady, IntervalReady, TimeDue, TimeSchedule
<1>2. CASE lua.everyTime # Absent
  <2> DEFINE w == lua.everyTime
             d == Dt
  <2>1. w \in Nat /\ d \in Nat \ {0}
    BY <1>2, ConfigType
  <2>2. PICK k \in 0 .. s : /\ sc.timeFirst = k * w
                            /\ k = 0 \/ DueBy(w, d, k, s)
                            /\ ~DueBy(w, d, k + 1, s)
    BY <1>2 DEF TimeSchedule
  <2>3. TimeReady(sc, lua, c, Dt) <=> (s + 1) * d - k * w >= w - d
    BY <1>2, <2>2 DEF TimeReady, IntervalReady
  <2>4. TimeDue(s + 1) <=>
          \E i \in 1 .. (s + 1) : DueBy(w, d, i, s + 1) /\ ~DueBy(w, d, i, s)
    <3> DEFINE n == s + 1
    <3>1. n \in Nat \ {0} /\ n - 1 = s
      OBVIOUS
    <3> HIDE DEF n
    <3>2. TimeDue(n) <=> \E i \in 1 .. n : DueBy(w, d, i, n) /\ ~DueBy(w, d, i, n - 1)
      BY <1>2, <3>1, TimeDueIs
    <3> QED
      BY <3>1, <3>2 DEF n
  <2>5. next.timeFirst = (IF TimeReady(sc, lua, c, Dt) THEN k * w + w ELSE k * w)
    BY <2>2
  <2>6. TimeSchedule(next, s + 1) <=>
          \E i \in 0 .. (s + 1) : /\ next.timeFirst = i * w
                                  /\ i = 0 \/ DueBy(w, d, i, s + 1)
                                  /\ ~DueBy(w, d, i + 1, s + 1)
    BY <1>2 DEF TimeSchedule
  <2> HIDE DEF w, d
  <2>7. /\ (s + 1) * d - k * w >= w - d <=> DueBy(w, d, k + 1, s + 1)
        /\ ~DueBy(w, d, k + 2, s + 1)
        /\ \A i \in 1 .. (s + 1) :
             DueBy(w, d, i, s + 1) /\ ~DueBy(w, d, i, s)
               <=> i = k + 1 /\ DueBy(w, d, k + 1, s + 1)
    BY <2>1, <2>2, OneFallsDue
  <2>8. TimeReady(sc, lua, c, Dt) <=> TimeDue(s + 1)
    <3>1. k + 1 \in 1 .. (s + 1)
      OBVIOUS
    <3> QED
      BY <2>3, <2>4, <2>7, <3>1
  <2>9. TimeSchedule(next, s + 1)
    <3>1. CASE TimeReady(sc, lua, c, Dt)
      <4>1. k + 1 \in 0 .. (s + 1) /\ k + 1 + 1 = k + 2 /\ (k + 1) * w = k * w + w
        BY <2>1
      <4>2. next.timeFirst = (k + 1) * w
        BY <2>5, <3>1, <4>1
      <4>3. DueBy(w, d, k + 1, s + 1)
        BY <2>3, <2>7, <3>1
      <4> QED
        BY <2>6, <2>7, <4>1, <4>2, <4>3
    <3>2. CASE ~TimeReady(sc, lua, c, Dt)
      <4>1. k \in 0 .. (s + 1) /\ k \in Nat
        OBVIOUS
      <4>2. next.timeFirst = k * w
        BY <2>5, <3>2
      <4>3. ~DueBy(w, d, k + 1, s + 1)
        BY <2>3, <2>7, <3>2
      <4>4. k = 0 \/ DueBy(w, d, k, s + 1)
        BY <2>1, <2>2, <4>1, DueInOrder
      <4> QED
        BY <2>6, <4>1, <4>2, <4>3, <4>4
    <3> QED
      BY <3>1, <3>2
  <2> QED
    BY <2>8, <2>9
<1> QED
  BY <1>1, <1>2

(* The same of the step interval.                                          *)
LEMMA StepScheduleNext ==
  ASSUME lua \in Configs, NEW sc \in ScheduleType, NEW c \in ControllerType,
         NEW s \in Nat, c.step = s + 1, StepSchedule(sc, s),
         NEW next \in ScheduleType,
         next.stepFirst = IF StepReady(sc, lua, c)
                          THEN sc.stepFirst + lua.everyStep ELSE sc.stepFirst
  PROVE  /\ StepReady(sc, lua, c) <=> StepDue(s + 1)
         /\ StepSchedule(next, s + 1)
<1>1. CASE lua.everyStep = Absent
  BY <1>1 DEF StepReady, IntervalReady, StepDue, StepSchedule
<1>2. CASE lua.everyStep # Absent
  <2> DEFINE e == lua.everyStep
  <2>1. e \in Nat
    BY <1>2, ConfigType
  <2>2. PICK j \in 0 .. s : sc.stepFirst = j * e
    BY <1>2 DEF StepSchedule
  <2>3. e > 0 => sc.stepFirst <= s /\ s < sc.stepFirst + e
    BY <1>2 DEF StepSchedule
  <2>4. StepReady(sc, lua, c) <=> (s + 1) - j * e >= e
    <3>1. StepReady(sc, lua, c) <=> c.step - sc.stepFirst >= e - 0
      BY <1>2, Zenon DEF StepReady, IntervalReady
    <3>2. e - 0 = e
      BY <2>1
    <3>3. c.step - sc.stepFirst = (s + 1) - j * e
      BY <2>2, Zenon
    <3> QED
      BY <3>1, <3>2, <3>3, Zenon
  <2>5. StepDue(s + 1) <=> e = 0 \/ (s + 1) % e = 0
    BY <1>2 DEF StepDue
  <2>6. next.stepFirst = (IF StepReady(sc, lua, c) THEN j * e + e ELSE j * e)
    BY <2>2
  <2>7. StepSchedule(next, s + 1) <=>
          /\ \E i \in 0 .. (s + 1) : next.stepFirst = i * e
          /\ e > 0 => next.stepFirst <= s + 1 /\ s + 1 < next.stepFirst + e
    BY <1>2 DEF StepSchedule
  <2> HIDE DEF e
  <2>8. CASE e = 0
    <3>1. j * e = 0 /\ j * e + e = 0 /\ 0 * e = 0 /\ 0 \in 0 .. (s + 1) /\ s + 1 - 0 >= 0
      BY <2>8
    <3>2. StepReady(sc, lua, c) /\ StepDue(s + 1) /\ next.stepFirst = 0
      BY <2>4, <2>5, <2>6, <2>8, <3>1
    <3> QED
      BY <2>7, <2>8, <3>1, <3>2
  <2>9. CASE e > 0
    <3>1. j * e \in Int /\ j * e <= s /\ s < j * e + e
      BY <2>1, <2>2, <2>3, <2>9
    <3>2. (s + 1) - j * e >= e <=> s + 1 = (j + 1) * e
      <4>1. (j + 1) * e = j * e + e
        BY <2>1
      <4> QED
        BY <2>1, <3>1, <4>1
    <3>3. (s + 1) % e = 0 <=> s + 1 = (j + 1) * e
      <4>1. CASE s + 1 = (j + 1) * e
        <5>1. j + 1 \in Int /\ s + 1 \in Int /\ e \in Nat \ {0}
          BY <2>1, <2>9
        <5>2. (j + 1) * e <= s + 1 /\ s + 1 < (j + 1) * e + e
          BY <2>1, <2>9, <4>1
        <5> QED
          BY <5>1, <5>2, BetweenMultiples
      <4>2. CASE s + 1 # (j + 1) * e
        <5>1. j * e <= s + 1 /\ s + 1 < j * e + e /\ s + 1 # j * e
          <6>1. (j + 1) * e = j * e + e
            BY <2>1
          <6> QED
            BY <2>1, <3>1, <4>2, <6>1
        <5>2. j \in Int /\ s + 1 \in Int /\ e \in Nat \ {0}
          BY <2>1, <2>9
        <5>3. ~((s + 1) % e = 0)
          BY <5>1, <5>2, BetweenMultiples
        <5> QED
          BY <4>2, <5>3
      <4> QED
        BY <4>1, <4>2
    <3>4. StepReady(sc, lua, c) <=> StepDue(s + 1)
      BY <2>4, <2>5, <2>9, <3>2, <3>3
    <3>5. CASE StepReady(sc, lua, c)
      <4>1. j + 1 \in 0 .. (s + 1) /\ (j + 1) * e = j * e + e
        BY <2>1
      <4>2. next.stepFirst = (j + 1) * e /\ s + 1 = (j + 1) * e
        BY <2>4, <2>6, <3>2, <3>5, <4>1
      <4>3. next.stepFirst <= s + 1 /\ s + 1 < next.stepFirst + e
        BY <2>1, <2>9, <4>2
      <4> QED
        BY <2>7, <3>4, <4>1, <4>2, <4>3
    <3>6. CASE ~StepReady(sc, lua, c)
      <4>1. j \in 0 .. (s + 1) /\ next.stepFirst = j * e
        BY <2>6, <3>6
      <4>2. next.stepFirst <= s + 1 /\ s + 1 < next.stepFirst + e
        BY <2>1, <2>4, <3>1, <3>6, <4>1
      <4> QED
        BY <2>7, <3>4, <4>1, <4>2
    <3> QED
      BY <3>5, <3>6
  <2> QED
    BY <2>1, <2>8, <2>9
<1> QED
  BY <1>1, <1>2

(* Which steps have a dump, and what the schedule will ask next.           *)
Dumped == {frames[i].step : i \in 1 .. Len(frames)} = DueSteps(ctrl.step)
Cadence ==
  IF pc = "setup" THEN sched = NewSchedule /\ frames = <<>>
  ELSE HasField /\ Dt > 0 => /\ TimeSchedule(sched, ctrl.step)
                             /\ StepSchedule(sched, ctrl.step)
                             /\ Dumped

(* A dump adds its step to those dumped; without a dump nothing changes.   *)
LEMMA PublishSteps ==
  ASSUME frames \in Seq([dump : Nat, step : Nat, time : Nat, field : Field]),
         HasField, NEW c \in ControllerType, NEW dt \in Nat, NEW u \in Field,
         Publish(c, dt, u)
  PROVE  {frames'[i].step : i \in 1 .. Len(frames')} =
           {frames[i].step : i \in 1 .. Len(frames)}
             \cup (IF Fires(sched, lua, c, dt) THEN {c.step} ELSE {})
<1>1. CASE Fires(sched, lua, c, dt)
  <2> DEFINE row == Frame(sched.ndumps, c.step, c.time, u)
  <2>1. frames' = Append(frames, row) /\ row.step = c.step
    BY <1>1 DEF Publish, Frame
  <2> HIDE DEF row
  <2>2. /\ Len(frames') = Len(frames) + 1 /\ Len(frames) \in Nat
        /\ \A i \in 1 .. Len(frames) : frames'[i] = frames[i]
        /\ frames'[Len(frames) + 1] = row
    BY <2>1
  <2>3. 1 .. Len(frames') = (1 .. Len(frames)) \cup {Len(frames) + 1}
    BY <2>2
  <2> QED
    BY <1>1, <2>1, <2>2, <2>3
<1>2. CASE ~Fires(sched, lua, c, dt)
  BY <1>2 DEF Publish
<1> QED
  BY <1>1, <1>2

(* The steps with a dump due, one step further. *)
LEMMA DueStepsNext ==
  ASSUME NEW s \in Nat
  PROVE  DueSteps(s + 1) =
           DueSteps(s) \cup (IF StepDue(s + 1) \/ TimeDue(s + 1) THEN {s + 1} ELSE {})
<1>1. 0 .. (s + 1) = (0 .. s) \cup {s + 1} /\ s + 1 # 0
  OBVIOUS
<1>2. StepDue(s + 1) \/ TimeDue(s + 1) => lua.everyStep # Absent \/ lua.everyTime # Absent
  BY DEF StepDue, TimeDue
<1>3. ASSUME NEW x
      PROVE  x \in DueSteps(s + 1) <=>
               x \in DueSteps(s) \/ (x = s + 1 /\ (StepDue(s + 1) \/ TimeDue(s + 1)))
  <2>1. x \in DueSteps(s + 1) <=>
          /\ x \in 0 .. (s + 1)
          /\ lua.everyStep # Absent \/ lua.everyTime # Absent
          /\ x = 0 \/ StepDue(x) \/ TimeDue(x)
    BY Zenon DEF DueSteps
  <2>2. x \in DueSteps(s) <=>
          /\ x \in 0 .. s
          /\ lua.everyStep # Absent \/ lua.everyTime # Absent
          /\ x = 0 \/ StepDue(x) \/ TimeDue(x)
    BY Zenon DEF DueSteps
  <2> QED
    BY <1>1, <1>2, <2>1, <2>2, Zenon
<1> QED
  BY <1>3

(* The schedule decides the dumps of every pair of intervals.              *)
LEMMA CadenceInvariant == Spec => []Cadence
<1>1. Init => Cadence
  BY DEF Init, Cadence
<1>2. TypeOK /\ TypeOK' /\ Bound /\ Limited /\ Cadence /\ [Next]_vars => Cadence'
  <2> SUFFICES ASSUME TypeOK, TypeOK', Bound, Limited, Cadence, [Next]_vars
               PROVE  Cadence'
    OBVIOUS
  <2>c. /\ lua \in Configs /\ ctrl \in ControllerType /\ data \in [Slots -> Field]
        /\ frames \in Seq([dump : Nat, step : Nat, time : Nat, field : Field])
        /\ sched \in ScheduleType /\ sched' \in ScheduleType
        /\ Dt \in Nat /\ ctrl.step \in Nat
    BY ConfigType DEF TypeOK, ControllerType
  <2>s. /\ "u0" \in Slots /\ "u1" \in Slots
        /\ buf["u0"] = "u0" /\ buf["u1"] = "u1"
    BY DEF Slots, Bound, Identity
  <2>k. ASSUME UNCHANGED <<lua, sched, frames, ctrl>>, pc # "setup", pc' # "setup"
        PROVE  Cadence'
    <3>1. HasField /\ Dt > 0 => /\ TimeSchedule(sched, ctrl.step)
                                /\ StepSchedule(sched, ctrl.step)
                                /\ Dumped
      BY <2>k DEF Cadence
    <3>2. Dt' = Dt /\ HasField' = HasField
      BY <2>k DEF Dt, HasField
    <3>3. TimeSchedule(sched, ctrl.step)' = TimeSchedule(sched, ctrl.step)
      BY <2>k, <3>2 DEF TimeSchedule
    <3>4. StepSchedule(sched, ctrl.step)' = StepSchedule(sched, ctrl.step)
      BY <2>k DEF StepSchedule
    <3>5. Dumped' = Dumped
      BY <2>k DEF Dumped, DueSteps, StepDue, TimeDue, Dt
    <3> QED
      BY <2>k, <3>1, <3>2, <3>3, <3>4, <3>5, Zenon DEF Cadence
  <2>1. CASE Setup
    <3>1. /\ sched = NewSchedule /\ frames = <<>> /\ ctrl.step = 0 /\ ctrl.time = 0
          /\ lua' = lua /\ ctrl' = ctrl /\ pc' = "loop"
      BY <2>1, <2>c DEF Setup, Cadence, Limited
    <3> SUFFICES ASSUME HasField, Dt > 0
                 PROVE  (TimeSchedule(sched, ctrl.step) /\ StepSchedule(sched, ctrl.step)
                           /\ Dumped)'
      BY <3>1 DEF Cadence, HasField, Dt
    <3>2. PICK u \in Field : Publish(ctrl, 0, u)
      <4>1. data'["u0"] \in Field
        BY <2>s DEF TypeOK
      <4>2. Publish(ctrl, 0, data'["u0"])
        BY <2>1, <2>s DEF Setup
      <4> QED
        BY <4>1, <4>2
    <3>3. Fires(sched, lua, ctrl, 0) <=> lua.everyStep # Absent \/ lua.everyTime # Absent
      BY <3>1 DEF Fires
    <3>4. sched'.timeFirst = 0 /\ sched'.stepFirst = 0
      <4>1. StepReady(sched, lua, ctrl) => lua.everyStep = 0
        BY <2>c, <3>1, ConfigType DEF StepReady, IntervalReady, NewSchedule
      <4>2. TimeReady(sched, lua, ctrl, 0) => lua.everyTime = 0
        BY <2>c, <3>1, ConfigType DEF TimeReady, IntervalReady, NewSchedule
      <4>3. sched' = AfterDump(sched, lua, ctrl, 0) \/ sched' = sched
        BY <3>2 DEF Publish
      <4> QED
        BY <3>1, <4>1, <4>2, <4>3 DEF AfterDump, NewSchedule
    <3>5. TimeSchedule(sched', 0)
      <4>1. ASSUME lua.everyTime # Absent
            PROVE  0 = 0 * lua.everyTime /\ ~DueBy(lua.everyTime, Dt, 1, 0)
        BY <2>c, <4>1, ConfigType DEF DueBy
      <4>2. 0 \in 0 .. 0 /\ 0 + 1 = 1
        OBVIOUS
      <4> QED
        BY <3>4, <4>1, <4>2 DEF TimeSchedule
    <3>6. StepSchedule(sched', 0)
      <4>1. ASSUME lua.everyStep # Absent
            PROVE  0 = 0 * lua.everyStep /\ (lua.everyStep > 0 => 0 <= 0 /\ 0 < 0 + lua.everyStep)
        BY <2>c, <4>1, ConfigType
      <4>2. 0 \in 0 .. 0
        OBVIOUS
      <4> QED
        BY <3>4, <4>1, <4>2 DEF StepSchedule
    <3>7. {frames'[i].step : i \in 1 .. Len(frames')} = DueSteps(0)
      <4>1. {frames[i].step : i \in 1 .. Len(frames)} = {}
        BY <3>1
      <4>2. {frames'[i].step : i \in 1 .. Len(frames')} =
              {} \cup (IF Fires(sched, lua, ctrl, 0) THEN {ctrl.step} ELSE {})
        BY <2>c, <3>2, <4>1, PublishSteps
      <4>3. DueSteps(0) = IF lua.everyStep # Absent \/ lua.everyTime # Absent THEN {0} ELSE {}
        <5>1. 0 .. 0 = {0}
          OBVIOUS
        <5> QED
          BY <5>1 DEF DueSteps
      <4> QED
        BY <3>1, <3>3, <4>2, <4>3
    <3> QED
      BY <3>1, <3>5, <3>6, <3>7
         DEF TimeSchedule, StepSchedule, Dumped, DueSteps, StepDue, TimeDue, Dt
  <2>2. CASE AcceptStep
    <3>1. /\ pc = "accept" /\ lua' = lua /\ pc' = "loop" /\ ctrl' = Advance(ctrl, Dt)
      BY <2>2 DEF AcceptStep
    <3> SUFFICES ASSUME HasField, Dt > 0
                 PROVE  (TimeSchedule(sched, ctrl.step) /\ StepSchedule(sched, ctrl.step)
                           /\ Dumped)'
      BY <3>1 DEF Cadence, HasField, Dt
    <3>2. PICK c : c = ctrl'
      OBVIOUS
    <3>3. PICK s : s = ctrl.step
      OBVIOUS
    <3>4. PICK next : next = sched'
      OBVIOUS
    <3>5. /\ c \in ControllerType /\ s \in Nat /\ next \in ScheduleType
          /\ c.step = s + 1
      BY <2>c, <3>1, <3>2, <3>3, <3>4, AdvanceType
    <3>6. c.time = (s + 1) * Dt
      <4>1. c.time = s * Dt + Dt
        BY <2>c, <3>1, <3>2, <3>3, AdvanceType DEF Limited
      <4>2. (s + 1) * Dt = s * Dt + Dt
        BY <2>c, <3>5
      <4> QED
        BY <4>1, <4>2
    <3>7. PICK u \in Field : Publish(c, Dt, u)
      <4>1. data["u1"] \in Field
        BY <2>c, <2>s
      <4>2. Publish(c, Dt, data["u1"])
        BY <2>2, <2>s, <3>2 DEF AcceptStep, Val, WrittenSlot
      <4> QED
        BY <4>1, <4>2
    <3>8. /\ TimeSchedule(sched, s) /\ StepSchedule(sched, s)
          /\ {frames[i].step : i \in 1 .. Len(frames)} = DueSteps(s)
      BY <3>1, <3>3 DEF Cadence, Dumped
    <3>9. Fires(sched, lua, c, Dt)
            <=> StepReady(sched, lua, c) \/ TimeReady(sched, lua, c, Dt)
      <4>1. c.step # 0
        BY <3>5
      <4> QED
        BY <4>1 DEF Fires, StepReady, TimeReady, IntervalReady
    <3>10. /\ next.timeFirst = IF TimeReady(sched, lua, c, Dt)
                               THEN sched.timeFirst + lua.everyTime ELSE sched.timeFirst
           /\ next.stepFirst = IF StepReady(sched, lua, c)
                               THEN sched.stepFirst + lua.everyStep ELSE sched.stepFirst
      <4>1. CASE Fires(sched, lua, c, Dt)
        <5>1. next = AfterDump(sched, lua, c, Dt)
          BY <3>4, <3>7, <4>1 DEF Publish
        <5> QED
          BY <5>1 DEF AfterDump
      <4>2. CASE ~Fires(sched, lua, c, Dt)
        <5>1. next = sched
          BY <3>4, <3>7, <4>2 DEF Publish
        <5> QED
          BY <3>9, <4>2, <5>1
      <4> QED
        BY <4>1, <4>2
    <3>11. /\ TimeReady(sched, lua, c, Dt) <=> TimeDue(s + 1)
           /\ TimeSchedule(next, s + 1)
      BY <2>c, <3>5, <3>6, <3>8, <3>10, TimeScheduleNext
    <3>12. /\ StepReady(sched, lua, c) <=> StepDue(s + 1)
           /\ StepSchedule(next, s + 1)
      BY <2>c, <3>5, <3>8, <3>10, StepScheduleNext
    <3>13. {frames'[i].step : i \in 1 .. Len(frames')} = DueSteps(s + 1)
      <4>1. {frames'[i].step : i \in 1 .. Len(frames')} =
              {frames[i].step : i \in 1 .. Len(frames)}
                \cup (IF Fires(sched, lua, c, Dt) THEN {c.step} ELSE {})
        BY <2>c, <3>5, <3>7, PublishSteps
      <4> QED
        BY <3>5, <3>8, <3>9, <3>11, <3>12, <4>1, DueStepsNext
    <3> QED
      BY <3>1, <3>2, <3>4, <3>5, <3>11, <3>12, <3>13
         DEF TimeSchedule, StepSchedule, Dumped, DueSteps, StepDue, TimeDue, Dt
  <2>3. CASE StartStep \/ RejectStep \/ Finish
    BY <2>3, <2>k DEF StartStep, RejectStep, Finish
  <2>4. CASE UNCHANGED vars
    <3>1. CASE pc = "setup"
      BY <2>4, <3>1 DEF vars, Cadence
    <3>2. CASE pc # "setup"
      BY <2>4, <2>k, <3>2 DEF vars
    <3> QED
      BY <3>1, <3>2
  <2>5. CASE Integrate /\ UNCHANGED <<valid, sched, frames, result>>
    <3>1. UNCHANGED <<lua, ctrl>> /\ pc # "setup" /\ pc' # "setup"
      BY <2>5 DEF Integrate, Rk4Begin, Rk4Stage, Rk4Update, EulerStep, EmptyStep
    <3> QED
      BY <3>1, <2>5, <2>k
  <2> QED
    BY <2>1, <2>2, <2>3, <2>4, <2>5 DEF Next, IntegrateStep, Returned
<1> QED
  BY <1>1, <1>2, TypeCorrect, BoundInvariant, LimitedInvariant, PTL DEF Spec

(* For every pair of dump intervals, step size and limits, the steps with  *)
(* a dump are those the intervals prescribe.                               *)
THEOREM DumpsAreDue == Spec => []DumpCadence
<1>1. Cadence => DumpCadence
  BY DEF Cadence, DumpCadence, Dumped
<1> QED
  BY <1>1, CadenceInvariant, PTL

-----------------------------------------------------------------------------
(* Polynomials in z = dt L: what the stages of one step compute.           *)

(* The coefficient i places before the k-th, and the polynomial q times    *)
(* a[1] + a[2] z + ... + a[5] z^4.                                         *)
Back(q, k, i) == IF i <= k THEN q[k - i] ELSE 0
Window(q, k) == [i \in 1 .. 5 |-> Back(q, k, i - 1)]
WeightedSum(a, x) == a[1] * x[1] + a[2] * x[2] + a[3] * x[3] + a[4] * x[4] + a[5] * x[5]
Comb(q, a) == [k \in 0 .. Degree |-> WeightedSum(a, Window(q, k))]
Weights == [1 .. 5 -> Int]

(* A weighted sum of integers is one. *)
LEMMA SumType ==
  ASSUME NEW a \in Weights, NEW x \in Weights
  PROVE  WeightedSum(a, x) \in Int
<1>1. \A i \in 1 .. 5 : a[i] * x[i] \in Int
  <2>1. SUFFICES ASSUME NEW i \in 1 .. 5 PROVE a[i] * x[i] \in Int
    OBVIOUS
  <2>2. a[i] \in Int /\ x[i] \in Int
    BY DEF Weights
  <2> QED
    BY <2>2
<1>2. 1 \in 1 .. 5 /\ 2 \in 1 .. 5 /\ 3 \in 1 .. 5 /\ 4 \in 1 .. 5 /\ 5 \in 1 .. 5
  OBVIOUS
<1>3. /\ a[1] * x[1] \in Int /\ a[2] * x[2] \in Int /\ a[3] * x[3] \in Int
      /\ a[4] * x[4] \in Int /\ a[5] * x[5] \in Int
  BY <1>1, <1>2, Zenon
<1> QED
  BY <1>3 DEF WeightedSum

(* Coefficients and their combinations are integers. *)
LEMMA CombType ==
  ASSUME NEW q \in Coefs, NEW a \in Weights
  PROVE  /\ \A k \in 0 .. Degree : Window(q, k) \in Weights
         /\ Comb(q, a) \in Coefs
<1>1. Degree \in Nat
  BY LinearFieldAssumption DEF Degree
<1>2. ASSUME NEW k \in 0 .. Degree PROVE Window(q, k) \in Weights
  <2>1. ASSUME NEW i \in 1 .. 5 PROVE Back(q, k, i - 1) \in Int
    BY <1>1 DEF Back, Coefs
  <2> QED
    BY <2>1 DEF Window, Weights
<1> QED
  BY <1>2, SumType DEF Comb, Coefs

(* Coefficients that agree everywhere are equal. *)
LEMMA SameCoefs ==
  ASSUME NEW f \in Coefs, NEW g \in Coefs, \A k \in 0 .. Degree : f[k] = g[k]
  PROVE  f = g
<1>1. f = [k \in 0 .. Degree |-> f[k]] /\ g = [k \in 0 .. Degree |-> g[k]]
  BY DEF Coefs
<1>2. [k \in 0 .. Degree |-> f[k]] = [k \in 0 .. Degree |-> g[k]]
  OBVIOUS
<1> QED
  BY <1>1, <1>2, Zenon

(* A fraction of a weighted sum is the sum with the fractions of the       *)
(* weights.                                                                *)
LEMMA FractionOfSum ==
  ASSUME NEW n \in Int, NEW d \in Nat \ {0},
         NEW b \in Weights, NEW e \in Weights, NEW x \in Weights,
         \A i \in 1 .. 5 : n * b[i] = d * e[i]
  PROVE  (n * WeightedSum(b, x)) \div d = WeightedSum(e, x)
<1>1. \A i \in 1 .. 5 : b[i] \in Int /\ e[i] \in Int /\ x[i] \in Int
  BY DEF Weights
<1>2. \A m, y1, y2, y3, y4, y5 \in Int :
        m * (y1 + y2 + y3 + y4 + y5) = m * y1 + m * y2 + m * y3 + m * y4 + m * y5
  OBVIOUS
<1>3. \A y \in Int : (d * y) \div d = y
  OBVIOUS
<1>5. ASSUME NEW i \in 1 .. 5
      PROVE  /\ n * (b[i] * x[i]) = d * (e[i] * x[i])
             /\ b[i] * x[i] \in Int /\ e[i] * x[i] \in Int
  <2> DEFINE bi == b[i]
             ei == e[i]
             xi == x[i]
  <2>1. bi \in Int /\ ei \in Int /\ xi \in Int /\ n * bi = d * ei
    BY <1>1
  <2> HIDE DEF bi, ei, xi
  <2>2. n * (bi * xi) = (n * bi) * xi
    BY <2>1
  <2>3. d * (ei * xi) = (d * ei) * xi
    BY <2>1
  <2>4. n * (bi * xi) = d * (ei * xi)
    BY <2>1, <2>2, <2>3, Zenon
  <2>5. bi * xi \in Int /\ ei * xi \in Int
    BY <2>1
  <2> QED
    BY <2>4, <2>5 DEF bi, ei, xi
<1>6. 1 \in 1 .. 5 /\ 2 \in 1 .. 5 /\ 3 \in 1 .. 5 /\ 4 \in 1 .. 5 /\ 5 \in 1 .. 5
  OBVIOUS
<1>7. n * WeightedSum(b, x)
        = n * (b[1] * x[1]) + n * (b[2] * x[2]) + n * (b[3] * x[3]) + n * (b[4] * x[4])
            + n * (b[5] * x[5])
  <2>1. /\ b[1] * x[1] \in Int /\ b[2] * x[2] \in Int /\ b[3] * x[3] \in Int
        /\ b[4] * x[4] \in Int /\ b[5] * x[5] \in Int
    BY <1>5, <1>6, Zenon
  <2> QED
    BY <1>2, <2>1 DEF WeightedSum
<1>8. d * WeightedSum(e, x)
        = d * (e[1] * x[1]) + d * (e[2] * x[2]) + d * (e[3] * x[3]) + d * (e[4] * x[4])
            + d * (e[5] * x[5])
  <2>1. /\ e[1] * x[1] \in Int /\ e[2] * x[2] \in Int /\ e[3] * x[3] \in Int
        /\ e[4] * x[4] \in Int /\ e[5] * x[5] \in Int
    BY <1>5, <1>6, Zenon
  <2> QED
    BY <1>2, <2>1 DEF WeightedSum
<1>9. n * WeightedSum(b, x) = d * WeightedSum(e, x)
  <2>1. /\ n * (b[1] * x[1]) = d * (e[1] * x[1]) /\ n * (b[2] * x[2]) = d * (e[2] * x[2])
        /\ n * (b[3] * x[3]) = d * (e[3] * x[3]) /\ n * (b[4] * x[4]) = d * (e[4] * x[4])
        /\ n * (b[5] * x[5]) = d * (e[5] * x[5])
    BY <1>5, <1>6, Zenon
  <2> QED
    BY <1>7, <1>8, <2>1, Zenon
<1>10. WeightedSum(e, x) \in Int
  BY SumType
<1> QED
  BY <1>3, <1>9, <1>10, Zenon

(* Two weighted sums of the same numbers are one. *)
LEMMA SumOfSums ==
  ASSUME NEW a \in Weights, NEW e \in Weights, NEW c \in Weights, NEW x \in Weights,
         \A i \in 1 .. 5 : c[i] = a[i] + e[i]
  PROVE  WeightedSum(a, x) + WeightedSum(e, x) = WeightedSum(c, x)
<1>1. \A i \in 1 .. 5 : a[i] \in Int /\ e[i] \in Int /\ x[i] \in Int
  BY DEF Weights
<1>2. ASSUME NEW i \in 1 .. 5
      PROVE  /\ a[i] * x[i] + e[i] * x[i] = c[i] * x[i]
             /\ a[i] * x[i] \in Int /\ e[i] * x[i] \in Int
  <2> DEFINE ai == a[i]
             ei == e[i]
             xi == x[i]
  <2>1. ai \in Int /\ ei \in Int /\ xi \in Int /\ c[i] = ai + ei
    BY <1>1
  <2> HIDE DEF ai, ei, xi
  <2>2. ai * xi + ei * xi = (ai + ei) * xi /\ ai * xi \in Int /\ ei * xi \in Int
    BY <2>1
  <2> QED
    BY <2>1, <2>2, Zenon DEF ai, ei, xi
<1>3. 1 \in 1 .. 5 /\ 2 \in 1 .. 5 /\ 3 \in 1 .. 5 /\ 4 \in 1 .. 5 /\ 5 \in 1 .. 5
  OBVIOUS
<1>4. \A f1, f2, f3, f4, f5, g1, g2, g3, g4, g5 \in Int :
        (f1 + f2 + f3 + f4 + f5) + (g1 + g2 + g3 + g4 + g5)
          = (f1 + g1) + (f2 + g2) + (f3 + g3) + (f4 + g4) + (f5 + g5)
  OBVIOUS
<1>5. /\ a[1] * x[1] \in Int /\ a[2] * x[2] \in Int /\ a[3] * x[3] \in Int
      /\ a[4] * x[4] \in Int /\ a[5] * x[5] \in Int
      /\ e[1] * x[1] \in Int /\ e[2] * x[2] \in Int /\ e[3] * x[3] \in Int
      /\ e[4] * x[4] \in Int /\ e[5] * x[5] \in Int
  BY <1>2, <1>3, Zenon
<1>6. WeightedSum(a, x) + WeightedSum(e, x)
        = (a[1] * x[1] + e[1] * x[1]) + (a[2] * x[2] + e[2] * x[2])
            + (a[3] * x[3] + e[3] * x[3]) + (a[4] * x[4] + e[4] * x[4])
            + (a[5] * x[5] + e[5] * x[5])
  BY <1>4, <1>5 DEF WeightedSum
<1>7. /\ a[1] * x[1] + e[1] * x[1] = c[1] * x[1] /\ a[2] * x[2] + e[2] * x[2] = c[2] * x[2]
      /\ a[3] * x[3] + e[3] * x[3] = c[3] * x[3] /\ a[4] * x[4] + e[4] * x[4] = c[4] * x[4]
      /\ a[5] * x[5] + e[5] * x[5] = c[5] * x[5]
  BY <1>2, <1>3, Zenon
<1> QED
  BY <1>6, <1>7, Zenon DEF WeightedSum

(* The slot u holds the combination a of q. *)
Holds(u, q, a) ==
  u \in Field /\ q \in Coefs /\ a \in Weights /\ u.coef = Comb(q, a)

(* Applying dt L moves every weight one place up. *)
LEMMA ApplyComb ==
  ASSUME NEW u, NEW q, NEW a, Holds(u, q, a), a[5] = 0, NEW b \in Weights,
         b[1] = 0, b[2] = a[1], b[3] = a[2], b[4] = a[3], b[5] = a[4]
  PROVE  Holds(ApplyL(u), q, b)
<1>1. Degree \in Nat
  BY LinearFieldAssumption DEF Degree
<1>2. /\ q \in Coefs /\ a \in Weights /\ u \in Field
      /\ \A i \in 1 .. 5 : a[i] \in Int /\ b[i] \in Int
  BY DEF Holds, Weights
<1>3. ASSUME NEW k \in 0 .. Degree PROVE ApplyL(u).coef[k] = Comb(q, b)[k]
  <2>1. ApplyL(u).coef[k] = IF k = 0 THEN 0 ELSE Comb(q, a)[k - 1]
    BY DEF ApplyL, Holds
  <2>2. Window(q, k) \in Weights
    BY <1>2, CombType
  <2> DEFINE x == Window(q, k)
  <2>3. Comb(q, b)[k] = b[1] * x[1] + b[2] * x[2] + b[3] * x[3] + b[4] * x[4] + b[5] * x[5]
    BY DEF Comb, WeightedSum
  <2>4. \A i \in 1 .. 5 : x[i] \in Int /\ x[i] = Back(q, k, i - 1)
    BY <2>2 DEF Weights, Window
  <2>5. /\ 1 \in 1 .. 5 /\ 2 \in 1 .. 5 /\ 3 \in 1 .. 5 /\ 4 \in 1 .. 5 /\ 5 \in 1 .. 5
        /\ \A z \in Int : 0 * z = 0 /\ z * 0 = 0
        /\ \A y, z \in Int : y * z \in Int
    OBVIOUS
  <2>6. CASE k = 0
    <3>1. \A i \in 2 .. 5 : x[i] = 0
      BY <2>4, <2>6 DEF Back
    <3>2. x[2] = 0 /\ x[3] = 0 /\ x[4] = 0 /\ x[5] = 0
      BY <3>1
    <3>3. Comb(q, b)[k] = 0 + 0 + 0 + 0 + 0
      BY <1>2, <2>3, <2>4, <2>5, <3>2, Zenon
    <3> QED
      BY <2>1, <2>6, <3>3
  <2>7. CASE k # 0
    <3> DEFINE y == Window(q, k - 1)
    <3>1. k - 1 \in 0 .. Degree
      BY <1>1, <2>7
    <3>2. Comb(q, a)[k - 1] = a[1] * y[1] + a[2] * y[2] + a[3] * y[3] + a[4] * y[4] + a[5] * y[5]
      BY <3>1 DEF Comb, WeightedSum
    <3>3. y \in Weights
      BY <1>2, <3>1, CombType
    <3>4. ASSUME NEW i \in 1 .. 4 PROVE y[i] = x[i + 1]
      <4>1. y[i] = Back(q, k - 1, i - 1) /\ x[i + 1] = Back(q, k, (i + 1) - 1)
        BY DEF Window
      <4>2. (k - 1) - (i - 1) = k - ((i + 1) - 1) /\ (i - 1 <= k - 1 <=> (i + 1) - 1 <= k)
        OBVIOUS
      <4> QED
        BY <4>1, <4>2, Zenon DEF Back
    <3> HIDE DEF x, y
    <3>5. y[1] = x[2] /\ y[2] = x[3] /\ y[3] = x[4] /\ y[4] = x[5] /\ y[5] \in Int
      <4>1. /\ 1 \in 1 .. 4 /\ 2 \in 1 .. 4 /\ 3 \in 1 .. 4 /\ 4 \in 1 .. 4
            /\ 1 + 1 = 2 /\ 2 + 1 = 3 /\ 3 + 1 = 4 /\ 4 + 1 = 5
        OBVIOUS
      <4>2. y[1] = x[1 + 1] /\ y[2] = x[2 + 1] /\ y[3] = x[3 + 1] /\ y[4] = x[4 + 1]
        BY <3>4, <4>1, Zenon
      <4>3. y[5] \in Int
        BY <3>3 DEF Weights
      <4> QED
        BY <4>1, <4>2, <4>3
    <3>6. Comb(q, a)[k - 1] = a[1] * x[2] + a[2] * x[3] + a[3] * x[4] + a[4] * x[5] + 0
      BY <2>5, <3>2, <3>5, Zenon
    <3>7. Comb(q, b)[k] = 0 + a[1] * x[2] + a[2] * x[3] + a[3] * x[4] + a[4] * x[5]
      BY <2>3, <2>4, <2>5, Zenon
    <3>8. /\ a[1] * x[2] \in Int /\ a[2] * x[3] \in Int /\ a[3] * x[4] \in Int
          /\ a[4] * x[5] \in Int
      BY <1>2, <2>4, <2>5, Zenon
    <3>9. Comb(q, b)[k] = Comb(q, a)[k - 1]
      BY <3>6, <3>7, <3>8
    <3> QED
      BY <2>1, <2>7, <3>9
  <2> QED
    BY <2>6, <2>7
<1>4. ApplyL(u) \in Field
  BY <1>2, FieldOps
<1>5. ApplyL(u).coef \in Coefs /\ Comb(q, b) \in Coefs
  BY <1>2, <1>4, CombType DEF Field
<1>6. ApplyL(u).coef = Comb(q, b)
  BY <1>3, <1>5, SameCoefs
<1> QED
  BY <1>2, <1>4, <1>6 DEF Holds

(* slot_assign_lc combines weights, where the division leaves no rest.     *)
LEMMA LcComb ==
  ASSUME NEW u, NEW v, NEW q, NEW a, NEW b, Holds(u, q, a), Holds(v, q, b),
         NEW num \in Nat, NEW den \in Nat \ {0}, NEW c \in Weights,
         \A i \in 1 .. 5 : num * b[i] = den * (c[i] - a[i])
  PROVE  Holds(AssignLC(u, num, den, v), q, c)
<1>2. /\ q \in Coefs /\ u \in Field /\ v \in Field /\ a \in Weights /\ b \in Weights
      /\ \A i \in 1 .. 5 : a[i] \in Int /\ b[i] \in Int /\ c[i] \in Int /\ c[i] - a[i] \in Int
  BY DEF Holds, Weights
<1>3. ASSUME NEW k \in 0 .. Degree PROVE AssignLC(u, num, den, v).coef[k] = Comb(q, c)[k]
  <2>1. AssignLC(u, num, den, v).coef[k] =
          Comb(q, a)[k] + (num * Comb(q, b)[k]) \div den
    BY DEF AssignLC, Holds, Field
  <2> DEFINE x == Window(q, k)
             e == [i \in 1 .. 5 |-> c[i] - a[i]]
  <2>2. x \in Weights
    BY <1>2, CombType
  <2>3. /\ Comb(q, a)[k] = WeightedSum(a, x) /\ Comb(q, b)[k] = WeightedSum(b, x)
        /\ Comb(q, c)[k] = WeightedSum(c, x)
    BY DEF Comb
  <2>4. /\ e \in Weights
        /\ \A i \in 1 .. 5 : num * b[i] = den * e[i]
        /\ \A i \in 1 .. 5 : c[i] = a[i] + e[i]
    <3>1. \A y, z \in Int : y = z + (y - z)
      OBVIOUS
    <3> QED
      BY <1>2, <3>1 DEF Weights
  <2> HIDE DEF x, e
  <2>5. (num * WeightedSum(b, x)) \div den = WeightedSum(e, x)
    <3>1. num \in Int
      OBVIOUS
    <3> QED
      BY <1>2, <2>2, <2>4, <3>1, FractionOfSum
  <2>6. WeightedSum(a, x) + WeightedSum(e, x) = WeightedSum(c, x)
    BY <1>2, <2>2, <2>4, SumOfSums
  <2> QED
    BY <2>1, <2>3, <2>5, <2>6, Zenon
<1>4. AssignLC(u, num, den, v) \in Field
  BY <1>2, FieldOps
<1>5. AssignLC(u, num, den, v).coef \in Coefs /\ Comb(q, c) \in Coefs
  BY <1>2, <1>4, CombType DEF Field
<1>6. AssignLC(u, num, den, v).coef = Comb(q, c)
  BY <1>3, <1>5, SameCoefs
<1> QED
  BY <1>2, <1>4, <1>6 DEF Holds

(* A multiple of a weighted sum is the sum of the multiples. *)
LEMMA ScaledSum ==
  ASSUME NEW g \in Int, NEW c \in Weights, NEW x \in Weights
  PROVE  g * WeightedSum(c, x)
           = g * (c[1] * x[1]) + g * (c[2] * x[2]) + g * (c[3] * x[3]) + g * (c[4] * x[4])
               + g * (c[5] * x[5])
<1>1. \A i \in 1 .. 5 : c[i] \in Int /\ x[i] \in Int
  BY DEF Weights
<1>2. \A y, z \in Int : y * z \in Int
  OBVIOUS
<1>3. 1 \in 1 .. 5 /\ 2 \in 1 .. 5 /\ 3 \in 1 .. 5 /\ 4 \in 1 .. 5 /\ 5 \in 1 .. 5
  OBVIOUS
<1>4. /\ c[1] * x[1] \in Int /\ c[2] * x[2] \in Int /\ c[3] * x[3] \in Int
      /\ c[4] * x[4] \in Int /\ c[5] * x[5] \in Int
  BY <1>1, <1>2, <1>3, Zenon
<1>5. \A y1, y2, y3, y4, y5 \in Int :
        g * (y1 + y2 + y3 + y4 + y5) = g * y1 + g * y2 + g * y3 + g * y4 + g * y5
  OBVIOUS
<1> QED
  BY <1>4, <1>5 DEF WeightedSum

(* One step of a method on coefficients divisible by 24 m leaves no rest,  *)
(* and its result is divisible by m.                                       *)
LEMMA ExactStep ==
  ASSUME NEW m \in Nat, NEW r \in Coefs, NEW p \in Coefs, NEW c \in Weights,
         \A k \in 0 .. Degree : p[k] = 24 * (m * r[k])
  PROVE  \A k \in 0 .. Degree : TimesOneStep(p, c, 24)[k] = m * Comb(r, c)[k]
<1>1. Degree \in Nat
  BY LinearFieldAssumption DEF Degree
<1>2. SUFFICES ASSUME NEW k \in 0 .. Degree
               PROVE  TimesOneStep(p, c, 24)[k] = m * Comb(r, c)[k]
  OBVIOUS
<1> DEFINE term(i) == IF i <= k THEN c[i + 1] * p[k - i] ELSE 0
           x == Window(r, k)
<1>3. TimesOneStep(p, c, 24)[k] = (term(0) + term(1) + term(2) + term(3) + term(4)) \div 24
  BY DEF TimesOneStep
<1>4. x \in Weights /\ Comb(r, c)[k] = WeightedSum(c, x)
  BY CombType DEF Comb
<1>5. ASSUME NEW i \in 0 .. 4 PROVE term(i) = (24 * m) * (c[i + 1] * x[i + 1])
  <2>1. x[i + 1] = Back(r, k, i)
    <3>1. i + 1 \in 1 .. 5 /\ (i + 1) - 1 = i
      OBVIOUS
    <3> QED
      BY <3>1 DEF Window
  <2>2. c[i + 1] \in Int
    BY DEF Weights
  <2>3. CASE i <= k
    <3> DEFINE ci == c[i + 1]
               ri == r[k - i]
    <3>1. k - i \in 0 .. Degree
      BY <1>1, <2>3
    <3>2. ri \in Int /\ ci \in Int
      BY <2>2, <3>1 DEF Coefs
    <3>3. p[k - i] = 24 * (m * ri)
      BY <3>1
    <3>4. term(i) = ci * (24 * (m * ri))
      BY <2>3, <3>3
    <3>5. x[i + 1] = ri
      BY <2>1, <2>3 DEF Back
    <3> HIDE DEF ci, ri
    <3>6. ci * (24 * (m * ri)) = (24 * m) * (ci * ri)
      BY <3>2
    <3> QED
      BY <3>4, <3>5, <3>6, Zenon DEF ci
  <2>4. CASE ~(i <= k)
    <3>1. x[i + 1] = 0 /\ term(i) = 0
      BY <2>1, <2>4 DEF Back
    <3>2. \A y \in Int : y * 0 = 0
      OBVIOUS
    <3>3. 24 * m \in Int
      OBVIOUS
    <3> QED
      BY <2>2, <3>1, <3>2, <3>3, Zenon
  <2> QED
    BY <2>3, <2>4
<1>6. term(0) + term(1) + term(2) + term(3) + term(4) = (24 * m) * WeightedSum(c, x)
  <2>1. /\ 0 \in 0 .. 4 /\ 1 \in 0 .. 4 /\ 2 \in 0 .. 4 /\ 3 \in 0 .. 4 /\ 4 \in 0 .. 4
        /\ 0 + 1 = 1 /\ 1 + 1 = 2 /\ 2 + 1 = 3 /\ 3 + 1 = 4 /\ 4 + 1 = 5
        /\ 24 * m \in Int
    OBVIOUS
  <2> HIDE DEF term, x
  <2>2. /\ term(0) = (24 * m) * (c[0 + 1] * x[0 + 1])
        /\ term(1) = (24 * m) * (c[1 + 1] * x[1 + 1])
        /\ term(2) = (24 * m) * (c[2 + 1] * x[2 + 1])
        /\ term(3) = (24 * m) * (c[3 + 1] * x[3 + 1])
        /\ term(4) = (24 * m) * (c[4 + 1] * x[4 + 1])
    BY <1>5, <2>1, Zenon
  <2>3. /\ term(0) = (24 * m) * (c[1] * x[1]) /\ term(1) = (24 * m) * (c[2] * x[2])
        /\ term(2) = (24 * m) * (c[3] * x[3]) /\ term(3) = (24 * m) * (c[4] * x[4])
        /\ term(4) = (24 * m) * (c[5] * x[5])
    BY <2>1, <2>2, Zenon
  <2>4. (24 * m) * WeightedSum(c, x)
          = (24 * m) * (c[1] * x[1]) + (24 * m) * (c[2] * x[2]) + (24 * m) * (c[3] * x[3])
              + (24 * m) * (c[4] * x[4]) + (24 * m) * (c[5] * x[5])
    BY <1>4, <2>1, ScaledSum
  <2> QED
    BY <2>3, <2>4, Zenon
<1> HIDE DEF term, x
<1>7. WeightedSum(c, x) \in Int
  BY <1>4, SumType
<1>8. \A y \in Int : ((24 * m) * y) \div 24 = m * y
  <2>1. SUFFICES ASSUME NEW y \in Int PROVE ((24 * m) * y) \div 24 = m * y
    OBVIOUS
  <2>2. (24 * m) * y = 24 * (m * y) /\ m * y \in Int
    OBVIOUS
  <2>3. \A z \in Int : (24 * z) \div 24 = z
    OBVIOUS
  <2> QED
    BY <2>2, <2>3, Zenon
<1> QED
  BY <1>3, <1>4, <1>6, <1>7, <1>8, Zenon

(* Coefficients after n steps are divisible by Scales[n].                  *)
Scaled(n, p) == \E r \in Coefs : p = [k \in 0 .. Degree |-> Scales[n] * r[k]]

Whole == <<24, 0, 0, 0, 0>>
Nothing == <<0, 0, 0, 0, 0>>

(* The zero field and the 24-fold of q as combinations.                    *)
LEMMA WholeIs ==
  ASSUME NEW q \in Coefs
  PROVE  /\ \A k \in 0 .. Degree : Comb(q, Whole)[k] = 24 * q[k]
         /\ \A k \in 0 .. Degree : Comb(q, Nothing)[k] = 0
<1>1. Degree \in Nat
  BY LinearFieldAssumption DEF Degree
<1>2. SUFFICES ASSUME NEW k \in 0 .. Degree
               PROVE  Comb(q, Whole)[k] = 24 * q[k] /\ Comb(q, Nothing)[k] = 0
  OBVIOUS
<1> DEFINE x == Window(q, k)
<1>3. x \in Weights /\ x[1] = q[k] /\ q[k] \in Int
  <2>1. x \in Weights
    <3>1. Whole \in Weights
      BY DEF Whole, Weights
    <3> QED
      BY <3>1, CombType
  <2>2. 1 \in 1 .. 5 /\ 1 - 1 = 0 /\ 0 <= k /\ k - 0 = k
    OBVIOUS
  <2>3. x[1] = q[k]
    BY <2>2 DEF Window, Back
  <2>4. q[k] \in Int
    BY DEF Coefs
  <2> QED
    BY <2>1, <2>3, <2>4
<1>4. /\ Comb(q, Whole)[k] = WeightedSum(Whole, x)
      /\ Comb(q, Nothing)[k] = WeightedSum(Nothing, x)
  BY DEF Comb
<1> HIDE DEF x
<1>5. x[1] \in Int /\ x[2] \in Int /\ x[3] \in Int /\ x[4] \in Int /\ x[5] \in Int
  BY <1>3 DEF Weights
<1>6. /\ WeightedSum(Whole, x) = 24 * x[1] + 0 * x[2] + 0 * x[3] + 0 * x[4] + 0 * x[5]
      /\ WeightedSum(Nothing, x) = 0 * x[1] + 0 * x[2] + 0 * x[3] + 0 * x[4] + 0 * x[5]
  BY DEF WeightedSum, Whole, Nothing
<1> QED
  BY <1>3, <1>4, <1>5, <1>6

(* Before a step that the configuration still allows, u0 is the 24-fold of *)
(* a polynomial, which the stages then combine.                            *)
LEMMA HasWhole ==
  ASSUME NEW n \in Nat, n + 1 <= StepCap, NEW u \in Field, Scaled(n, u.coef)
  PROVE  \E q \in Coefs : Holds(u, q, Whole)
<1>1. PICK r \in Coefs : u.coef = [k \in 0 .. Degree |-> Scales[n] * r[k]]
  BY DEF Scaled
<1>2. /\ n \in 0 .. StepCap - 1 /\ n + 1 \in 0 .. StepCap
      /\ Scales[n] = 24 * Scales[n + 1] /\ Scales[n + 1] \in Nat
  <2>1. n \in 0 .. StepCap - 1 /\ n + 1 \in 0 .. StepCap
    BY LinearFieldAssumption
  <2> QED
    BY <2>1, LinearFieldAssumption
<1> DEFINE m == Scales[n + 1]
           q == [k \in 0 .. Degree |-> m * r[k]]
<1>3. ASSUME NEW k \in 0 .. Degree
      PROVE  m * r[k] \in Int /\ u.coef[k] = 24 * (m * r[k])
  <2>1. r[k] \in Int /\ m \in Nat
    BY <1>2 DEF Coefs
  <2>2. u.coef[k] = (24 * m) * r[k]
    BY <1>1, <1>2
  <2> DEFINE rk == r[k]
  <2> HIDE DEF m, rk
  <2>3. m * rk \in Int /\ (24 * m) * rk = 24 * (m * rk)
    BY <2>1 DEF rk
  <2> QED
    BY <2>2, <2>3 DEF rk
<1>4. q \in Coefs
  BY <1>3 DEF Coefs
<1>5. Whole \in Weights
  BY DEF Whole, Weights
<1>6. ASSUME NEW k \in 0 .. Degree PROVE u.coef[k] = Comb(q, Whole)[k]
  <2>1. q[k] = m * r[k]
    OBVIOUS
  <2> HIDE DEF q, m
  <2> QED
    BY <1>3, <1>4, <2>1, WholeIs
<1> HIDE DEF q
<1>7. u.coef \in Coefs /\ Comb(q, Whole) \in Coefs
  BY <1>4, <1>5, CombType DEF Field
<1>8. u.coef = Comb(q, Whole)
  BY <1>6, <1>7, SameCoefs
<1> QED
  BY <1>4, <1>5, <1>8 DEF Holds

(* What the method's polynomial makes of u0, and how divisible it stays.   *)
LEMMA StepOfWhole ==
  ASSUME NEW u, NEW q, Holds(u, q, Whole), NEW c \in Weights
  PROVE  TimesOneStep(u.coef, c, 24) = Comb(q, c)
<1>1. q \in Coefs /\ u \in Field /\ u.coef \in Coefs /\ u.coef = Comb(q, Whole)
  BY DEF Holds, Field
<1>2. ASSUME NEW k \in 0 .. Degree PROVE u.coef[k] = 24 * (1 * q[k])
  <2>1. q[k] \in Int
    BY <1>1 DEF Coefs
  <2>2. u.coef[k] = 24 * q[k]
    BY <1>1, WholeIs
  <2> QED
    BY <2>1, <2>2
<1>3. \A k \in 0 .. Degree : TimesOneStep(u.coef, c, 24)[k] = 1 * Comb(q, c)[k]
  <2>1. 1 \in Nat
    OBVIOUS
  <2> QED
    BY <1>1, <1>2, <2>1, ExactStep
<1>4. Comb(q, c) \in Coefs
  BY <1>1, CombType
<1>5. ASSUME NEW k \in 0 .. Degree PROVE TimesOneStep(u.coef, c, 24)[k] = Comb(q, c)[k]
  <2>1. Comb(q, c)[k] \in Int
    BY <1>4 DEF Coefs
  <2>2. \A y \in Int : 1 * y = y
    OBVIOUS
  <2> QED
    BY <1>3, <2>1, <2>2, Zenon
<1>6. TimesOneStep(u.coef, c, 24)
        = [k \in 0 .. Degree |-> TimesOneStep(u.coef, c, 24)[k]]
  BY DEF TimesOneStep
<1>7. TimesOneStep(u.coef, c, 24) \in Coefs
  <2>1. \A k \in 0 .. Degree : TimesOneStep(u.coef, c, 24)[k] \in Int
    BY <1>4, <1>5 DEF Coefs
  <2> QED
    BY <1>6, <2>1 DEF Coefs
<1> QED
  BY <1>4, <1>5, <1>7, SameCoefs

LEMMA StepStaysScaled ==
  ASSUME NEW n \in Nat, n + 1 <= StepCap, NEW p \in Coefs, Scaled(n, p), NEW c \in Weights
  PROVE  Scaled(n + 1, TimesOneStep(p, c, 24))
<1>1. PICK r \in Coefs : p = [k \in 0 .. Degree |-> Scales[n] * r[k]]
  BY DEF Scaled
<1>2. /\ n \in 0 .. StepCap - 1 /\ n + 1 \in 0 .. StepCap
      /\ Scales[n] = 24 * Scales[n + 1] /\ Scales[n + 1] \in Nat
  <2>1. n \in 0 .. StepCap - 1 /\ n + 1 \in 0 .. StepCap
    BY LinearFieldAssumption
  <2> QED
    BY <2>1, LinearFieldAssumption
<1>3. PICK m \in Nat : m = Scales[n + 1]
  BY <1>2
<1>4. ASSUME NEW k \in 0 .. Degree PROVE p[k] = 24 * (m * r[k])
  <2>1. r[k] \in Int
    BY DEF Coefs
  <2>2. p[k] = (24 * m) * r[k]
    BY <1>1, <1>2, <1>3
  <2> DEFINE rk == r[k]
  <2> HIDE DEF rk
  <2>3. (24 * m) * rk = 24 * (m * rk)
    BY <2>1 DEF rk
  <2> QED
    BY <2>2, <2>3 DEF rk
<1>5. \A k \in 0 .. Degree : TimesOneStep(p, c, 24)[k] = m * Comb(r, c)[k]
  BY <1>4, ExactStep
<1>6. TimesOneStep(p, c, 24) = [k \in 0 .. Degree |-> TimesOneStep(p, c, 24)[k]]
  BY DEF TimesOneStep
<1>7. TimesOneStep(p, c, 24) = [k \in 0 .. Degree |-> m * Comb(r, c)[k]]
  BY <1>5, <1>6
<1>8. Comb(r, c) \in Coefs
  BY CombType
<1> QED
  BY <1>3, <1>7, <1>8 DEF Scaled

(* The method without an integrator is the identity.                       *)
LEMMA WholeStep ==
  ASSUME NEW p \in Coefs
  PROVE  TimesOneStep(p, Whole, 24) = p
<1>1. Degree \in Nat
  BY LinearFieldAssumption DEF Degree
<1>2. ASSUME NEW k \in 0 .. Degree PROVE TimesOneStep(p, Whole, 24)[k] = p[k]
  <2> DEFINE term(i) == IF i <= k THEN Whole[i + 1] * p[k - i] ELSE 0
  <2>1. TimesOneStep(p, Whole, 24)[k]
          = (term(0) + term(1) + term(2) + term(3) + term(4)) \div 24
    BY DEF TimesOneStep
  <2>2. p[k] \in Int
    BY DEF Coefs
  <2>3. term(0) = 24 * p[k]
    BY DEF Whole
  <2>4. ASSUME NEW i \in 1 .. 4 PROVE term(i) = 0
    <3>1. Whole[i + 1] = 0
      BY DEF Whole
    <3>2. CASE i <= k
      <4>1. k - i \in 0 .. Degree
        BY <1>1, <3>2
      <4>2. p[k - i] \in Int
        BY <4>1 DEF Coefs
      <4>3. \A z \in Int : 0 * z = 0
        OBVIOUS
      <4> QED
        BY <3>1, <3>2, <4>2, <4>3
    <3>3. CASE ~(i <= k)
      BY <3>3
    <3> QED
      BY <3>2, <3>3
  <2> HIDE DEF term
  <2>5. term(1) = 0 /\ term(2) = 0 /\ term(3) = 0 /\ term(4) = 0
    BY <2>4
  <2>6. \A z \in Int : (24 * z + 0 + 0 + 0 + 0) \div 24 = z
    OBVIOUS
  <2> QED
    BY <2>1, <2>2, <2>3, <2>5, <2>6, Zenon
<1>3. TimesOneStep(p, Whole, 24) = [k \in 0 .. Degree |-> TimesOneStep(p, Whole, 24)[k]]
  BY DEF TimesOneStep
<1>4. \A k \in 0 .. Degree : TimesOneStep(p, Whole, 24)[k] \in Int
  BY <1>2 DEF Coefs
<1>5. TimesOneStep(p, Whole, 24) \in Coefs
  BY <1>3, <1>4 DEF Coefs
<1> QED
  BY <1>2, <1>5, SameCoefs

(* The weights of a stage: of the right-hand side it finds, of the sum it  *)
(* finds, and of the state it evaluates; entries 5 are what it all ends in. *)
RhsWeights ==
  <<Nothing, <<0, 24, 0, 0, 0>>, <<0, 24, 12, 0, 0>>, <<0, 24, 12, 6, 0>>,
    <<0, 24, 24, 12, 6>>>>
SumWeights ==
  <<Nothing, <<0, 4, 0, 0, 0>>, <<0, 12, 4, 0, 0>>, <<0, 20, 8, 2, 0>>,
    <<0, 24, 12, 4, 1>>>>
StateWeights ==
  <<Whole, <<24, 12, 0, 0, 0>>, <<24, 12, 6, 0, 0>>, <<24, 24, 12, 6, 0>>>>

(* The tableau rki, rkf takes each row of weights to the next.             *)
LEMMA TableauWeights ==
  ASSUME NEW i \in 1 .. 4
  PROVE  /\ RhsWeights[i] \in Weights /\ RhsWeights[i + 1] \in Weights
         /\ SumWeights[i] \in Weights /\ SumWeights[i + 1] \in Weights
         /\ StateWeights[i] \in Weights
         /\ \A j \in 1 .. 5 : Rki[i] * RhsWeights[i][j] = 2 * (StateWeights[i][j] - Whole[j])
         /\ StateWeights[i][5] = 0 /\ RhsWeights[i + 1][1] = 0
         /\ RhsWeights[i + 1][2] = StateWeights[i][1]
         /\ RhsWeights[i + 1][3] = StateWeights[i][2]
         /\ RhsWeights[i + 1][4] = StateWeights[i][3]
         /\ RhsWeights[i + 1][5] = StateWeights[i][4]
         /\ \A j \in 1 .. 5 :
              Rkf[i] * RhsWeights[i + 1][j] = 6 * (SumWeights[i + 1][j] - SumWeights[i][j])
<1> USE DEF RhsWeights, SumWeights, StateWeights, Whole, Nothing, Weights, Rki, Rkf
<1>1. CASE i = 1
  BY <1>1
<1>2. CASE i = 2
  BY <1>2
<1>3. CASE i = 3
  BY <1>3
<1>4. CASE i = 4
  BY <1>4
<1> QED
  BY <1>1, <1>2, <1>3, <1>4

(* One stage on the fields: from state v it makes the next right-hand side *)
(* and the next sum.                                                       *)
LEMMA StageCombines ==
  ASSUME NEW i \in 1 .. 4, NEW q, NEW u0, NEW u1, NEW rhs, NEW acc, NEW v \in Field,
         Holds(u0, q, Whole), i = 1 => Holds(u1, q, Whole),
         Holds(rhs, q, RhsWeights[i]), Holds(acc, q, SumWeights[i]),
         v.coef = IF i = 1 THEN u1.coef ELSE AssignLC(u0, Rki[i], 2, rhs).coef
  PROVE  /\ Holds(ApplyL(v), q, RhsWeights[i + 1])
         /\ Holds(Accumulate(acc, Rkf[i], 6, ApplyL(v)), q, SumWeights[i + 1])
<1>0. q \in Coefs /\ Rki[i] \in Nat /\ Rkf[i] \in Nat /\ 2 \in Nat \ {0} /\ 6 \in Nat \ {0}
  BY DEF Holds, Rki, Rkf
<1>1. Holds(v, q, StateWeights[i])
  <2>1. CASE i = 1
    <3>1. StateWeights[i] = Whole
      BY <2>1 DEF StateWeights
    <3> QED
      BY <2>1, <3>1 DEF Holds
  <2>2. CASE i # 1
    <3>1. /\ StateWeights[i] \in Weights
          /\ \A j \in 1 .. 5 : Rki[i] * RhsWeights[i][j] = 2 * (StateWeights[i][j] - Whole[j])
      BY TableauWeights
    <3>2. Holds(AssignLC(u0, Rki[i], 2, rhs), q, StateWeights[i])
      BY <1>0, <3>1, LcComb
    <3> QED
      BY <2>2, <3>2 DEF Holds
  <2> QED
    BY <2>1, <2>2
<1>2. Holds(ApplyL(v), q, RhsWeights[i + 1])
  BY <1>1, TableauWeights, ApplyComb
<1>3. Holds(AssignLC(acc, Rkf[i], 6, ApplyL(v)), q, SumWeights[i + 1])
  <2>1. /\ SumWeights[i + 1] \in Weights
        /\ \A j \in 1 .. 5 :
             Rkf[i] * RhsWeights[i + 1][j] = 6 * (SumWeights[i + 1][j] - SumWeights[i][j])
    BY TableauWeights
  <2> QED
    BY <1>0, <1>2, <2>1, LcComb
<1> QED
  BY <1>2, <1>3 DEF Accumulate

(* Without fields no step touches the buffers. *)
LEMMA NoFieldKeeps ==
  ASSUME ~HasField, Setup \/ Integrate \/ AcceptStep
  PROVE  data' = data
<1>1. /\ \A d, s, f : Write(d, s, f) = d
      /\ \A d : SubmitRhs(d) = d
  BY DEF Write, SubmitRhs
<1>2. /\ \A d, s, t : UpdateBoundary(d, s, t) = d
      /\ \A d, s, t : DeepCopy(d, s, t) = d
  BY <1>1, Zenon DEF UpdateBoundary, DeepCopy
<1>3. \A i : StageState(i) = data
  BY <1>1, <1>2, Zenon DEF StageState
<1>4. CASE Setup
  BY <1>1, <1>2, <1>4 DEF Setup
<1>5. CASE Rk4Begin
  BY <1>1, <1>2, <1>5 DEF Rk4Begin
<1>6. CASE Rk4Stage
  BY <1>1, <1>3, <1>6 DEF Rk4Stage
<1>7. CASE Rk4Update
  BY <1>1, <1>2, <1>7, Zenon DEF Rk4Update
<1>8. CASE EulerStep
  BY <1>1, <1>2, <1>8 DEF EulerStep
<1>9. CASE EmptyStep
  BY <1>9 DEF EmptyStep, integratorVars
<1>10. CASE AcceptStep
  BY <1>2, <1>10, Zenon DEF AcceptStep, CopyBack
<1> QED
  BY <1>4, <1>5, <1>6, <1>7, <1>8, <1>9, <1>10 DEF Integrate

(* With fields, the slot operations change one buffer. *)
LEMMA WriteIs ==
  ASSUME Bound, HasField, NEW d \in [Slots -> Field], NEW s \in Slots, NEW f \in Field
  PROVE  /\ Write(d, s, f) = [d EXCEPT ![s] = f]
         /\ Write(d, s, f) \in [Slots -> Field]
BY DEF Bound, Identity, Write

LEMMA CopyIs ==
  ASSUME Bound, HasField, NEW d \in [Slots -> Field], NEW s \in Slots, NEW t \in Slots
  PROVE  DeepCopy(d, s, t) = [d EXCEPT ![s] = d[t]]
<1>1. buf[t] = t /\ d[t] \in Field
  BY DEF Bound, Identity
<1> QED
  BY <1>1, WriteIs DEF DeepCopy

LEMMA BoundaryIs ==
  ASSUME Bound, HasField, NEW d \in [Slots -> Field], NEW s \in Slots, NEW t \in Nat
  PROVE  \E f \in Field : /\ f.coef = d[s].coef /\ f.bdy = t
                          /\ UpdateBoundary(d, s, t) = [d EXCEPT ![s] = f]
<1>1. buf[s] = s /\ d[s] \in Field
  BY DEF Bound, Identity
<1> DEFINE f == [d[s] EXCEPT !.bdy = t]
<1>2. f \in Field /\ f.bdy = t /\ f.coef = d[s].coef
  BY <1>1, FieldOps DEF Field
<1>3. UpdateBoundary(d, s, t) = Write(d, s, f)
  BY <1>1 DEF UpdateBoundary
<1> HIDE DEF f
<1>4. Write(d, s, f) = [d EXCEPT ![s] = f]
  BY <1>2, WriteIs
<1> QED
  BY <1>2, <1>3, <1>4

(* A field is its coefficients and its boundary data. *)
LEMMA SameField ==
  ASSUME NEW u \in Field, NEW v \in Field, u.coef = v.coef, u.bdy = v.bdy
  PROVE  u = v
BY DEF Field

(* Setup leaves the initial field in u0 and u1. *)
LEMMA SetupData ==
  ASSUME TypeOK, Bound, HasField, Setup
  PROVE  data'["u0"] = InitialField(ctrl.time) /\ data'["u1"] = InitialField(ctrl.time)
<1> DEFINE t == ctrl.time
           init == Write(data, "u0", InitialField(t))
           both == DeepCopy(init, "u1", "u0")
<1>1. "u0" \in Slots /\ "u1" \in Slots /\ "u0" # "u1"
  BY DEF Slots
<1>2. t \in Nat /\ data \in [Slots -> Field]
  BY DEF TypeOK, ControllerType
<1>3. InitialField(t) \in Field /\ InitialField(t).bdy = t
  BY <1>2, FieldOps
<1>4. data' = UpdateBoundary(both, "u0", t)
  BY DEF Setup
<1> HIDE DEF t
<1>5. init \in [Slots -> Field] /\ init["u0"] = InitialField(t)
  <2>1. init = [data EXCEPT !["u0"] = InitialField(t)]
    BY <1>1, <1>2, <1>3, WriteIs
  <2> QED
    BY <1>1, <1>2, <1>3, <2>1
<1> HIDE DEF init
<1>6. both \in [Slots -> Field] /\ both["u1"] = InitialField(t) /\ both["u0"] = InitialField(t)
  <2>1. both = [init EXCEPT !["u1"] = init["u0"]]
    BY <1>1, <1>5, CopyIs
  <2> QED
    BY <1>1, <1>3, <1>5, <2>1
<1> HIDE DEF both
<1>7. PICK f \in Field : /\ f.coef = both["u0"].coef /\ f.bdy = t
                         /\ UpdateBoundary(both, "u0", t) = [both EXCEPT !["u0"] = f]
  BY <1>1, <1>2, <1>6, BoundaryIs
<1>8. f = InitialField(t)
  BY <1>3, <1>6, <1>7, SameField
<1> QED
  BY <1>1, <1>4, <1>6, <1>7, <1>8 DEF t

(* rk4 begins with cleared accumulators and u1 = u0. *)
LEMMA BeginData ==
  ASSUME TypeOK, Bound, HasField, Rk4Begin
  PROVE  /\ data'["u0"] = data["u0"] /\ data'["u1"] = data["u0"]
         /\ data'["rk"] = ZeroField /\ data'["srhs"] = ZeroField
<1> DEFINE first == Write(data, "rk", ZeroField)
           zeroed == Write(first, "srhs", ZeroField)
<1>1. /\ "u0" \in Slots /\ "u1" \in Slots /\ "rk" \in Slots /\ "srhs" \in Slots
      /\ "u0" # "u1" /\ "rk" # "u1" /\ "srhs" # "u1" /\ "rk" # "srhs" /\ "u0" # "rk"
      /\ "u0" # "srhs"
  BY DEF Slots
<1>2. data \in [Slots -> Field] /\ ZeroField \in Field
  BY FieldOps DEF TypeOK
<1>3. data' = DeepCopy(zeroed, "u1", "u0")
  BY DEF Rk4Begin
<1>4. first = [data EXCEPT !["rk"] = ZeroField] /\ first \in [Slots -> Field]
  BY <1>1, <1>2, WriteIs
<1> HIDE DEF first
<1>5. zeroed = [first EXCEPT !["srhs"] = ZeroField] /\ zeroed \in [Slots -> Field]
  BY <1>1, <1>2, <1>4, WriteIs
<1> HIDE DEF zeroed
<1>6. data' = [zeroed EXCEPT !["u1"] = zeroed["u0"]]
  BY <1>1, <1>3, <1>5, CopyIs
<1> QED
  BY <1>1, <1>2, <1>4, <1>5, <1>6

(* The graph writes dt L u1 into srhs. *)
LEMMA SubmitWrites ==
  ASSUME Bound, HasField, pc # "setup", NEW d \in [Slots -> Field]
  PROVE  SubmitRhs(d)["srhs"] = ApplyL(d["u1"])
BY DEF SubmitRhs, Bound, Slots

(* What one stage leaves in the four slots. *)
LEMMA StageData ==
  ASSUME TypeOK, Bound, HasField, Rk4Stage
  PROVE  /\ data'["u0"] = data["u0"]
         /\ \E v \in Field :
              /\ v.coef = IF stage = 1 THEN data["u1"].coef
                          ELSE AssignLC(data["u0"], Rki[stage], 2, data["srhs"]).coef
              /\ data'["srhs"] = ApplyL(v)
              /\ data'["rk"] = Accumulate(data["rk"], Rkf[stage], 6, ApplyL(v))
<1> DEFINE t == StageTime(stage)
           lc == AssignLC(data["u0"], Rki[stage], 2, data["srhs"])
           form == StageState(stage)
           rhs == SubmitRhs(form)
           v == form["u1"]
           acc == Accumulate(data["rk"], Rkf[stage], 6, ApplyL(v))
<1>1. /\ "u0" \in Slots /\ "u1" \in Slots /\ "rk" \in Slots /\ "srhs" \in Slots
      /\ "u0" # "u1" /\ "rk" # "u1" /\ "rk" # "srhs" /\ "u0" # "rk" /\ "u0" # "srhs"
      /\ buf["u0"] = "u0" /\ buf["rk"] = "rk" /\ buf["srhs"] = "srhs"
  BY DEF Slots, Bound, Identity
<1>2. /\ data \in [Slots -> Field] /\ stage \in 1 .. 4 /\ pc # "setup"
      /\ lua \in Configs /\ ctrl \in ControllerType
  BY DEF TypeOK, Rk4Stage
<1>3. t \in Nat /\ Rki[stage] \in Nat /\ Rkf[stage] \in Nat /\ 2 \in Nat \ {0} /\ 6 \in Nat \ {0}
  BY <1>2, StageTimes
<1>4. lc \in Field
  BY <1>1, <1>2, <1>3, LcType
<1> HIDE DEF t
<1>5. /\ form \in [Slots -> Field] /\ form["u0"] = data["u0"] /\ form["rk"] = data["rk"]
      /\ v \in Field /\ v.coef = IF stage = 1 THEN data["u1"].coef ELSE lc.coef
  <2>1. CASE stage = 1
    <3>1. form = data
      BY <2>1 DEF StageState
    <3> QED
      BY <1>1, <1>2, <2>1, <3>1
  <2>2. CASE stage # 1
    <3> DEFINE moved == Write(data, "u1", lc)
    <3>1. form = UpdateBoundary(moved, "u1", t)
      BY <1>1, <2>2 DEF StageState, Val, t
    <3> HIDE DEF lc
    <3>2. moved = [data EXCEPT !["u1"] = lc] /\ moved \in [Slots -> Field]
      BY <1>1, <1>2, <1>4, WriteIs
    <3> HIDE DEF moved, form
    <3>3. PICK f \in Field : /\ f.coef = moved["u1"].coef /\ f.bdy = t
                             /\ UpdateBoundary(moved, "u1", t) = [moved EXCEPT !["u1"] = f]
      BY <1>1, <1>3, <3>2, BoundaryIs
    <3>4. form = [moved EXCEPT !["u1"] = f] /\ f.coef = lc.coef
      BY <1>1, <1>2, <3>1, <3>2, <3>3
    <3> QED
      BY <1>1, <1>2, <2>2, <3>2, <3>4
  <2> QED
    BY <2>1, <2>2
<1> HIDE DEF form, lc
<1>6. /\ rhs \in [Slots -> Field] /\ rhs["srhs"] = ApplyL(v)
      /\ rhs["u0"] = data["u0"] /\ rhs["rk"] = data["rk"]
  BY <1>1, <1>2, <1>5, SubmitType, SubmitAt, SubmitWrites
<1> HIDE DEF v
<1>7. data' = Write(rhs, "rk", acc)
  <2>1. data' = Write(rhs, "rk", Accumulate(rhs["rk"], Rkf[stage], 6, rhs["srhs"]))
    BY <1>1 DEF Rk4Stage, form
  <2> QED
    BY <1>6, <2>1, Zenon
<1>8. acc \in Field
  <2>1. data["rk"] \in Field /\ ApplyL(v) \in Field
    BY <1>1, <1>2, <1>5, FieldOps
  <2> QED
    BY <1>3, <2>1, LcType
<1> HIDE DEF acc, rhs
<1>9. data'["rk"] = acc /\ data'["srhs"] = ApplyL(v) /\ data'["u0"] = data["u0"]
  <2>1. data' = [rhs EXCEPT !["rk"] = acc]
    BY <1>1, <1>6, <1>7, <1>8, WriteIs
  <2> QED
    BY <1>1, <1>6, <2>1
<1> QED
  BY <1>5, <1>9 DEF acc, lc

(* rk4 ends with u1 = u0 + rk. *)
LEMMA UpdateData ==
  ASSUME TypeOK, Bound, HasField, Rk4Update
  PROVE  /\ data'["u0"] = data["u0"]
         /\ data'["u1"].coef = AssignLC(data["u0"], 1, 1, data["rk"]).coef
<1> DEFINE t == ctrl.time + Dt
           lc == AssignLC(data["u0"], 1, 1, data["rk"])
           moved == Write(data, "u1", lc)
<1>1. /\ "u0" \in Slots /\ "u1" \in Slots /\ "rk" \in Slots /\ "u0" # "u1"
      /\ buf["u0"] = "u0" /\ buf["rk"] = "rk"
  BY DEF Slots, Bound, Identity
<1>2. data \in [Slots -> Field] /\ t \in Nat /\ 1 \in Nat \ {0} /\ 1 \in Nat
  BY ConfigType DEF TypeOK, ControllerType
<1>3. lc \in Field
  <2>1. data["u0"] \in Field /\ data["rk"] \in Field
    BY <1>1, <1>2
  <2> QED
    BY <1>2, <2>1, LcType
<1>4. data' = UpdateBoundary(moved, "u1", t)
  BY <1>1 DEF Rk4Update, Val
<1> HIDE DEF t, lc
<1>5. moved = [data EXCEPT !["u1"] = lc] /\ moved \in [Slots -> Field]
  BY <1>1, <1>2, <1>3, WriteIs
<1> HIDE DEF moved
<1>6. PICK f \in Field : /\ f.coef = moved["u1"].coef /\ f.bdy = t
                         /\ UpdateBoundary(moved, "u1", t) = [moved EXCEPT !["u1"] = f]
  BY <1>1, <1>2, <1>5, BoundaryIs
<1>7. data' = [moved EXCEPT !["u1"] = f] /\ f.coef = lc.coef
  BY <1>1, <1>2, <1>4, <1>5, <1>6
<1> QED
  BY <1>1, <1>2, <1>5, <1>7 DEF lc

(* euler ends with u1 = u0 + dt L u0. *)
LEMMA EulerData ==
  ASSUME TypeOK, Bound, HasField, EulerStep
  PROVE  /\ data'["u0"] = data["u0"]
         /\ data'["u1"].coef = AssignLC(data["u0"], 1, 1, ApplyL(data["u0"])).coef
<1> DEFINE t == ctrl.time + Dt
           dup == DeepCopy(data, "u1", "u0")
           copied == Write(dup, "srhs", ZeroField)
           rhs == SubmitRhs(copied)
           lc == AssignLC(rhs["u0"], 1, 1, rhs["srhs"])
           moved == Write(rhs, "u1", lc)
<1>1. /\ "u0" \in Slots /\ "u1" \in Slots /\ "srhs" \in Slots /\ "u0" # "u1"
      /\ "u0" # "srhs" /\ "u1" # "srhs"
      /\ buf["u0"] = "u0" /\ buf["srhs"] = "srhs"
  BY DEF Slots, Bound, Identity
<1>2. /\ data \in [Slots -> Field] /\ t \in Nat /\ 1 \in Nat \ {0} /\ 1 \in Nat
      /\ pc # "setup" /\ ZeroField \in Field
  BY ConfigType, FieldOps DEF TypeOK, ControllerType, EulerStep
<1>3. data' = UpdateBoundary(moved, "u1", t)
  BY <1>1 DEF EulerStep
<1> HIDE DEF t, moved
<1>4. dup \in [Slots -> Field] /\ dup["u1"] = data["u0"] /\ dup["u0"] = data["u0"]
  <2>1. dup = [data EXCEPT !["u1"] = data["u0"]]
    BY <1>1, <1>2, CopyIs
  <2> QED
    BY <1>1, <1>2, <2>1
<1> HIDE DEF dup
<1>5. copied \in [Slots -> Field] /\ copied["u1"] = data["u0"] /\ copied["u0"] = data["u0"]
  <2>1. copied = [dup EXCEPT !["srhs"] = ZeroField]
    BY <1>1, <1>2, <1>4, WriteIs
  <2> QED
    BY <1>1, <1>2, <1>4, <2>1
<1> HIDE DEF copied
<1>6. rhs \in [Slots -> Field] /\ rhs["srhs"] = ApplyL(data["u0"]) /\ rhs["u0"] = data["u0"]
  BY <1>1, <1>2, <1>5, SubmitType, SubmitAt, SubmitWrites
<1>7. lc \in Field /\ lc = AssignLC(data["u0"], 1, 1, ApplyL(data["u0"]))
  <2>1. rhs["u0"] \in Field /\ rhs["srhs"] \in Field
    BY <1>1, <1>6
  <2>2. lc \in Field
    BY <1>2, <2>1, LcType
  <2> QED
    BY <1>6, <2>2, Zenon
<1> HIDE DEF lc, rhs
<1>8. moved = [rhs EXCEPT !["u1"] = lc] /\ moved \in [Slots -> Field]
  <2>1. "u1" \in Slots /\ rhs \in [Slots -> Field] /\ lc \in Field
    BY <1>1, <1>6, <1>7
  <2>2. /\ Write(rhs, "u1", lc) = [rhs EXCEPT !["u1"] = lc]
        /\ Write(rhs, "u1", lc) \in [Slots -> Field]
    BY <2>1, WriteIs
  <2> QED
    BY <2>2 DEF moved
<1>9. PICK f \in Field : /\ f.coef = moved["u1"].coef /\ f.bdy = t
                         /\ UpdateBoundary(moved, "u1", t) = [moved EXCEPT !["u1"] = f]
  BY <1>1, <1>2, <1>8, BoundaryIs
<1>10. data' = [moved EXCEPT !["u1"] = f] /\ f.coef = lc.coef
  BY <1>1, <1>3, <1>6, <1>8, <1>9
<1> QED
  BY <1>1, <1>6, <1>7, <1>8, <1>10

(* The end of a trip leaves u1 in both slots. *)
LEMMA AcceptData ==
  ASSUME TypeOK, Bound, HasField, AcceptStep
  PROVE  data'["u0"] = data["u1"] /\ data'["u1"] = data["u1"]
<1>1. "u0" \in Slots /\ "u1" \in Slots /\ "u0" # "u1" /\ data \in [Slots -> Field]
  BY DEF Slots, TypeOK
<1>2. data' = DeepCopy(data, "u0", "u1")
  BY DEF AcceptStep, CopyBack
<1>3. data' = [data EXCEPT !["u0"] = data["u1"]]
  BY <1>1, <1>2, CopyIs
<1> QED
  BY <1>1, <1>3

-----------------------------------------------------------------------------
(* What the slots hold inside a step, by where the step is: u0 the 24-fold *)
(* of some q, the accumulators the combinations of q that the next stage   *)
(* expects; at its end u1 is one step of the method from u0.               *)
InStage(q) ==
  /\ Holds(data["u0"], q, Whole)
  /\ stage = 1 => Holds(data["u1"], q, Whole)
  /\ Holds(data["srhs"], q, RhsWeights[stage])
  /\ Holds(data["rk"], q, SumWeights[stage])
StepWeights ==
  IF lua.integrator = "rk4" THEN <<24, 24, 12, 4, 1>> ELSE <<24, 24, 0, 0, 0>>
Stored ==
  /\ lua.integrator = "empty" => data["u1"] = data["u0"]
  /\ lua.integrator # "empty" => Scaled(ctrl.step, data["u0"].coef)
  /\ lua.integrator # "empty" /\ pc = "accept" =>
       data["u1"].coef = TimesOneStep(data["u0"].coef, StepWeights, 24)
  /\ pc = "stage" => \E q : InStage(q)
  /\ pc = "update" =>
       \E q : Holds(data["u0"], q, Whole) /\ Holds(data["rk"], q, SumWeights[5])
Marching ==
  /\ ctrl.maxStep = EffectiveMaxStep(lua) /\ ctrl.maxTime = lua.maxTime
  /\ ctrl.step <= StepCap
  /\ HasField /\ pc # "setup" => Stored

(* Inside the limits there is a step left that the polynomials can carry.  *)
LEMMA StepsLeft ==
  ASSUME TypeOK, Limited, Marching, InBounds(ctrl)
  PROVE  ctrl.step + 1 <= StepCap
<1>1. /\ lua \in Configs /\ ctrl.step \in Nat /\ StepCap \in Nat
      /\ ctrl.time = ctrl.step * Dt /\ Dt \in Nat
  BY ConfigType, LinearFieldAssumption DEF TypeOK, ControllerType, Limited
<1>2. CASE EffectiveMaxStep(lua) # Absent /\ EffectiveMaxStep(lua) <= StepCap
  <2>1. ctrl.step < ctrl.maxStep /\ ctrl.maxStep <= StepCap /\ ctrl.maxStep \in Int
    BY <1>2 DEF Marching, InBounds, Within, TypeOK, ControllerType, Absent
  <2> QED
    BY <1>1, <2>1
<1>3. CASE lua.maxTime # Absent /\ lua.maxTime <= StepCap * Dt
  <2>1. ctrl.step * Dt < ctrl.maxTime /\ ctrl.maxTime <= StepCap * Dt /\ ctrl.maxTime \in Int
    BY <1>1, <1>3 DEF Marching, InBounds, Within, TypeOK, ControllerType, Absent
  <2>2. ASSUME StepCap <= ctrl.step PROVE FALSE
    <3> DEFINE d == Dt
               n == ctrl.step
    <3>1. d \in Nat /\ n \in Int /\ StepCap \in Int /\ StepCap <= n
      BY <1>1, <2>2
    <3> HIDE DEF d, n
    <3>2. d * StepCap <= d * n
      BY <3>1, TimesMonotone
    <3>3. d * StepCap = StepCap * d /\ d * n = n * d /\ n * d \in Int /\ StepCap * d \in Int
      BY <3>1
    <3>4. n * d < ctrl.maxTime /\ ctrl.maxTime <= StepCap * d
      BY <2>1 DEF d, n
    <3> QED
      BY <2>1, <3>2, <3>3, <3>4
  <2> QED
    BY <1>1, <2>2
<1> QED
  BY <1>1, <1>2, <1>3, StepsAssumption DEF Dt

(* The initial field has the whole scale. *)
LEMMA InitialScaled ==
  ASSUME NEW t \in Nat
  PROVE  Scaled(0, InitialField(t).coef)
<1> DEFINE r == [k \in 0 .. Degree |-> IF k = 0 THEN 1 ELSE 0]
<1>1. Scale = Scales[0] /\ Scales[0] \in Nat
  <2>1. 0 \in 0 .. StepCap
    BY LinearFieldAssumption
  <2> QED
    BY <2>1, LinearFieldAssumption DEF Scale
<1>2. r \in Coefs
  BY DEF Coefs
<1>3. \A k \in 0 .. Degree : Scales[0] * r[k] = IF k = 0 THEN Scale ELSE 0
  BY <1>1
<1>4. InitialField(t).coef = [k \in 0 .. Degree |-> IF k = 0 THEN Scale ELSE 0]
  BY DEF InitialField
<1>5. InitialField(t).coef = [k \in 0 .. Degree |-> Scales[0] * r[k]]
  BY <1>3, <1>4
<1> QED
  BY <1>2, <1>5 DEF Scaled

(* Zeroed slots hold nothing of any polynomial. *)
LEMMA ZeroHolds ==
  ASSUME NEW q \in Coefs
  PROVE  Holds(ZeroField, q, Nothing)
<1>1. ZeroField \in Field /\ Nothing \in Weights
  BY FieldOps DEF Nothing, Weights
<1>2. ZeroField.coef \in Coefs /\ Comb(q, Nothing) \in Coefs
  BY <1>1, CombType DEF Field
<1>3. \A k \in 0 .. Degree : ZeroField.coef[k] = Comb(q, Nothing)[k]
  BY WholeIs DEF ZeroField
<1>4. ZeroField.coef = Comb(q, Nothing)
  BY <1>2, <1>3, SameCoefs
<1> QED
  BY <1>1, <1>4 DEF Holds

(* Adding the whole sum to u0 is one step of rk4, and dt L u0 one of euler. *)
LEMMA StepIsMade ==
  ASSUME NEW q, NEW u, Holds(u, q, Whole)
  PROVE  /\ \A acc : Holds(acc, q, SumWeights[5]) =>
              AssignLC(u, 1, 1, acc).coef = TimesOneStep(u.coef, <<24, 24, 12, 4, 1>>, 24)
         /\ AssignLC(u, 1, 1, ApplyL(u)).coef
              = TimesOneStep(u.coef, <<24, 24, 0, 0, 0>>, 24)
<1>1. 1 \in Nat /\ 1 \in Nat \ {0}
  OBVIOUS
<1>2. ASSUME NEW acc, Holds(acc, q, SumWeights[5])
      PROVE  AssignLC(u, 1, 1, acc).coef = TimesOneStep(u.coef, <<24, 24, 12, 4, 1>>, 24)
  <2> DEFINE c == <<24, 24, 12, 4, 1>>
             b == <<0, 24, 12, 4, 1>>
  <2>1. c \in Weights /\ \A j \in 1 .. 5 : 1 * b[j] = 1 * (c[j] - Whole[j])
    BY DEF Weights, Whole
  <2>2. Holds(acc, q, b)
    BY <1>2 DEF SumWeights
  <2> HIDE DEF c, b
  <2>3. Holds(AssignLC(u, 1, 1, acc), q, c)
    BY <1>1, <2>1, <2>2, LcComb
  <2>4. TimesOneStep(u.coef, c, 24) = Comb(q, c)
    BY <2>1, StepOfWhole
  <2> QED
    BY <2>3, <2>4 DEF Holds, c
<1>3. AssignLC(u, 1, 1, ApplyL(u)).coef = TimesOneStep(u.coef, <<24, 24, 0, 0, 0>>, 24)
  <2> DEFINE c == <<24, 24, 0, 0, 0>>
             b == <<0, 24, 0, 0, 0>>
  <2>1. c \in Weights /\ \A j \in 1 .. 5 : 1 * b[j] = 1 * (c[j] - Whole[j])
    BY DEF Weights, Whole
  <2>2. Holds(ApplyL(u), q, b)
    <3>1. /\ b \in Weights /\ Whole[5] = 0 /\ b[1] = 0 /\ b[2] = Whole[1] /\ b[3] = Whole[2]
          /\ b[4] = Whole[3] /\ b[5] = Whole[4]
      BY DEF Weights, Whole
    <3> HIDE DEF b
    <3> QED
      BY <3>1, ApplyComb
  <2> HIDE DEF c, b
  <2>3. Holds(AssignLC(u, 1, 1, ApplyL(u)), q, c)
    BY <1>1, <2>1, <2>2, LcComb
  <2>4. TimesOneStep(u.coef, c, 24) = Comb(q, c)
    BY <2>1, StepOfWhole
  <2> QED
    BY <2>3, <2>4 DEF Holds, c
<1> QED
  BY <1>2, <1>3

(* Every step of the run is a step of the method, exactly.                 *)
LEMMA MarchingInvariant == Spec => []Marching
<1>1. Init => Marching
  <2> SUFFICES ASSUME Init PROVE Marching
    OBVIOUS
  <2>1. ctrl = FromLua(lua) /\ pc = "setup" /\ StepCap \in Nat
    BY LinearFieldAssumption DEF Init
  <2> QED
    BY <2>1 DEF Marching, FromLua
<1>2. TypeOK /\ Bound /\ Fresh /\ Limited /\ Marching /\ [Next]_vars => Marching'
  <2> SUFFICES ASSUME TypeOK, Bound, Fresh, Limited, Marching, [Next]_vars
               PROVE  Marching'
    OBVIOUS
  <2>c. /\ lua \in Configs /\ ctrl \in ControllerType /\ data \in [Slots -> Field]
        /\ ctrl.step \in Nat /\ ctrl.time \in Nat /\ Dt \in Nat
    BY ConfigType DEF TypeOK, ControllerType
  <2>s. data["u0"] \in Field /\ data["u1"] \in Field /\ data["u0"].coef \in Coefs
    BY <2>c DEF Slots, Field
  <2>w. StepWeights \in Weights
    BY DEF StepWeights, Weights
  <2>k. ASSUME UNCHANGED <<lua, ctrl>>, HasField /\ pc' # "setup" => Stored'
        PROVE  Marching'
    BY <2>k DEF Marching, HasField
  <2>1. CASE Setup
    <3>1. UNCHANGED <<lua, ctrl>> /\ pc' = "loop" /\ ctrl.step = 0
      BY <2>1 DEF Setup, Limited
    <3>2. ASSUME HasField PROVE Stored'
      <4>1. data'["u0"] = InitialField(ctrl.time) /\ data'["u1"] = InitialField(ctrl.time)
        BY <2>1, <3>2, SetupData
      <4>2. Scaled(0, data'["u0"].coef)
        BY <2>c, <4>1, InitialScaled
      <4> QED
        BY <3>1, <4>1, <4>2 DEF Stored
    <3> QED
      BY <2>k, <3>1, <3>2
  <2>2. CASE StartStep \/ RejectStep \/ Finish
    <3>1. UNCHANGED <<lua, ctrl, data>> /\ pc = "loop" /\ pc' \in {"integrate", "done"}
      BY <2>2 DEF StartStep, RejectStep, Finish, integratorVars
    <3>2. ASSUME HasField PROVE Stored'
      BY <3>1, <3>2 DEF Marching, Stored
    <3> QED
      BY <2>k, <3>1, <3>2
  <2>3. CASE Rk4Begin /\ UNCHANGED <<valid, sched, frames, result>>
    <3>1. /\ UNCHANGED <<lua, ctrl>> /\ pc = "integrate" /\ pc' = "stage" /\ stage' = 1
          /\ lua.integrator = "rk4"
      BY <2>3 DEF Rk4Begin
    <3>2. ASSUME HasField PROVE Stored'
      <4>1. /\ data'["u0"] = data["u0"] /\ data'["u1"] = data["u0"]
            /\ data'["rk"] = ZeroField /\ data'["srhs"] = ZeroField
        BY <2>3, <3>2, BeginData
      <4>2. Scaled(ctrl.step, data["u0"].coef) /\ ctrl.step + 1 <= StepCap
        BY <3>1, <3>2, StepsLeft DEF Marching, Stored, Limited, InStep
      <4>3. PICK q \in Coefs : Holds(data["u0"], q, Whole)
        BY <2>c, <2>s, <4>2, HasWhole
      <4>4. Holds(ZeroField, q, RhsWeights[1]) /\ Holds(ZeroField, q, SumWeights[1])
        BY ZeroHolds DEF RhsWeights, SumWeights
      <4>5. InStage(q)'
        BY <3>1, <4>1, <4>3, <4>4 DEF InStage
      <4> QED
        BY <3>1, <4>1, <4>2, <4>5 DEF Stored
    <3> QED
      BY <2>k, <3>1, <3>2
  <2>4. CASE Rk4Stage /\ UNCHANGED <<valid, sched, frames, result>>
    <3>1. /\ UNCHANGED <<lua, ctrl>> /\ pc = "stage" /\ stage \in 1 .. 4
          /\ stage' = NextStage(stage)
          /\ pc' = IF stage = 4 THEN "update" ELSE "stage"
          /\ lua.integrator = "rk4"
      BY <2>4 DEF Rk4Stage, Fresh, TypeOK
    <3>2. ASSUME HasField PROVE Stored'
      <4>1. PICK q : InStage(q)
        BY <3>1, <3>2 DEF Marching, Stored
      <4>2. data'["u0"] = data["u0"]
        BY <2>4, <3>2, StageData
      <4>3. PICK v \in Field :
              /\ v.coef = IF stage = 1 THEN data["u1"].coef
                          ELSE AssignLC(data["u0"], Rki[stage], 2, data["srhs"]).coef
              /\ data'["srhs"] = ApplyL(v)
              /\ data'["rk"] = Accumulate(data["rk"], Rkf[stage], 6, ApplyL(v))
        BY <2>4, <3>2, StageData
      <4>4. /\ Holds(ApplyL(v), q, RhsWeights[stage + 1])
            /\ Holds(Accumulate(data["rk"], Rkf[stage], 6, ApplyL(v)), q, SumWeights[stage + 1])
        BY <3>1, <4>1, <4>3, StageCombines DEF InStage
      <4>5. Holds(data'["u0"], q, Whole)
        BY <4>1, <4>2 DEF InStage
      <4>6. Scaled(ctrl.step, data["u0"].coef)
        BY <3>1, <3>2 DEF Marching, Stored
      <4>7. CASE stage = 4
        <5>1. Holds(data'["rk"], q, SumWeights[5])
          BY <4>3, <4>4, <4>7
        <5> QED
          BY <3>1, <4>2, <4>5, <4>6, <4>7, <5>1 DEF Stored
      <4>8. CASE stage # 4
        <5>1. stage' = stage + 1 /\ stage' # 1 /\ pc' = "stage"
          BY <3>1, <4>8 DEF NextStage
        <5>2. InStage(q)'
          BY <4>3, <4>4, <4>5, <5>1 DEF InStage
        <5> QED
          BY <3>1, <4>2, <4>6, <5>1, <5>2 DEF Stored
      <4> QED
        BY <4>7, <4>8
    <3> QED
      BY <2>k, <3>1, <3>2
  <2>5. CASE Rk4Update /\ UNCHANGED <<valid, sched, frames, result>>
    <3>1. UNCHANGED <<lua, ctrl>> /\ pc = "update" /\ pc' = "accept" /\ lua.integrator = "rk4"
      BY <2>5 DEF Rk4Update, Fresh
    <3>2. ASSUME HasField PROVE Stored'
      <4>1. PICK q : Holds(data["u0"], q, Whole) /\ Holds(data["rk"], q, SumWeights[5])
        BY <3>1, <3>2 DEF Marching, Stored
      <4>2. /\ data'["u0"] = data["u0"]
            /\ data'["u1"].coef = AssignLC(data["u0"], 1, 1, data["rk"]).coef
        BY <2>5, <3>2, UpdateData
      <4>3. data'["u1"].coef = TimesOneStep(data["u0"].coef, <<24, 24, 12, 4, 1>>, 24)
        BY <4>1, <4>2, StepIsMade
      <4>4. StepWeights' = <<24, 24, 12, 4, 1>>
        BY <3>1 DEF StepWeights
      <4>5. Scaled(ctrl.step, data["u0"].coef)
        BY <3>1, <3>2 DEF Marching, Stored
      <4> QED
        BY <3>1, <4>2, <4>3, <4>4, <4>5 DEF Stored
    <3> QED
      BY <2>k, <3>1, <3>2
  <2>6. CASE EulerStep /\ UNCHANGED <<valid, sched, frames, result>>
    <3>1. /\ UNCHANGED <<lua, ctrl>> /\ pc = "integrate" /\ pc' = "accept"
          /\ lua.integrator = "euler"
      BY <2>6 DEF EulerStep
    <3>2. ASSUME HasField PROVE Stored'
      <4>1. Scaled(ctrl.step, data["u0"].coef) /\ ctrl.step + 1 <= StepCap
        BY <3>1, <3>2, StepsLeft DEF Marching, Stored, Limited, InStep
      <4>2. PICK q \in Coefs : Holds(data["u0"], q, Whole)
        BY <2>c, <2>s, <4>1, HasWhole
      <4>3. /\ data'["u0"] = data["u0"]
            /\ data'["u1"].coef = AssignLC(data["u0"], 1, 1, ApplyL(data["u0"])).coef
        BY <2>6, <3>2, EulerData
      <4>4. data'["u1"].coef = TimesOneStep(data["u0"].coef, <<24, 24, 0, 0, 0>>, 24)
        BY <4>2, <4>3, StepIsMade
      <4>5. StepWeights' = <<24, 24, 0, 0, 0>>
        BY <3>1 DEF StepWeights
      <4> QED
        BY <3>1, <4>1, <4>3, <4>4, <4>5 DEF Stored
    <3> QED
      BY <2>k, <3>1, <3>2
  <2>7. CASE EmptyStep /\ UNCHANGED <<valid, sched, frames, result>>
    <3>1. /\ UNCHANGED <<lua, ctrl, data>> /\ pc = "integrate" /\ pc' = "accept"
          /\ lua.integrator = "empty"
      BY <2>7 DEF EmptyStep, integratorVars
    <3>2. ASSUME HasField PROVE Stored'
      BY <3>1, <3>2 DEF Marching, Stored
    <3> QED
      BY <2>k, <3>1, <3>2
  <2>8. CASE AcceptStep
    <3>1. /\ lua' = lua /\ pc = "accept" /\ pc' = "loop" /\ ctrl' = Advance(ctrl, Dt)
      BY <2>8 DEF AcceptStep
    <3>2. /\ ctrl'.step = ctrl.step + 1
          /\ ctrl'.maxTime = ctrl.maxTime /\ ctrl'.maxStep = ctrl.maxStep
      BY <2>c, <3>1, AdvanceType
    <3>3. ctrl.step + 1 <= StepCap
      BY <3>1, StepsLeft DEF Limited, InStep
    <3>4. ASSUME HasField PROVE Stored'
      <4>1. data'["u0"] = data["u1"] /\ data'["u1"] = data["u1"]
        BY <2>8, <3>4, AcceptData
      <4>2. ASSUME lua.integrator # "empty" PROVE Scaled(ctrl.step + 1, data["u1"].coef)
        <5>1. /\ data["u1"].coef = TimesOneStep(data["u0"].coef, StepWeights, 24)
              /\ Scaled(ctrl.step, data["u0"].coef)
          BY <3>1, <3>4, <4>2 DEF Marching, Stored
        <5>2. Scaled(ctrl.step + 1, TimesOneStep(data["u0"].coef, StepWeights, 24))
          BY <2>c, <2>s, <2>w, <3>3, <5>1, StepStaysScaled
        <5> QED
          BY <5>1, <5>2
      <4> QED
        BY <3>1, <3>2, <4>1, <4>2 DEF Stored
    <3> QED
      BY <3>1, <3>2, <3>3, <3>4 DEF Marching, HasField
  <2>9. CASE UNCHANGED vars
    <3>1. UNCHANGED <<lua, ctrl, data, pc, stage>>
      BY <2>9 DEF vars
    <3> QED
      BY <3>1 DEF Marching, Stored, InStage, StepWeights, HasField
  <2> QED
    BY <2>1, <2>2, <2>3, <2>4, <2>5, <2>6, <2>7, <2>8, <2>9
       DEF Next, IntegrateStep, Integrate, Returned
<1> QED
  BY <1>1, <1>2, TypeCorrect, BoundInvariant, FreshInvariant, LimitedInvariant, PTL
     DEF Spec

-----------------------------------------------------------------------------
(* The refinement: slots, stages, graph and schedule forgotten.            *)

(* One step of the abstract march from u, spelled out: the method's        *)
(* polynomial on the coefficients, the boundary data of time t.            *)
LEMMA PropagateIs ==
  ASSUME lua \in Configs, NEW u \in Field, NEW t \in Nat
  PROVE  /\ March!Propagate(u, t).coef =
              IF HasField /\ lua.integrator # "empty"
              THEN TimesOneStep(u.coef, StepWeights, 24) ELSE u.coef
         /\ March!Propagate(u, t).bdy =
              IF HasField /\ lua.integrator # "empty" THEN t ELSE u.bdy
         /\ March!Propagate(u, t) =
              [coef |-> March!Propagate(u, t).coef, bdy |-> March!Propagate(u, t).bdy]
<1> DEFINE m == IF HasField /\ lua.integrator # "empty" THEN lua.integrator ELSE "none"
           c == March!MethodCoefs(m)
<1>1. March!Propagate(u, t) =
        [coef |-> March!TimesOneStep(u.coef, c, 24),
         bdy |-> IF m = "none" THEN u.bdy ELSE t]
  BY DEF March!Propagate
<1>2. March!TimesOneStep(u.coef, c, 24) = TimesOneStep(u.coef, c, 24)
  BY DEF March!TimesOneStep, TimesOneStep, March!Degree, Degree
<1>3. CASE HasField /\ lua.integrator # "empty"
  <2>1. m # "none" /\ m = lua.integrator /\ m \in {"rk4", "euler"}
    BY <1>3, ConfigType
  <2>2. c = StepWeights
    BY <2>1 DEF March!MethodCoefs, March!Rk4Coefs, March!EulerCoefs, StepWeights
  <2> QED
    BY <1>1, <1>2, <1>3, <2>1, <2>2
<1>4. CASE ~(HasField /\ lua.integrator # "empty")
  <2>1. m = "none"
    BY <1>4
  <2>2. c = Whole
    BY <2>1 DEF March!MethodCoefs, March!NoneCoefs, Whole
  <2>3. TimesOneStep(u.coef, Whole, 24) = u.coef
    BY WholeStep DEF Field
  <2> QED
    BY <1>1, <1>2, <1>4, <2>1, <2>2, <2>3
<1> QED
  BY <1>3, <1>4

(* What the abstract solution is. *)
Solution == IF pc = "setup" /\ HasField THEN InitialField(0) ELSE Val("u0")

(* A run starts as a march. *)
LEMMA MarchStarts == Init => March!MarchInit
<1> SUFFICES ASSUME Init PROVE March!MarchInit
  OBVIOUS
<1>1. lua \in Configs /\ ctrl = FromLua(lua) /\ frames = <<>> /\ result = Running
  BY DEF Init
<1>2. ctrl.step = 0 /\ ctrl.time = 0
  BY <1>1 DEF FromLua
<1>3. Solution \in {InitialField(0), ZeroField}
  BY DEF Init, Solution, Val, Slots
<1>4. March!InitialField(0) = InitialField(0) /\ March!ZeroField = ZeroField
  BY DEF March!InitialField, InitialField, March!ZeroField, ZeroField, March!Degree, Degree,
         March!Scale, Scale, March!NoTime, NoTime
<1>5. March!Running = Running
  BY DEF March!Running, Running, March!NoTime, NoTime
<1>6. (IF HasField /\ lua.integrator # "empty" THEN lua.integrator ELSE "none") \in March!Methods
  BY <1>1, ConfigType DEF March!Methods
<1> QED
  BY <1>1, <1>2, <1>3, <1>4, <1>5, <1>6 DEF March!MarchInit, Solution

(* Setup opens the march: it publishes the initial field or nothing.       *)
LEMMA SetupOpens ==
  ASSUME TypeOK, Bound, Limited, Cadence, Labelled, Setup
  PROVE  Solution' = Solution /\ (frames' = frames \/ March!Open)
<1>1. /\ ctrl.step = 0 /\ ctrl.time = 0 /\ pc = "setup" /\ pc' = "loop" /\ frames = <<>>
      /\ UNCHANGED <<lua, ctrl, buf, result>>
  <2>1. ctrl.step = 0 /\ ctrl.time = ctrl.step * Dt /\ Dt \in Nat
    BY ConfigType DEF Setup, Limited, TypeOK
  <2> QED
    BY <2>1 DEF Setup, Cadence
<1>2. buf["u0"] = "u0"
  BY DEF Bound, Identity, Slots
<1>3. Solution' = Solution
  <2>1. CASE HasField
    <3>1. data'["u0"] = InitialField(0)
      BY <1>1, <2>1, SetupData
    <3> QED
      BY <1>1, <1>2, <2>1, <3>1 DEF Solution, Val
  <2>2. CASE ~HasField
    <3>1. data' = data /\ HasField' = HasField
      BY <1>1, <2>2, NoFieldKeeps DEF HasField
    <3> QED
      BY <1>1, <2>2, <3>1 DEF Solution, Val
  <2> QED
    BY <2>1, <2>2
<1>4. ASSUME HasField, Fires(sched, lua, ctrl, 0)
      PROVE  March!Open
  <2>1. frames' = Append(frames, Frame(sched.ndumps, ctrl.step, ctrl.time, data'["u0"]))
    BY <1>2, <1>4 DEF Setup, Publish
  <2>2. sched.ndumps = 0
    BY <1>1 DEF Labelled
  <2>3. data'["u0"] = InitialField(0) /\ Solution = InitialField(0)
    BY <1>1, <1>4, SetupData DEF Solution
  <2>4. frames' = <<March!Frame(0, 0, 0, Solution)>>
    <3>1. Append(<<>>, Frame(0, 0, 0, InitialField(0))) = <<Frame(0, 0, 0, InitialField(0))>>
      OBVIOUS
    <3> QED
      BY <1>1, <2>1, <2>2, <2>3, <3>1 DEF Frame, March!Frame
  <2>5. result = March!Running
    BY <1>1 DEF Limited, March!Running, Running, March!NoTime, NoTime
  <2>6. HasField' = HasField
    BY <1>1 DEF HasField
  <2> QED
    BY <1>1, <1>3, <2>4, <2>5, <2>6 DEF March!Open, Solution
<1>5. ASSUME ~(HasField /\ Fires(sched, lua, ctrl, 0)) PROVE frames' = frames
  BY <1>5 DEF Setup, Publish
<1> QED
  BY <1>3, <1>4, <1>5

(* The integrators leave u0 alone. *)
LEMMA IntegrateKeeps ==
  ASSUME TypeOK, Bound, Integrate
  PROVE  /\ data'["u0"] = data["u0"] /\ UNCHANGED <<lua, ctrl, buf>>
         /\ pc # "setup" /\ pc' # "setup"
<1>1. UNCHANGED <<lua, ctrl, buf>> /\ pc # "setup" /\ pc' # "setup"
  BY DEF Integrate, Rk4Begin, Rk4Stage, Rk4Update, EulerStep, EmptyStep, integratorVars
<1>2. ASSUME HasField PROVE data'["u0"] = data["u0"]
  <2>1. CASE Rk4Begin
    BY <1>2, <2>1, BeginData
  <2>2. CASE Rk4Stage
    BY <1>2, <2>2, StageData
  <2>3. CASE Rk4Update
    BY <1>2, <2>3, UpdateData
  <2>4. CASE EulerStep
    BY <1>2, <2>4, EulerData
  <2>5. CASE EmptyStep
    BY <2>5 DEF EmptyStep, integratorVars
  <2> QED
    BY <2>1, <2>2, <2>3, <2>4, <2>5, Zenon DEF Integrate
<1>3. ASSUME ~HasField PROVE data'["u0"] = data["u0"]
  <2>1. data' = data
    BY <1>3, NoFieldKeeps, Zenon
  <2> QED
    BY <2>1
<1> QED
  BY <1>1, <1>2, <1>3, Zenon

(* Accepting a step marches: the new solution is the method's image of the *)
(* old one, and what is published is that solution.                        *)
LEMMA AcceptMarches ==
  ASSUME TypeOK, Bound, Fresh, Limited, Marching, Labelled, AcceptStep
  PROVE  March!March
<1>1. /\ pc = "accept" /\ pc' = "loop" /\ UNCHANGED <<lua, result>> /\ buf' = buf
      /\ ctrl' = Advance(ctrl, Dt)
  BY DEF AcceptStep, CopyBack
<1>2. /\ lua \in Configs /\ ctrl \in ControllerType /\ data \in [Slots -> Field]
      /\ Dt \in Nat /\ ctrl.time \in Nat /\ ctrl.step \in Nat
  BY ConfigType DEF TypeOK, ControllerType
<1>3. /\ ctrl'.step = ctrl.step + 1 /\ ctrl'.time = ctrl.time + Dt
      /\ ctrl'.time \in Nat /\ ctrl'.time >= ctrl.time
  <2>1. ctrl'.step = ctrl.step + 1 /\ ctrl'.time = ctrl.time + Dt
    BY <1>1, <1>2, AdvanceType
  <2>2. ctrl.time + Dt \in Nat /\ ctrl.time + Dt >= ctrl.time
    BY <1>2
  <2> QED
    BY <2>1, <2>2, Zenon
<1>4. /\ buf["u0"] = "u0" /\ buf["u1"] = "u1" /\ data["u0"] \in Field /\ data["u1"] \in Field
  BY <1>2 DEF Bound, Identity, Slots
<1>5. Solution = data["u0"] /\ Solution' = data'["u0"]
  BY <1>1, <1>4 DEF Solution, Val
<1>6. HasField' = HasField
  BY <1>1 DEF HasField
<1>7. result = March!Running
  BY <1>1 DEF Limited, March!Running, Running, March!NoTime, NoTime
<1>8. data'["u0"] = March!Propagate(data["u0"], ctrl'.time)
  <2> DEFINE new == March!Propagate(data["u0"], ctrl'.time)
  <2>1. /\ new.coef = IF HasField /\ lua.integrator # "empty"
                      THEN TimesOneStep(data["u0"].coef, StepWeights, 24)
                      ELSE data["u0"].coef
        /\ new.bdy = IF HasField /\ lua.integrator # "empty" THEN ctrl'.time ELSE data["u0"].bdy
        /\ new = [coef |-> new.coef, bdy |-> new.bdy]
    BY <1>2, <1>3, <1>4, PropagateIs
  <2> HIDE DEF new
  <2>2. \A u \in Field : u.coef = new.coef /\ u.bdy = new.bdy => u = new
    BY <2>1 DEF Field
  <2>3. CASE HasField /\ lua.integrator # "empty"
    <3>1. data'["u0"] = data["u1"]
      BY <2>3, AcceptData
    <3>2. data["u1"].coef = TimesOneStep(data["u0"].coef, StepWeights, 24)
      BY <1>1, <2>3 DEF Marching, Stored
    <3>3. data["u1"].bdy = ctrl'.time
      BY <1>1, <1>3, <2>3 DEF Fresh, Evaluates
    <3>4. data["u1"] = new
      BY <1>4, <2>1, <2>2, <2>3, <3>2, <3>3
    <3> QED
      BY <3>1, <3>4 DEF new
  <2>4. CASE HasField /\ lua.integrator = "empty"
    <3>1. data'["u0"] = data["u1"] /\ data["u1"] = data["u0"]
      BY <1>1, <2>4, AcceptData DEF Marching, Stored
    <3>2. data["u0"] = new
      BY <1>4, <2>1, <2>2, <2>4
    <3> QED
      BY <3>1, <3>2 DEF new
  <2>5. CASE ~HasField
    <3>1. data' = data
      BY <2>5, NoFieldKeeps
    <3>2. data["u0"] = new
      BY <1>4, <2>1, <2>2, <2>5
    <3> QED
      BY <3>1, <3>2 DEF new
  <2> QED
    BY <2>3, <2>4, <2>5
<1>9. frames' \in {frames, Append(frames, March!Frame(Len(frames), ctrl'.step, ctrl'.time,
                                                      data'["u0"]))}
  <2>1. Publish(ctrl', Dt, data["u1"])
    BY <1>4 DEF AcceptStep, Val, WrittenSlot
  <2>2. CASE HasField /\ Fires(sched, lua, ctrl', Dt)
    <3>1. frames' = Append(frames, Frame(sched.ndumps, ctrl'.step, ctrl'.time, data["u1"]))
      BY <2>1, <2>2 DEF Publish
    <3>2. data'["u0"] = data["u1"]
      BY <2>2, AcceptData
    <3>3. sched.ndumps = Len(frames)
      BY DEF Labelled
    <3> QED
      BY <3>1, <3>2, <3>3 DEF Frame, March!Frame
  <2>3. CASE ~(HasField /\ Fires(sched, lua, ctrl', Dt))
    BY <2>1, <2>3 DEF Publish
  <2> QED
    BY <2>2, <2>3
<1> QED
  BY <1>1, <1>3, <1>5, <1>6, <1>7, <1>8, <1>9 DEF March!March, Solution

(* Every step of run() is a step of the march or none of it.               *)
LEMMA MarchStep ==
  TypeOK /\ Bound /\ Fresh /\ Limited /\ Cadence /\ Labelled /\ Marching /\ [Next]_vars
    => [March!Open \/ March!March \/ March!Return]_(March!marchVars)
<1> SUFFICES ASSUME TypeOK, Bound, Fresh, Limited, Cadence, Labelled, Marching, [Next]_vars
             PROVE  March!Open \/ March!March \/ March!Return \/ UNCHANGED March!marchVars
  OBVIOUS
<1>k. ASSUME UNCHANGED <<lua, ctrl, frames, result>>, Solution' = Solution
      PROVE  UNCHANGED March!marchVars
  BY <1>k DEF March!marchVars, Solution, HasField
<1>r. result = Running => result = March!Running
  BY DEF March!Running, Running, March!NoTime, NoTime
<1>1. CASE Setup
  <2>1. UNCHANGED <<lua, ctrl, result>>
    BY <1>1 DEF Setup
  <2> QED
    BY <1>1, <1>k, <2>1, SetupOpens
<1>2. CASE StartStep
  BY <1>2, <1>k DEF StartStep, integratorVars, Solution, HasField, Val
<1>3. CASE RejectStep \/ Finish
  <2>1. /\ UNCHANGED <<lua, ctrl, frames, data, buf>> /\ pc = "loop" /\ pc' = "done"
        /\ result' \in [time : {ctrl.time, March!NoTime}, err : {"null", "zero", "linf"}]
    BY <1>3 DEF RejectStep, Finish, Summary, integratorVars, March!NoTime, NoTime
  <2>2. result = March!Running
    BY <1>r, <2>1 DEF Limited
  <2>3. Solution' = Solution
    BY <2>1 DEF Solution, Val
  <2>4. HasField' = HasField
    BY <2>1 DEF HasField
  <2> QED
    BY <2>1, <2>2, <2>3, <2>4 DEF March!Return, Solution
<1>4. CASE Integrate /\ UNCHANGED <<valid, sched, frames, result>>
  <2>1. /\ data'["u0"] = data["u0"] /\ UNCHANGED <<lua, ctrl, buf>>
        /\ pc # "setup" /\ pc' # "setup" /\ buf["u0"] = "u0"
    BY <1>4, IntegrateKeeps DEF Bound, Identity, Slots
  <2>2. Solution' = Solution
    BY <2>1 DEF Solution, Val
  <2> QED
    BY <1>4, <1>k, <2>1, <2>2
<1>5. CASE AcceptStep
  BY <1>5, AcceptMarches
<1>6. CASE UNCHANGED vars
  BY <1>6, <1>k DEF vars, Solution, HasField, Val
<1> QED
  BY <1>1, <1>2, <1>3, <1>4, <1>5, <1>6 DEF Next, IntegrateStep, Returned

(* For every configuration the run is a time march: it repeats the exact   *)
(* one-step map of its integrator, each published frame is the iterate of  *)
(* its own step, and nothing changes after run() has returned.             *)
THEOREM RunIsTimeMarch == Spec => RunsTimeMarch
<1> QED
  BY MarchStarts, MarchStep, TypeCorrect, BoundInvariant, FreshInvariant, LimitedInvariant,
     CadenceInvariant, LabelledInvariant, MarchingInvariant, PTL
     DEF Spec, RunsTimeMarch, March!MarchSpec
=============================================================================
