------------------------------ MODULE RhsGraph ------------------------------
(***************************************************************************)
(* The right-hand-side graphs of heat and scalar_wave (build_rhs_graph,    *)
(* with add_graph_nodes of laplacian, gradient, derivative, block and csr) *)
(* and the graphs that a laplacian and a derivative build for themselves,  *)
(* with the host that submits them again and again.  A node is a kernel;   *)
(* Kokkos may run any nodes whose predecessors are done at the same time,  *)
(* and the fence after submit() waits for all of them.                     *)
(*                                                                         *)
(* A field is a fluid component "D" and one component per direction in     *)
(* which rays cut an object, "Rx", "Ry", "Rz".  What a buffer holds is the *)
(* sequence of contributions its values are the sum of, in order, since    *)
(* floating-point sums depend on it: apart for the rows a Dirichlet        *)
(* condition fixes and for the rows that are free.                         *)
(*                                                                         *)
(* heat's graph has no source nodes without a manufactured solution; that  *)
(* graph is never submitted, as update_boundary, which runs before it is   *)
(* built, evaluates the solution unconditionally.                          *)
(***************************************************************************)
EXTENDS Integers, Sequences, SequencesExt

CONSTANTS
  Configs,      \* the problems a run may be configured with
  MaxRounds     \* bound on the number of submissions

Components == {"D", "Rx", "Ry", "Rz"}
Dirs == 0 .. 2

ASSUME RhsGraphAssumption ==
  /\ Configs \subseteq [system : {"heat", "scalar wave", "laplacian", "derivative"},
                        active : SUBSET Dirs, comps : SUBSET Components,
                        dirichlet : SUBSET Components, neumann : BOOLEAN,
                        op : {"eq", "plus_eq"}, filled : BOOLEAN]
  /\ \A c \in Configs : /\ "D" \in c.comps /\ c.dirichlet \subseteq c.comps
                        /\ c.system = "heat" => c.neumann
                        /\ c.system = "scalar wave" => ~c.neumann
                        /\ c.system = "derivative" => \A d, e \in c.active : d = e
  /\ MaxRounds \in Nat

VARIABLES
  cfg,       \* the problem, fixed when the graph is built
  host,      \* what the integrator does: "inputs", "waiting", "reading"
  round,     \* submissions so far; the inputs of the n-th are called n
  running,   \* nodes whose kernel is running
  done,      \* nodes finished since the last submit
  mem        \* buffer -> contributions

vars == <<cfg, host, round, running, done, mem>>

(* neumann, op: the overload of the operator and the operation given to    *)
(* it; filled: a derivative's caller adds to a field that is not zero.     *)
IsHeat == cfg.system = "heat"
Alone == cfg.system \in {"laplacian", "derivative"}
HasLaplacian == cfg.system \in {"heat", "laplacian"}
Directions == IF cfg.system = "derivative" THEN cfg.active ELSE Dirs

(* The cut component a direction's rays produce. *)
Cut == [d \in Dirs |-> <<"Rx", "Ry", "Rz">>[d + 1]]

(* laplacian accumulates the three derivatives in du; gradient has a       *)
(* scratch field for each.                                                 *)
Scratch == [d \in Dirs |-> <<"dux", "duy", "duz">>[d + 1]]
Target(d) == IF HasLaplacian \/ Alone THEN "du" ELSE Scratch[d]
Buffers == ({"du"} \cup {Scratch[d] : d \in Dirs}) \X cfg.comps

(* A buffer before anything is added to it. *)
Empty == [free |-> <<>>, fixed |-> <<>>]

-----------------------------------------------------------------------------
(* Nodes <<kernel, direction, component>> and edges. *)

(* The chain of kernels of one derivative on one component: O, B and, with *)
(* Neumann data, N on the fluid; Bf and Br on a cut component.             *)
Chain(c) ==
  IF c # "D" THEN <<"Bf", "Br">>
  ELSE IF cfg.neumann THEN <<"O", "B", "N">> ELSE <<"O", "B">>

Along(chain, d, c) ==
  {<<<<chain[i], d, c>>, <<chain[i + 1], d, c>>>> : i \in 1 .. Len(chain) - 1}

First(d) == {<<Head(Chain(c)), d, c>> : c \in cfg.comps}
Leaves(d) == {<<Last(Chain(c)), d, c>> : c \in cfg.comps}

(* laplacian zeroes du once, gradient each of its scratch fields. *)
Zeros(d) == {<<"zero", d, c>> : c \in cfg.comps}

(* Fault: laplacian's derivatives fan out as gradient's do. *)
Parents_Fan(d) ==
  IF cfg.system = "derivative" THEN {} ELSE Zeros(IF HasLaplacian THEN 0 ELSE d)

(* What the first kernels of derivative d are chained to: laplacian passes *)
(* on what the previous derivative returned, because all three write du; a *)
(* derivative's own graph chains them to the root and zeroes nothing.      *)
Parents(d) ==
  CASE cfg.system = "derivative" -> {}
    [] HasLaplacian /\ d > 0     -> Leaves(d - 1)
    [] OTHER                     -> Zeros(d)

(* heat: scale, source and, where Dirichlet rows exist, fill. *)
HeatTail(c) == IF c \in cfg.dirichlet THEN <<"scale", "source", "fill">>
                                      ELSE <<"scale", "source">>

DerivativeEdges ==
  UNION {(Parents(d) \X First(d)) \cup UNION {Along(Chain(c), d, c) : c \in cfg.comps}
           : d \in Directions}

HeatEdges ==
  UNION {(Leaves(2) \X {<<"scale", 0, c>>}) \cup Along(HeatTail(c), 0, c) : c \in cfg.comps}

WaveEdges == (UNION {Leaves(d) : d \in Dirs}) \X {<<"dot", 0, c>> : c \in cfg.comps}

Edges == DerivativeEdges \cup IF IsHeat THEN HeatEdges ELSE IF Alone THEN {} ELSE WaveEdges
Nodes == {e[1] : e \in Edges} \cup {e[2] : e \in Edges}
Predecessors(n) == {e[1] : e \in {x \in Edges : x[2] = n}}

-----------------------------------------------------------------------------
(* Kernels *)

(* Fault: derivative's default operation instead of plus_eq. *)
Operation_Default == "eq"

(* The operation O is built with: laplacian passes plus_eq, gradient none. *)
Operation ==
  IF HasLaplacian THEN "plus_eq" ELSE IF cfg.system = "derivative" THEN cfg.op ELSE "eq"

(* A derivative along a direction of extent 1 has empty matrices: its      *)
(* nodes run over nothing.                                                 *)
Idle(n) == n[1] \in {"Bf", "Br", "O", "B", "N"} /\ n[2] \notin cfg.active

Writes(n) ==
  IF Idle(n) THEN {}
  ELSE {<<IF n[1] \in {"scale", "source", "fill", "dot"} THEN "du" ELSE Target(n[2]), n[3]>>}
Reads(n) == IF n[1] = "dot" THEN {<<Scratch[d], n[3]>> : d \in Dirs} ELSE {}

(* A contribution: the kernel, its direction, the submission whose inputs  *)
(* it read, and how often a coefficient multiplied it.                     *)
Term(kernel, d, factors) == [by |-> kernel, dir |-> d, input |-> round, factors |-> factors]
Times(s) == [i \in DOMAIN s |-> [s[i] EXCEPT !.factors = @ + 1]]

(* What kernel n leaves in the buffer x it writes.  The matrices have no   *)
(* rows for fixed points; the source is added on the whole fluid and on    *)
(* the cut points that are not Dirichlet.                                  *)
Effect(n, x) ==
  LET new  == Term(n[1], n[2], 0)
      add  == Append(x.free, new)
      from(d) == mem[<<Scratch[d], n[3]>>]
  IN
  CASE n[1] = "zero" -> Empty
    [] n[1] = "O" /\ Operation = "eq" -> [x EXCEPT !.free = <<new>>]
    [] n[1] \in {"Bf", "Br", "B", "N"} \/ (n[1] = "O" /\ Operation = "plus_eq") ->
         [x EXCEPT !.free = add]
    [] n[1] = "scale" -> [free |-> Times(x.free), fixed |-> Times(x.fixed)]
    [] n[1] = "source" ->
         [free |-> add,
          fixed |-> IF n[3] = "D" /\ n[3] \in cfg.dirichlet
                    THEN Append(x.fixed, new) ELSE x.fixed]
    [] n[1] = "fill" -> [x EXCEPT !.fixed = <<>>]
    [] n[1] = "dot" ->
         [free  |-> Times(from(0).free \o from(1).free \o from(2).free),
          fixed |-> Times(from(0).fixed \o from(1).fixed \o from(2).fixed)]

-----------------------------------------------------------------------------
Init ==
  /\ cfg \in Configs
  /\ host = "inputs" /\ round = 0
  /\ running = {} /\ done = {}
  /\ mem = [b \in Buffers |-> Empty]

(* What the caller of a derivative puts into du before the submission. *)
Filled ==
  IF cfg.filled THEN <<[by |-> "caller", dir |-> 0, input |-> 0, factors |-> 0]>> ELSE <<>>

(* The integrator forms the stage state u and its boundary data nu, and    *)
(* heat fills its source; then the graph is submitted.                     *)
Submit ==
  /\ host = "inputs" /\ round < MaxRounds
  /\ round' = round + 1
  /\ done' = {}
  /\ host' = "waiting"
  /\ mem' = IF cfg.system # "derivative" THEN mem
            ELSE [b \in DOMAIN mem |-> [free |-> Filled, fixed |-> Filled]]
  /\ UNCHANGED <<cfg, running>>

Start(n) ==
  /\ round > 0
  /\ n \notin running \cup done
  /\ Predecessors(n) \subseteq done
  /\ running' = running \cup {n}
  /\ UNCHANGED <<cfg, host, round, done, mem>>

Complete(n) ==
  /\ n \in running
  /\ mem' = [b \in DOMAIN mem |-> IF b \in Writes(n) THEN Effect(n, mem[b]) ELSE mem[b]]
  /\ running' = running \ {n}
  /\ done' = done \cup {n}
  /\ UNCHANGED <<cfg, host, round>>

(* Kokkos::fence in submit_rhs_graph and in submit_graph. *)
Drained == done = Nodes

Fence ==
  /\ host = "waiting" /\ Drained
  /\ host' = "reading"
  /\ UNCHANGED <<cfg, round, running, done, mem>>

(* The integrator accumulates du into its sum and goes to its next stage. *)
Consume ==
  /\ host = "reading"
  /\ host' = "inputs"
  /\ UNCHANGED <<cfg, round, running, done, mem>>

Rest == host = "inputs" /\ round = MaxRounds /\ UNCHANGED vars

Next ==
  \/ Submit \/ Fence \/ Consume \/ Rest
  \/ \E n \in Nodes : Start(n) \/ Complete(n)

Spec == Init /\ [][Next]_vars

-----------------------------------------------------------------------------
(* No data race: kernels that run at the same time never write what the    *)
(* other reads or writes, and the host forms inputs and reads the result   *)
(* only while no kernel of the graph is running.                           *)
NoRace ==
  /\ \A m, n \in running :
       m # n => Writes(m) \cap (Writes(n) \cup Reads(n)) = {}
  /\ host # "waiting" => running = {}

(* What heat::rhs and scalar_wave::rhs, and the operators alone, compute   *)
(* kernel by kernel: on every component the derivatives along the active   *)
(* directions in order, in the systems each multiplied once, and for heat  *)
(* the source; nothing on Dirichlet rows.  A derivative adds to what is    *)
(* there, but for O with eq on the fluid, along a direction with rows.     *)
DerivativeOf(c, d) ==
  [i \in DOMAIN Chain(c) |-> Term(Chain(c)[i], d, IF Alone THEN 0 ELSE 1)]
EveryDirection(c) ==
  LET part(d) == IF d \in cfg.active THEN DerivativeOf(c, d) ELSE <<>>
  IN  part(0) \o part(1) \o part(2)
Before(c) ==
  IF cfg.system # "derivative" \/ (c = "D" /\ cfg.op = "eq" /\ cfg.active # {})
  THEN <<>> ELSE Filled
After == IF IsHeat THEN <<Term("source", 0, 0)>> ELSE <<>>
Rhs(c) ==
  [free |-> Before(c) \o EveryDirection(c) \o After,
   fixed |-> IF cfg.system = "derivative" THEN Filled ELSE <<>>]

(* When the host reads the result of a submission it is, whatever order    *)
(* the kernels ran in, contribution by contribution the value of the       *)
(* kernel-by-kernel right-hand side on the inputs of that submission, with *)
(* nothing left of an earlier one.                                         *)
RhsAgrees ==
  host = "reading" => \A c \in cfg.comps : mem[<<"du", c>>] = Rhs(c)
=============================================================================
