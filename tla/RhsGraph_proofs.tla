-------------------------- MODULE RhsGraph_proofs --------------------------
(***************************************************************************)
(* For any problem: no two kernels of a graph that may run at the same     *)
(* time touch the same buffer, the host touches none while they run, and   *)
(* what it reads after the fence is the right-hand side, contribution by   *)
(* contribution.  The second half says what each buffer holds by which     *)
(* kernels are done (MemInv).                                              *)
(***************************************************************************)
EXTENDS RhsGraph, SequenceTheorems, TLAPS

(* Finished nodes are closed under predecessors, and outside the fence the *)
(* graph is drained.                                                       *)
GraphInv ==
  /\ cfg \in Configs /\ round \in Nat
  /\ running \subseteq Nodes /\ done \subseteq Nodes
  /\ running \cap done = {}
  /\ \A n \in running \cup done : Predecessors(n) \subseteq done
  /\ host # "waiting" => running = {} /\ (round = 0 \/ done = Nodes)

(* The graph does not change after it is built. *)
LEMMA GraphFixed ==
  ASSUME cfg' = cfg
  PROVE  Nodes' = Nodes /\ \A n : Predecessors(n)' = Predecessors(n)
BY DEF Nodes, Predecessors, Edges, DerivativeEdges, HeatEdges, WaveEdges, Directions, Alone,
       HasLaplacian, IsHeat, Parents, First, Leaves, Zeros, Along, Chain, HeatTail

(* The schedule of submit, fence and kernels keeps it.                     *)
THEOREM GraphInvariant == Spec => []GraphInv
<1>1. Init => GraphInv
  BY DEF Init, GraphInv
<1>2. GraphInv /\ [Next]_vars => GraphInv'
  <2> SUFFICES ASSUME GraphInv, [Next]_vars PROVE GraphInv'
    OBVIOUS
  <2>0. cfg' = cfg
    BY DEF Next, vars, Submit, Start, Complete, Fence, Consume, Rest
  <2>1. Nodes' = Nodes /\ \A n : Predecessors(n)' = Predecessors(n)
    BY <2>0, GraphFixed
  <2> USE DEF GraphInv
  <2>2. CASE Submit
    BY <2>0, <2>1, <2>2 DEF Submit
  <2>3. CASE Fence
    BY <2>0, <2>1, <2>3 DEF Fence, Drained
  <2>4. CASE Consume
    BY <2>0, <2>1, <2>4 DEF Consume
  <2>5. CASE UNCHANGED vars
    BY <2>0, <2>1, <2>5 DEF vars
  <2>6. ASSUME NEW n \in Nodes, Start(n) PROVE GraphInv'
    BY <2>0, <2>1, <2>6 DEF Start
  <2>7. ASSUME NEW n \in Nodes, Complete(n) PROVE GraphInv'
    BY <2>0, <2>1, <2>7 DEF Complete
  <2> QED
    BY <2>2, <2>3, <2>4, <2>5, <2>6, <2>7 DEF Next, Rest
<1> QED
  BY <1>1, <1>2, PTL DEF Spec

-----------------------------------------------------------------------------
(* Nodes that have started. *)
Begun == running \cup done

(* The kernels of derivative d on component c, and those of all components. *)
Kernels(d, c) == {<<Chain(c)[i], d, c>> : i \in 1 .. Len(Chain(c))}

(* A problem is one of those the code builds a graph for. *)
LEMMA Problem ==
  ASSUME cfg \in Configs
  PROVE  /\ cfg.system \in {"heat", "scalar wave", "laplacian", "derivative"}
         /\ cfg.active \subseteq Dirs /\ cfg.comps \subseteq Components
         /\ cfg.system = "derivative" => \A d, e \in cfg.active : d = e
         /\ Directions \subseteq Dirs
         /\ cfg.system # "derivative" => Directions = Dirs
BY RhsGraphAssumption DEF Directions

(* Each chain has two kernels, or three. *)
LEMMA Chains ==
  ASSUME NEW c
  PROVE  \/ Chain(c) = <<"Bf", "Br">> /\ c # "D"
         \/ Chain(c) = <<"O", "B", "N">> /\ c = "D"
         \/ Chain(c) = <<"O", "B">> /\ c = "D"
BY DEF Chain

(* The edges that order kernels on the same buffers. *)
LEMMA EdgesAre ==
  /\ \A d \in Directions, c \in cfg.comps : \A m \in Parents(d) :
       <<m, <<Chain(c)[1], d, c>>>> \in Edges
  /\ \A d \in Directions, c \in cfg.comps : \A i \in 1 .. Len(Chain(c)) - 1 :
       <<<<Chain(c)[i], d, c>>, <<Chain(c)[i + 1], d, c>>>> \in Edges
  /\ IsHeat => \A c \in cfg.comps :
       /\ \A m \in Leaves(2) : <<m, <<"scale", 0, c>>>> \in Edges
       /\ <<<<"scale", 0, c>>, <<"source", 0, c>>>> \in Edges
       /\ c \in cfg.dirichlet => <<<<"source", 0, c>>, <<"fill", 0, c>>>> \in Edges
  /\ cfg.system = "scalar wave" => \A c \in cfg.comps, d \in Dirs : \A m \in Leaves(d) :
       <<m, <<"dot", 0, c>>>> \in Edges
<1>1. \A d \in Directions, c \in cfg.comps : \A m \in Parents(d) :
        <<m, <<Chain(c)[1], d, c>>>> \in Edges
  <2> TAKE d \in Directions, c \in cfg.comps
  <2> TAKE m \in Parents(d)
  <2>1. <<Chain(c)[1], d, c>> \in First(d)
    BY Chains DEF First
  <2> QED
    BY <2>1 DEF Edges, DerivativeEdges
<1>2. \A d \in Directions, c \in cfg.comps : \A i \in 1 .. Len(Chain(c)) - 1 :
        <<<<Chain(c)[i], d, c>>, <<Chain(c)[i + 1], d, c>>>> \in Edges
  <2> TAKE d \in Directions, c \in cfg.comps
  <2> TAKE i \in 1 .. Len(Chain(c)) - 1
  <2>1. <<<<Chain(c)[i], d, c>>, <<Chain(c)[i + 1], d, c>>>> \in Along(Chain(c), d, c)
    BY DEF Along
  <2> QED
    BY <2>1 DEF Edges, DerivativeEdges
<1>3. ASSUME IsHeat, NEW c \in cfg.comps
      PROVE  /\ \A m \in Leaves(2) : <<m, <<"scale", 0, c>>>> \in Edges
             /\ <<<<"scale", 0, c>>, <<"source", 0, c>>>> \in Edges
             /\ c \in cfg.dirichlet => <<<<"source", 0, c>>, <<"fill", 0, c>>>> \in Edges
  <2>1. /\ Leaves(2) \X {<<"scale", 0, c>>} \subseteq Edges
        /\ Along(HeatTail(c), 0, c) \subseteq Edges
    BY <1>3 DEF Edges, HeatEdges
  <2>2. <<<<"scale", 0, c>>, <<"source", 0, c>>>> \in Along(HeatTail(c), 0, c)
    <3>1. 1 \in 1 .. Len(HeatTail(c)) - 1 /\ HeatTail(c)[1] = "scale" /\ HeatTail(c)[1 + 1] = "source"
      BY DEF HeatTail
    <3> QED
      BY <3>1 DEF Along
  <2>3. c \in cfg.dirichlet =>
          <<<<"source", 0, c>>, <<"fill", 0, c>>>> \in Along(HeatTail(c), 0, c)
    <3>1. c \in cfg.dirichlet =>
            2 \in 1 .. Len(HeatTail(c)) - 1 /\ HeatTail(c)[2] = "source" /\ HeatTail(c)[2 + 1] = "fill"
      BY DEF HeatTail
    <3> QED
      BY <3>1 DEF Along
  <2> QED
    BY <2>1, <2>2, <2>3
<1>4. ASSUME cfg.system = "scalar wave", NEW c \in cfg.comps, NEW d \in Dirs, NEW m \in Leaves(d)
      PROVE  <<m, <<"dot", 0, c>>>> \in Edges
  BY <1>4 DEF Edges, IsHeat, Alone, WaveEdges
<1> QED
  BY <1>1, <1>2, <1>3, <1>4

(* When a kernel of derivative d has begun on a component, those before it *)
(* in its chain are done and so is what the derivative is chained to; when *)
(* a derivative's last kernels are done it is done on every component.     *)
LEMMA ChainOrder ==
  ASSUME GraphInv, NEW d \in Directions, NEW c \in cfg.comps
  PROVE  /\ \A i \in 1 .. Len(Chain(c)) : <<Chain(c)[i], d, c>> \in Begun =>
              /\ \A j \in 1 .. i - 1 : <<Chain(c)[j], d, c>> \in done
              /\ Parents(d) \subseteq done
         /\ Leaves(d) \subseteq done => Kernels(d, c) \subseteq done /\ Parents(d) \subseteq done
<1>1. \A m, n : <<m, n>> \in Edges /\ n \in Begun => m \in done
  BY DEF GraphInv, Begun, Predecessors
<1>2. \A i \in 1 .. Len(Chain(c)) - 1 :
        <<Chain(c)[i + 1], d, c>> \in Begun => <<Chain(c)[i], d, c>> \in done
  BY <1>1, EdgesAre
<1>3. <<Chain(c)[1], d, c>> \in Begun => Parents(d) \subseteq done
  BY <1>1, EdgesAre
<1>4. done \subseteq Begun
  BY DEF Begun
<1>5. Len(Chain(c)) \in 2 .. 3
  BY Chains
<1>6. \A i \in 1 .. Len(Chain(c)) : <<Chain(c)[i], d, c>> \in Begun =>
        /\ \A j \in 1 .. i - 1 : <<Chain(c)[j], d, c>> \in done
        /\ Parents(d) \subseteq done
  <2>1. <<Chain(c)[2], d, c>> \in Begun => <<Chain(c)[1], d, c>> \in done
    <3>1. \A k \in 2 .. 3 : 1 \in 1 .. k - 1 /\ 1 + 1 = 2
      OBVIOUS
    <3>2. 1 \in 1 .. Len(Chain(c)) - 1
      BY <1>5, <3>1
    <3> QED
      BY <1>2, <3>1, <3>2
  <2>2. Len(Chain(c)) = 3 /\ <<Chain(c)[3], d, c>> \in Begun => <<Chain(c)[2], d, c>> \in done
    BY <1>2, <1>5
  <2>3. ASSUME NEW i \in 1 .. Len(Chain(c)), <<Chain(c)[i], d, c>> \in Begun
        PROVE  /\ \A j \in 1 .. i - 1 : <<Chain(c)[j], d, c>> \in done
               /\ Parents(d) \subseteq done
    <3>1. CASE i = 1
      BY <1>3, <2>3, <3>1
    <3>2. CASE i = 2
      <4>1. <<Chain(c)[1], d, c>> \in done
        BY <2>1, <2>3, <3>2
      <4>2. \A j \in 1 .. i - 1 : j = 1
        BY <3>2
      <4> QED
        BY <1>3, <1>4, <4>1, <4>2
    <3>3. CASE i = 3
      <4>1. <<Chain(c)[2], d, c>> \in done
        BY <1>5, <2>2, <2>3, <3>3
      <4>2. <<Chain(c)[1], d, c>> \in done
        BY <1>4, <2>1, <4>1
      <4>3. \A j \in 1 .. i - 1 : j \in {1, 2}
        BY <3>3
      <4> QED
        BY <1>3, <1>4, <4>1, <4>2, <4>3
    <3>4. i \in {1, 2, 3}
      <4>1. Len(Chain(c)) = 2 \/ Len(Chain(c)) = 3
        BY Chains
      <4>2. \A k \in 1 .. 2 : k \in {1, 2, 3}
        OBVIOUS
      <4>3. \A k \in 1 .. 3 : k \in {1, 2, 3}
        OBVIOUS
      <4> QED
        BY <2>3, <4>1, <4>2, <4>3
    <3> QED
      BY <3>1, <3>2, <3>3, <3>4
  <2> QED
    BY <2>3
<1>7. ASSUME Leaves(d) \subseteq done
      PROVE  Kernels(d, c) \subseteq done /\ Parents(d) \subseteq done
  <2>1. <<Chain(c)[Len(Chain(c))], d, c>> \in done
    BY <1>7 DEF Leaves, Last
  <2> QED
    BY <2>1, <1>4, <1>5, <1>6 DEF Kernels
<1> QED
  BY <1>6, <1>7

(* A node is a zeroing, a kernel of a chain, one of heat's tail or the     *)
(* product that ends the graph of scalar_wave.                             *)
IsZero(n) == \E c \in cfg.comps, d \in Dirs : n = <<"zero", d, c>> /\ (HasLaplacian => d = 0)
IsTail(n) == \E c \in cfg.comps, k \in {"scale", "source", "fill"} :
               n = <<k, 0, c>> /\ (k = "fill" => c \in cfg.dirichlet)
IsDot(n) == \E c \in cfg.comps : n = <<"dot", 0, c>>

(* What that leaves for a graph with a laplacian, and for a scalar wave's. *)
LaplacianKind(n) ==
  \/ \E c \in cfg.comps : n = <<"zero", 0, c>>
  \/ \E d \in {0, 1, 2}, c \in cfg.comps : n \in Kernels(d, c)
  \/ IsHeat /\ IsTail(n)
WaveKind(n) ==
  \/ \E c \in cfg.comps, d \in Dirs : n = <<"zero", d, c>>
  \/ \E d \in Dirs, c \in cfg.comps : n \in Kernels(d, c)
  \/ \E c \in cfg.comps : n = <<"dot", 0, c>>

(* The kernels of every graph.                                             *)
LEMMA NodeKinds ==
  ASSUME cfg \in Configs, NEW n \in Nodes
  PROVE  \/ cfg.system # "derivative" /\ IsZero(n)
         \/ \E d \in Directions, c \in cfg.comps : n \in Kernels(d, c)
         \/ IsHeat /\ IsTail(n)
         \/ cfg.system = "scalar wave" /\ IsDot(n)
<1> DEFINE P(x) == \/ cfg.system # "derivative" /\ IsZero(x)
                   \/ \E d \in Directions, c \in cfg.comps : x \in Kernels(d, c)
                   \/ IsHeat /\ IsTail(x)
                   \/ cfg.system = "scalar wave" /\ IsDot(x)
<1>1. \A d \in Directions : \A x \in First(d) \cup Leaves(d) : P(x)
  <2> TAKE d \in Directions
  <2>1. ASSUME NEW c \in cfg.comps
        PROVE  <<Head(Chain(c)), d, c>> \in Kernels(d, c) /\ <<Last(Chain(c)), d, c>> \in Kernels(d, c)
    <3>1. /\ Len(Chain(c)) \in 1 .. Len(Chain(c)) /\ 1 \in 1 .. Len(Chain(c))
          /\ Head(Chain(c)) = Chain(c)[1]
      <4>1. Len(Chain(c)) = 2 \/ Len(Chain(c)) = 3
        BY Chains
      <4>2. CASE c = "D"
        BY <4>1, <4>2 DEF Chain
      <4>3. CASE c # "D"
        BY <4>1, <4>3 DEF Chain
      <4> QED
        BY <4>2, <4>3
    <3> QED
      BY <3>1 DEF Last, Kernels
  <2> QED
    BY <2>1 DEF First, Leaves
<1>2. \A d \in Directions : \A x \in Parents(d) : P(x)
  <2> TAKE d \in Directions
  <2> TAKE x \in Parents(d)
  <2>1. CASE cfg.system = "derivative"
    BY <2>1 DEF Parents, HasLaplacian
  <2>2. CASE HasLaplacian /\ d > 0 /\ cfg.system # "derivative"
    <3>1. d - 1 \in Directions
      <4>1. Directions = 0 .. 2
        BY <2>2, Problem DEF Dirs
      <4>2. \A k \in 0 .. 2 : k > 0 => k - 1 \in 0 .. 2
        OBVIOUS
      <4> QED
        BY <2>2, <4>1, <4>2
    <3>2. x \in Leaves(d - 1)
      BY <2>2 DEF Parents
    <3> QED
      BY <1>1, <3>1, <3>2
  <2>3. CASE ~(HasLaplacian /\ d > 0) /\ cfg.system # "derivative"
    <3>1. x \in Zeros(d) /\ d \in Dirs
      BY <2>3, Problem DEF Parents
    <3>2. HasLaplacian => d = 0
      BY <2>3, <3>1 DEF Dirs
    <3> QED
      BY <2>3, <3>1, <3>2 DEF Zeros, IsZero
  <2> QED
    BY <2>1, <2>2, <2>3
<1>3. \A d \in Directions, c \in cfg.comps : \A e \in Along(Chain(c), d, c) : P(e[1]) /\ P(e[2])
  <2>1. \A c : \A i \in 1 .. Len(Chain(c)) - 1 : i \in 1 .. Len(Chain(c)) /\ i + 1 \in 1 .. Len(Chain(c))
    BY Chains
  <2> TAKE d \in Directions, c \in cfg.comps
  <2> TAKE e \in Along(Chain(c), d, c)
  <2>2. PICK i \in 1 .. Len(Chain(c)) - 1 : e = <<<<Chain(c)[i], d, c>>, <<Chain(c)[i + 1], d, c>>>>
    BY DEF Along
  <2>3. e[1] \in Kernels(d, c) /\ e[2] \in Kernels(d, c)
    BY <2>1, <2>2 DEF Kernels
  <2> QED
    BY <2>3
<1>4. \A e \in DerivativeEdges : P(e[1]) /\ P(e[2])
  <2> TAKE e \in DerivativeEdges
  <2>1. PICK d \in Directions :
          e \in (Parents(d) \X First(d)) \cup UNION {Along(Chain(c), d, c) : c \in cfg.comps}
    BY DEF DerivativeEdges
  <2> HIDE DEF P
  <2>2. CASE e \in Parents(d) \X First(d)
    BY <1>1, <1>2, <2>2
  <2>3. CASE e \in UNION {Along(Chain(c), d, c) : c \in cfg.comps}
    BY <1>3, <2>3
  <2> QED
    BY <2>1, <2>2, <2>3
<1>5. ASSUME IsHeat, NEW e \in HeatEdges PROVE P(e[1]) /\ P(e[2])
  <2>1. PICK c \in cfg.comps :
          e \in (Leaves(2) \X {<<"scale", 0, c>>}) \cup Along(HeatTail(c), 0, c)
    BY DEF HeatEdges
  <2>2. P(<<"scale", 0, c>>)
    BY <1>5 DEF IsTail
  <2>3. 2 \in Directions
    BY <1>5, Problem DEF IsHeat, Dirs
  <2>4. \A x \in Leaves(2) : P(x)
    BY <1>1, <2>3
  <2>5. ASSUME e \in Along(HeatTail(c), 0, c) PROVE P(e[1]) /\ P(e[2])
    <3>1. PICK i \in 1 .. Len(HeatTail(c)) - 1 :
            e = <<<<HeatTail(c)[i], 0, c>>, <<HeatTail(c)[i + 1], 0, c>>>>
      BY <2>5 DEF Along
    <3>2. CASE c \in cfg.dirichlet
      <4>1. HeatTail(c) = <<"scale", "source", "fill">>
        BY <3>2 DEF HeatTail
      <4>2. i = 1 \/ i = 2
        BY <4>1
      <4>3. e \in {<<<<"scale", 0, c>>, <<"source", 0, c>>>>, <<<<"source", 0, c>>, <<"fill", 0, c>>>>}
        BY <3>1, <4>1, <4>2
      <4>4. P(<<"scale", 0, c>>) /\ P(<<"source", 0, c>>) /\ P(<<"fill", 0, c>>)
        BY <1>5, <3>2 DEF IsTail
      <4> HIDE DEF P
      <4> QED
        BY <4>3, <4>4
    <3>3. CASE c \notin cfg.dirichlet
      <4>1. HeatTail(c) = <<"scale", "source">>
        BY <3>3 DEF HeatTail
      <4>2. i = 1
        BY <4>1
      <4>3. e = <<<<"scale", 0, c>>, <<"source", 0, c>>>>
        BY <3>1, <4>1, <4>2
      <4> QED
        BY <1>5, <4>3 DEF IsTail
    <3> QED
      BY <3>2, <3>3
  <2> HIDE DEF P
  <2> QED
    BY <2>1, <2>2, <2>4, <2>5
<1>6. ASSUME cfg.system = "scalar wave", NEW e \in WaveEdges PROVE P(e[1]) /\ P(e[2])
  <2>1. PICK d \in Dirs, c \in cfg.comps : e[1] \in Leaves(d) /\ e[2] = <<"dot", 0, c>>
    BY DEF WaveEdges
  <2>2. P(<<"dot", 0, c>>)
    BY <1>6 DEF IsDot
  <2>3. d \in Directions
    BY <1>6, Problem
  <2> HIDE DEF P
  <2> QED
    BY <1>1, <2>1, <2>2, <2>3
<1>7. \A e \in Edges : P(e[1]) /\ P(e[2])
  <2> HIDE DEF P
  <2>1. cfg.system \in {"heat", "scalar wave", "laplacian", "derivative"}
    BY Problem
  <2> QED
    BY <1>4, <1>5, <1>6, <2>1 DEF Edges, IsHeat, Alone
<1>8. P(n)
  <2> HIDE DEF P
  <2> QED
    BY <1>7 DEF Nodes
<1> QED
  BY <1>8

(* No two kernels of a graph that may run at the same time touch the same  *)
(* buffer, and the host touches none while they run.                       *)
THEOREM GraphHasNoRace == Spec => []NoRace
<1>1. GraphInv => NoRace
  <2> SUFFICES ASSUME GraphInv, NEW m \in running, NEW n \in running, m # n,
                      NEW b, b \in Writes(m), b \in Writes(n) \cup Reads(n)
               PROVE  FALSE
    BY DEF NoRace, GraphInv
  <2>1. /\ cfg \in Configs /\ m \in Nodes /\ n \in Nodes /\ m \notin done /\ n \notin done
        /\ m \in Begun /\ n \in Begun /\ done \subseteq Begun
    BY DEF GraphInv, Begun
  <2>2. m[3] = n[3]
    BY DEF Writes, Reads
  <2>3. \A x, y : <<x, y>> \in Edges /\ y \in Begun => x \in done
    BY DEF GraphInv, Begun, Predecessors
  <2>4. \A d \in Directions, c \in cfg.comps : \A x, y \in Kernels(d, c) :
          x \in Begun /\ y \in Begun /\ x # y => x \in done \/ y \in done
    <3> TAKE d \in Directions, c \in cfg.comps
    <3> TAKE x, y \in Kernels(d, c)
    <3> HAVE x \in Begun /\ y \in Begun /\ x # y
    <3>1. PICK i \in 1 .. Len(Chain(c)) : x = <<Chain(c)[i], d, c>>
      BY DEF Kernels
    <3>2. PICK j \in 1 .. Len(Chain(c)) : y = <<Chain(c)[j], d, c>>
      BY DEF Kernels
    <3>3. i \in 1 .. j - 1 \/ j \in 1 .. i - 1
      <4>1. Len(Chain(c)) \in Nat
        BY Chains
      <4>2. i # j
        BY <3>1, <3>2
      <4> QED
        BY <4>1, <4>2
    <3> QED
      BY <3>1, <3>2, <3>3, ChainOrder
  <2>5. \A d \in Directions, c \in cfg.comps : \A x \in Kernels(d, c) :
          x \in Begun => Parents(d) \subseteq done
    BY ChainOrder DEF Kernels
  <2>6. CASE HasLaplacian
    <3>1. cfg.system # "derivative" /\ cfg.system # "scalar wave" /\ Directions = {0, 1, 2}
      <4>1. 0 .. 2 = {0, 1, 2}
        OBVIOUS
      <4> QED
        BY <2>1, <2>6, <4>1, Problem DEF HasLaplacian, Dirs
    <3>2. Parents(0) = Zeros(0) /\ Parents(1) = Leaves(0) /\ Parents(2) = Leaves(1)
      <4>0. ASSUME NEW d \in Int
            PROVE  Parents(d) = IF d > 0 THEN Leaves(d - 1) ELSE Zeros(d)
        BY <2>6, <3>1 DEF Parents
      <4>1. Parents(0) = Zeros(0)
        BY <4>0
      <4>2. Parents(1) = Leaves(1 - 1) /\ Parents(2) = Leaves(2 - 1)
        BY <4>0
      <4>3. 1 - 1 = 0 /\ 2 - 1 = 1
        OBVIOUS
      <4> QED
        BY <4>1, <4>2, <4>3
    <3> DEFINE All(d) == \A c \in cfg.comps : Kernels(d, c) \subseteq done
    <3>3. \A d \in {0, 1, 2} : Leaves(d) \subseteq done => All(d) /\ Parents(d) \subseteq done
      <4>1. "D" \in cfg.comps
        BY <2>1, RhsGraphAssumption
      <4> QED
        BY <3>1, <4>1, ChainOrder
    <3> HIDE DEF All
    <3>4. \A c \in cfg.comps, x \in Begun :
            /\ x \in Kernels(0, c) => Zeros(0) \subseteq done
            /\ x \in Kernels(1, c) => Zeros(0) \subseteq done /\ All(0)
            /\ x \in Kernels(2, c) => Zeros(0) \subseteq done /\ All(0) /\ All(1)
      BY <2>5, <3>1, <3>2, <3>3
    <3>5. ASSUME NEW c \in cfg.comps, IsHeat, NEW x \in Begun,
                 x \in {<<"scale", 0, c>>, <<"source", 0, c>>} \/ (x = <<"fill", 0, c>> /\ c \in cfg.dirichlet)
          PROVE  /\ Zeros(0) \subseteq done /\ All(0) /\ All(1) /\ All(2)
                 /\ x # <<"scale", 0, c>> => <<"scale", 0, c>> \in done
                 /\ x = <<"fill", 0, c>> => <<"source", 0, c>> \in done
      <4>1. x = <<"fill", 0, c>> => <<"source", 0, c>> \in done
        <5>1. x = <<"fill", 0, c>> => c \in cfg.dirichlet
          BY <3>5
        <5>2. c \in cfg.dirichlet => <<<<"source", 0, c>>, <<"fill", 0, c>>>> \in Edges
          BY <3>5, EdgesAre
        <5> QED
          BY <2>3, <5>1, <5>2
      <4>2. x # <<"scale", 0, c>> => <<"scale", 0, c>> \in done
        BY <2>1, <2>3, <3>5, <4>1, EdgesAre
      <4>3. Leaves(2) \subseteq done
        BY <2>1, <2>3, <3>5, <4>2, EdgesAre
      <4> QED
        BY <3>1, <3>2, <3>3, <4>1, <4>2, <4>3
    <3>6. \A x \in {m, n} : LaplacianKind(x)
      <4>1. ASSUME NEW x \in Nodes PROVE LaplacianKind(x)
        BY <2>1, <2>6, <3>1, NodeKinds DEF IsZero, LaplacianKind
      <4> QED
        BY <2>1, <4>1
    <3>7. \A d, c : \A x \in Kernels(d, c) : x[3] = c
      BY DEF Kernels
    <3>8. ASSUME NEW x \in {m, n}, NEW y \in {m, n}, x # y, NEW c \in cfg.comps, x = <<"zero", 0, c>>
          PROVE  FALSE
      <4>1. y # <<"zero", 0, c>> /\ y[3] = c /\ x \in Zeros(0)
        BY <2>2, <3>8 DEF Zeros
      <4>2. x \notin done /\ y \in Begun
        BY <2>1
      <4>3. CASE \E d \in {0, 1, 2}, c1 \in cfg.comps : y \in Kernels(d, c1)
        BY <3>4, <4>1, <4>2, <4>3
      <4>4. CASE IsHeat /\ IsTail(y)
        BY <3>5, <4>1, <4>2, <4>4 DEF IsTail
      <4>5. CASE \E c1 \in cfg.comps : y = <<"zero", 0, c1>>
        BY <4>1, <4>5
      <4> QED
        BY <3>6, <4>3, <4>4, <4>5 DEF LaplacianKind
    <3>9. ASSUME NEW x \in {m, n}, NEW y \in {m, n}, x # y, NEW d \in {0, 1, 2}, NEW c \in cfg.comps,
                 x \in Kernels(d, c), IsHeat, IsTail(y)
          PROVE  FALSE
      <4>1. y \in Begun /\ x \notin done
        BY <2>1
      <4>2. All(0) /\ All(1) /\ All(2)
        BY <3>5, <3>9, <4>1 DEF IsTail
      <4> QED
        BY <3>9, <4>1, <4>2 DEF All
    <3>10. ASSUME NEW d1 \in {0, 1, 2}, NEW c1 \in cfg.comps, m \in Kernels(d1, c1),
                  NEW d2 \in {0, 1, 2}, NEW c2 \in cfg.comps, n \in Kernels(d2, c2)
           PROVE  FALSE
      <4>1. c1 = c2
        BY <2>2, <3>7, <3>10
      <4>2. CASE d1 = d2
        BY <2>1, <2>4, <3>1, <3>10, <4>1, <4>2
      <4>3. CASE d1 # d2
        <5>1. All(d1) \/ All(d2)
          BY <2>1, <3>4, <3>10, <4>3
        <5> QED
          BY <2>1, <3>10, <5>1 DEF All
      <4> QED
        BY <4>2, <4>3
    <3>11. ASSUME IsHeat, IsTail(m), IsTail(n) PROVE FALSE
      <4>1. PICK c \in cfg.comps, k \in {"scale", "source", "fill"} :
              m = <<k, 0, c>> /\ (k = "fill" => c \in cfg.dirichlet)
        BY <3>11 DEF IsTail
      <4>2. PICK l \in {"scale", "source", "fill"} :
              n = <<l, 0, c>> /\ (l = "fill" => c \in cfg.dirichlet)
        BY <2>2, <3>11, <4>1 DEF IsTail
      <4> QED
        BY <2>1, <3>5, <3>11, <4>1, <4>2
    <3> QED
      BY <3>6, <3>8, <3>9, <3>10, <3>11 DEF LaplacianKind
  <2>7. CASE cfg.system = "derivative"
    <3>1. Directions = cfg.active /\ ~HasLaplacian /\ ~IsHeat
      BY <2>7 DEF Directions, HasLaplacian, IsHeat
    <3>2. PICK d1 \in Directions, c1 \in cfg.comps : m \in Kernels(d1, c1)
      BY <2>1, <2>7, <3>1, NodeKinds
    <3>3. PICK d2 \in Directions, c2 \in cfg.comps : n \in Kernels(d2, c2)
      BY <2>1, <2>7, <3>1, NodeKinds
    <3>4. d1 = d2
      BY <2>1, <2>7, <3>1, <3>2, <3>3, Problem
    <3>5. c1 = c2
      BY <2>2, <3>2, <3>3 DEF Kernels
    <3> QED
      BY <2>1, <2>4, <3>2, <3>3, <3>4, <3>5
  <2>8. CASE cfg.system = "scalar wave"
    <3>1. Directions = Dirs /\ ~HasLaplacian /\ ~IsHeat /\ ~Alone
      BY <2>1, <2>8, Problem DEF HasLaplacian, IsHeat, Alone
    <3>2. \A d \in Dirs : Parents(d) = Zeros(d)
      BY <2>8, <3>1 DEF Parents
    <3>3. \A x \in {m, n} : WaveKind(x)
      <4>1. ASSUME NEW x \in Nodes PROVE WaveKind(x)
        BY <2>1, <3>1, NodeKinds DEF IsZero, IsDot, WaveKind
      <4> QED
        BY <2>1, <4>1
    <3>4. \A d \in Dirs, c \in cfg.comps : \A x \in Kernels(d, c) :
            x[2] = d /\ x[3] = c /\ x[1] \in {"Bf", "Br", "O", "B", "N"}
      <4>1. \A c : \A i \in 1 .. Len(Chain(c)) : Chain(c)[i] \in {"Bf", "Br", "O", "B", "N"}
        <5> TAKE c
        <5> TAKE i \in 1 .. Len(Chain(c))
        <5>1. CASE Len(Chain(c)) = 2
          <6>1. i = 1 \/ i = 2
            BY <5>1
          <6> QED
            BY <5>1, <6>1, Chains
        <5>2. CASE Len(Chain(c)) = 3
          <6>1. i = 1 \/ i = 2 \/ i = 3
            BY <5>2
          <6> QED
            BY <5>2, <6>1, Chains
        <5> QED
          BY <5>1, <5>2, Chains
      <4> QED
        BY <4>1 DEF Kernels
    <3>5. \A c \in cfg.comps : <<"dot", 0, c>> \in Begun =>
            \A d \in Dirs : Zeros(d) \subseteq done /\ Kernels(d, c) \subseteq done
      BY <2>3, <2>8, <3>1, <3>2, EdgesAre, ChainOrder
    <3>6. \A x \in {m, n} : x[1] = "dot" \/
            (x[2] \in Dirs /\ Reads(x) = {} /\ Writes(x) \subseteq {<<Scratch[x[2]], x[3]>>})
      BY <3>1, <3>3, <3>4 DEF Writes, Reads, Target, WaveKind
    <3>7. n[1] = "dot" => m[1] # "dot"
      BY <2>2, <3>3, <3>4 DEF WaveKind
    <3>8. \A d \in Dirs : Scratch[d] # "du" /\ \A e \in Dirs : Scratch[d] = Scratch[e] => d = e
      BY DEF Scratch, Dirs
    <3>9. CASE n[1] = "dot" \/ m[1] = "dot"
      <4>1. PICK c \in cfg.comps, x \in {m, n}, y \in {m, n} : x # y /\ y = <<"dot", 0, c>> /\ x[1] # "dot"
        BY <2>2, <3>3, <3>4, <3>7, <3>9 DEF WaveKind
      <4>2. x[3] = c /\ y \in Begun /\ x \notin done
        BY <2>1, <2>2, <4>1
      <4>3. CASE \E d \in Dirs, c1 \in cfg.comps : x = <<"zero", d, c1>>
        BY <3>5, <4>1, <4>2, <4>3 DEF Zeros
      <4>4. CASE \E d \in Dirs, c1 \in cfg.comps : x \in Kernels(d, c1)
        BY <3>4, <3>5, <4>1, <4>2, <4>4
      <4> QED
        BY <3>3, <4>1, <4>3, <4>4 DEF WaveKind
    <3>10. CASE n[1] # "dot" /\ m[1] # "dot"
      <4>1. m[2] = n[2] /\ m[2] \in Dirs
        BY <3>6, <3>8, <3>10
      <4>2. PICK d \in Dirs, c \in cfg.comps : m = <<"zero", d, c>> \/ m \in Kernels(d, c)
        BY <3>3, <3>10 DEF WaveKind
      <4>3. PICK e \in Dirs, c1 \in cfg.comps : n = <<"zero", e, c1>> \/ n \in Kernels(e, c1)
        BY <3>3, <3>10 DEF WaveKind
      <4>4. d = e /\ c = c1
        BY <2>2, <3>4, <4>1, <4>2, <4>3
      <4>5. <<"zero", d, c>> \in Zeros(d)
        BY DEF Zeros
      <4> QED
        BY <2>1, <2>4, <2>5, <3>1, <3>2, <4>2, <4>3, <4>4, <4>5
    <3> QED
      BY <3>9, <3>10
  <2> QED
    BY <2>1, <2>6, <2>7, <2>8, Problem DEF HasLaplacian
<1> QED
  BY <1>1, GraphInvariant, PTL

-----------------------------------------------------------------------------
(* Kernel i of derivative d on component c, the contributions of its first *)
(* k kernels, and those of all kernels of the derivatives before d.        *)
K(d, i, c) == <<Chain(c)[i], d, c>>
Pre(c, d, k) ==
  IF d \in cfg.active THEN [i \in 1 .. k |-> Term(Chain(c)[i], d, 0)] ELSE <<>>
Full(c, d) == Pre(c, d, Len(Chain(c)))
Acc(c, d) ==
  CASE d = 0 -> <<>>
    [] d = 1 -> Full(c, 0)
    [] d = 2 -> Full(c, 0) \o Full(c, 1)
    [] OTHER -> (Full(c, 0) \o Full(c, 1)) \o Full(c, 2)
Sum(s) == [free |-> s, fixed |-> <<>>]

(* With a laplacian the kernels on a component are done in one order: the  *)
(* first k of derivative d, and all of those before it.                    *)
Stage(c, d, k) ==
  \A e \in 0 .. 2, i \in 1 .. Len(Chain(c)) : K(e, i, c) \in done <=> e < d \/ (e = d /\ i <= k)
(* heat has multiplied the sum of the derivatives, has added the source.   *)
Scaled(c) == IsHeat /\ <<"scale", 0, c>> \in done
Sourced(c) == <<"source", 0, c>> \in done

(* What the result holds of a component, by which kernels are done: with a *)
(* laplacian, ...                                                          *)
LaplacianMem(c) ==
  <<"zero", 0, c>> \in done /\ ~Scaled(c) =>
    \E d \in 0 .. 2, k \in 0 .. Len(Chain(c)) :
      Stage(c, d, k) /\ mem[<<"du", c>>] = Sum(Acc(c, d) \o Pre(c, d, k))

(* ... in what heat makes of it, ...                                       *)
HeatMem(c) ==
  Scaled(c) =>
    mem[<<"du", c>>] =
      [free |-> IF Sourced(c) THEN EveryDirection(c) \o After ELSE EveryDirection(c),
       fixed |-> IF /\ Sourced(c) /\ <<"fill", 0, c>> \notin done
                    /\ c = "D" /\ c \in cfg.dirichlet
                 THEN After ELSE <<>>]

(* ... in a gradient's scratch fields and in the product of scalar_wave, ... *)
WaveMem(c) ==
  /\ \A d \in Dirs : <<"zero", d, c>> \in done =>
       \E k \in 0 .. Len(Chain(c)) :
         /\ \A i \in 1 .. Len(Chain(c)) : K(d, i, c) \in done <=> i <= k
         /\ mem[<<Scratch[d], c>>] = Sum(Pre(c, d, k))
  /\ <<"dot", 0, c>> \in done => mem[<<"du", c>>] = Sum(EveryDirection(c))

(* ... and in the field a derivative is given.                             *)
Partial(c, d, k) ==
  [free |-> IF k = 0 THEN Filled ELSE Before(c) \o Pre(c, d, k), fixed |-> Filled]
DerivativeMem(c) ==
  round > 0 =>
    /\ \A d \in cfg.active : \E k \in 0 .. Len(Chain(c)) :
         /\ \A i \in 1 .. Len(Chain(c)) : K(d, i, c) \in done <=> i <= k
         /\ mem[<<"du", c>>] = Partial(c, d, k)
    /\ cfg.active = {} => mem[<<"du", c>>] = Partial(c, 0, 0)

MemOf(c) ==
  /\ HasLaplacian => LaplacianMem(c) /\ HeatMem(c)
  /\ cfg.system = "scalar wave" => WaveMem(c)
  /\ cfg.system = "derivative" => DerivativeMem(c)

MemInv ==
  /\ DOMAIN mem = Buffers
  /\ host # "inputs" => round > 0
  /\ \A c \in cfg.comps : MemOf(c)

-----------------------------------------------------------------------------
(* The kernels of a chain have names of their own; only the fluid's first  *)
(* is O.                                                                   *)
LEMMA ChainNames ==
  ASSUME NEW c
  PROVE  /\ Len(Chain(c)) \in {2, 3} /\ DOMAIN Chain(c) = 1 .. Len(Chain(c))
         /\ \A i \in 1 .. Len(Chain(c)) :
              /\ Chain(c)[i] \in {"Bf", "Br", "O", "B", "N"}
              /\ Chain(c)[i] = "O" <=> c = "D" /\ i = 1
         /\ \A i, j \in 1 .. Len(Chain(c)) : Chain(c)[i] = Chain(c)[j] => i = j
<1> DEFINE P(s) == /\ Len(s) \in {2, 3} /\ DOMAIN s = 1 .. Len(s)
                   /\ \A i \in 1 .. Len(s) :
                        /\ s[i] \in {"Bf", "Br", "O", "B", "N"}
                        /\ s[i] = "O" <=> c = "D" /\ i = 1
                   /\ \A i, j \in 1 .. Len(s) : s[i] = s[j] => i = j
<1>0. 1 .. 2 = {1, 2} /\ 1 .. 3 = {1, 2, 3}
  OBVIOUS
<1>1. c # "D" => P(<<"Bf", "Br">>)
  BY <1>0
<1>2. c = "D" => P(<<"O", "B", "N">>)
  BY <1>0
<1>3. c = "D" => P(<<"O", "B">>)
  BY <1>0
<1>4. P(Chain(c))
  <2> HIDE DEF P
  <2> QED
    BY <1>1, <1>2, <1>3, Chains
<1> QED
  BY <1>4

(* What the contributions of a submission are does not change during it. *)
LEMMA SameTerms ==
  ASSUME cfg' = cfg, round' = round
  PROVE  /\ \A c : Chain(c)' = Chain(c) /\ EveryDirection(c)' = EveryDirection(c)
         /\ \A c, d, k : Pre(c, d, k)' = Pre(c, d, k) /\ Partial(c, d, k)' = Partial(c, d, k)
         /\ \A c, d : Acc(c, d)' = Acc(c, d)
         /\ After' = After /\ HasLaplacian' = HasLaplacian /\ IsHeat' = IsHeat
         /\ Buffers' = Buffers
<1>1. \A c : Chain(c)' = Chain(c)
  BY DEF Chain
<1>2. \A k, d, f : Term(k, d, f)' = Term(k, d, f)
  BY DEF Term
<1>3. \A c, d, k : Pre(c, d, k)' = Pre(c, d, k)
  BY <1>1, <1>2 DEF Pre
<1>4. \A c, d : Acc(c, d)' = Acc(c, d)
  BY <1>1, <1>3 DEF Acc, Full
<1>5. \A c : EveryDirection(c)' = EveryDirection(c)
  BY <1>1, <1>2 DEF EveryDirection, DerivativeOf, Alone
<1>6. \A c, d, k : Partial(c, d, k)' = Partial(c, d, k)
  BY <1>3 DEF Partial, Before, Filled
<1> QED
  BY <1>1, <1>2, <1>3, <1>4, <1>5, <1>6 DEF After, IsHeat, HasLaplacian, Buffers

(* Contributions. *)
Terms == [by : {"Bf", "Br", "O", "B", "N", "source", "caller"}, dir : Int, input : Nat,
          factors : Nat]

(* What a kernel contributes is one of them.                               *)
LEMMA TermTypes ==
  ASSUME round \in Nat, NEW c, NEW d \in Dirs, NEW i \in 1 .. Len(Chain(c))
  PROVE  Term(Chain(c)[i], d, 0) \in Terms /\ Term("source", 0, 0) \in Terms
<1>1. Chain(c)[i] \in {"Bf", "Br", "O", "B", "N"}
  BY ChainNames
<1>2. d \in Int
  BY DEF Dirs
<1>3. Chain(c)[i] \in {"Bf", "Br", "O", "B", "N", "source", "caller"}
  BY <1>1
<1>4. Term(Chain(c)[i], d, 0) \in Terms
  BY <1>2, <1>3 DEF Term, Terms
<1>5. Term("source", 0, 0) \in Terms
  BY DEF Term, Terms
<1> QED
  BY <1>4, <1>5

(* The first k contributions of a derivative. *)
LEMMA PreSeq ==
  ASSUME round \in Nat, NEW c, NEW d \in Dirs, NEW k \in 0 .. Len(Chain(c))
  PROVE  /\ Pre(c, d, k) \in Seq(Terms)
         /\ Len(Pre(c, d, k)) = IF d \in cfg.active THEN k ELSE 0
         /\ d \in cfg.active =>
              \A i \in 1 .. k : Pre(c, d, k)[i] = Term(Chain(c)[i], d, 0)
<1>1. \A i \in 1 .. k : Term(Chain(c)[i], d, 0) \in Terms
  <2> TAKE i \in 1 .. k
  <2>1. i \in 1 .. Len(Chain(c))
    BY ChainNames
  <2> QED
    BY <2>1, TermTypes
<1>2. k \in Nat
  BY ChainNames
<1>3. CASE d \in cfg.active
  <2> DEFINE p == [i \in 1 .. k |-> Term(Chain(c)[i], d, 0)]
  <2>1. p \in [1 .. k -> Terms]
    BY <1>1
  <2>2. p \in Seq(Terms) /\ Len(p) = k
    <3> HIDE DEF p
    <3> QED
      BY <1>2, <2>1
  <2> QED
    BY <1>3, <2>2 DEF Pre
<1>4. CASE d \notin cfg.active
  BY <1>4, EmptySeq DEF Pre
<1> QED
  BY <1>3, <1>4

(* The next kernel of a chain adds the next contribution. *)
LEMMA PreGrows ==
  ASSUME round \in Nat, NEW c, NEW d \in Dirs, NEW k \in 1 .. Len(Chain(c))
  PROVE  /\ Pre(c, d, 0) = <<>>
         /\ d \notin cfg.active => Pre(c, d, k) = Pre(c, d, k - 1)
         /\ d \in cfg.active =>
              Append(Pre(c, d, k - 1), Term(Chain(c)[k], d, 0)) = Pre(c, d, k)
<1>1. k - 1 \in 0 .. Len(Chain(c)) /\ k \in 0 .. Len(Chain(c)) /\ 0 \in 0 .. Len(Chain(c))
      /\ k \in 1 .. k /\ k \in Nat
  BY ChainNames
<1>2. Pre(c, d, 0) = <<>>
  <2>1. Pre(c, d, 0) \in Seq(Terms) /\ Len(Pre(c, d, 0)) = 0
    BY <1>1, PreSeq
  <2> QED
    BY <2>1, EmptySeq
<1>3. CASE d \in cfg.active
  <2> DEFINE s == Pre(c, d, k - 1)
             t == Pre(c, d, k)
             x == Term(Chain(c)[k], d, 0)
  <2>1. /\ s \in Seq(Terms) /\ Len(s) = k - 1
        /\ \A i \in 1 .. k - 1 : s[i] = Term(Chain(c)[i], d, 0)
    BY <1>1, <1>3, PreSeq
  <2>2. /\ t \in Seq(Terms) /\ Len(t) = k
        /\ \A i \in 1 .. k : t[i] = Term(Chain(c)[i], d, 0)
    BY <1>1, <1>3, PreSeq
  <2>3. x \in Terms
    <3>1. t[k] = x
      BY <1>1, <2>2
    <3> HIDE DEF t, x
    <3> QED
      BY <1>1, <2>2, <3>1, ElementOfSeq
  <2> HIDE DEF s, t, x
  <2>4. /\ Append(s, x) \in Seq(Terms) /\ Len(Append(s, x)) = k
        /\ \A i \in 1 .. k - 1 : Append(s, x)[i] = s[i]
        /\ Append(s, x)[k] = x
    <3>1. Len(s) + 1 = k
      BY <1>1, <2>1
    <3> QED
      BY <2>1, <2>3, <3>1, AppendProperties
  <2>5. \A i \in 1 .. k : Append(s, x)[i] = t[i]
    <3>1. \A i \in 1 .. k : i \in 1 .. k - 1 \/ i = k
      BY <1>1
    <3> QED
      BY <2>1, <2>2, <2>4, <3>1 DEF x
  <2>6. Append(s, x) = t
    BY <2>2, <2>4, <2>5, SeqEqual
  <2> QED
    BY <1>2, <1>3, <2>6 DEF s, t, x
<1>4. CASE d \notin cfg.active
  BY <1>2, <1>4 DEF Pre
<1> QED
  BY <1>3, <1>4

(* The contributions of the derivatives before d. *)
LEMMA AccSeq ==
  ASSUME round \in Nat, NEW c
  PROVE  /\ \A d \in 0 .. 3 : Acc(c, d) \in Seq(Terms)
         /\ \A d \in 0 .. 2 : Full(c, d) \in Seq(Terms)
         /\ \A d \in 0 .. 2 : Acc(c, d) \o Full(c, d) = Acc(c, d + 1)
<1>1. \A d \in 0 .. 2 : Full(c, d) \in Seq(Terms)
  <2>1. Len(Chain(c)) \in 0 .. Len(Chain(c))
    BY ChainNames
  <2> QED
    BY <2>1, PreSeq DEF Full, Dirs
<1> DEFINE f0 == Full(c, 0)
           f1 == Full(c, 1)
           f2 == Full(c, 2)
<1>2. f0 \in Seq(Terms) /\ f1 \in Seq(Terms) /\ f2 \in Seq(Terms)
  BY <1>1
<1>3. Acc(c, 0) = <<>> /\ Acc(c, 1) = f0 /\ Acc(c, 2) = f0 \o f1 /\ Acc(c, 3) = (f0 \o f1) \o f2
  BY DEF Acc
<1> HIDE DEF f0, f1, f2
<1>4. f0 \o f1 \in Seq(Terms)
  BY <1>2, ConcatProperties
<1>5. (f0 \o f1) \o f2 \in Seq(Terms)
  BY <1>2, <1>4, ConcatProperties
<1>6. <<>> \in Seq(Terms)
  BY EmptySeq
<1>7. \A d \in 0 .. 3 : Acc(c, d) \in Seq(Terms)
  <2>1. \A d \in 0 .. 3 : d \in {0, 1, 2, 3}
    OBVIOUS
  <2> QED
    BY <1>2, <1>3, <1>4, <1>5, <1>6, <2>1
<1>8. \A d \in 0 .. 2 : Acc(c, d) \o Full(c, d) = Acc(c, d + 1)
  <2>1. <<>> \o f0 = f0
    BY <1>2, ConcatEmptySeq
  <2>2. \A d \in 0 .. 2 : d = 0 \/ d = 1 \/ d = 2
    OBVIOUS
  <2>3. 0 + 1 = 1 /\ 1 + 1 = 2 /\ 2 + 1 = 3
    OBVIOUS
  <2> QED
    BY <1>3, <2>1, <2>2, <2>3 DEF f0, f1, f2
<1> QED
  BY <1>1, <1>7, <1>8

(* The next kernel of derivative d adds to what those before it have left. *)
LEMMA AccGrows ==
  ASSUME round \in Nat, NEW c, NEW d \in 0 .. 2, NEW k \in 1 .. Len(Chain(c))
  PROVE  /\ Acc(c, d) \o Pre(c, d, 0) = Acc(c, d)
         /\ d \notin cfg.active => Acc(c, d) \o Pre(c, d, k) = Acc(c, d) \o Pre(c, d, k - 1)
         /\ d \in cfg.active =>
              Append(Acc(c, d) \o Pre(c, d, k - 1), Term(Chain(c)[k], d, 0))
                = Acc(c, d) \o Pre(c, d, k)
<1> DEFINE a == Acc(c, d)
           s == Pre(c, d, k - 1)
           x == Term(Chain(c)[k], d, 0)
<1>0. d \in Dirs /\ d \in 0 .. 3
  BY DEF Dirs
<1>1. a \in Seq(Terms)
  BY <1>0, AccSeq
<1>2. s \in Seq(Terms)
  <2>1. k - 1 \in 0 .. Len(Chain(c))
    BY ChainNames
  <2> QED
    BY <1>0, <2>1, PreSeq
<1>3. x \in Terms
  BY <1>0, TermTypes
<1>4. /\ Pre(c, d, 0) = <<>>
      /\ d \notin cfg.active => Pre(c, d, k) = s
      /\ d \in cfg.active => Append(s, x) = Pre(c, d, k)
  BY <1>0, PreGrows
<1> HIDE DEF a, s, x
<1>5. a \o <<>> = a
  BY <1>1, ConcatEmptySeq
<1>6. Append(a \o s, x) = a \o Append(s, x)
  <2>1. a \o s \in Seq(Terms)
    BY <1>1, <1>2, ConcatProperties
  <2>2. Append(a \o s, x) = (a \o s) \o <<x>>
    BY <1>3, <2>1, AppendIsConcat
  <2>3. Append(s, x) = s \o <<x>>
    BY <1>2, <1>3, AppendIsConcat
  <2>4. <<x>> \in Seq(Terms)
    BY <1>3
  <2>5. (a \o s) \o <<x>> = a \o (s \o <<x>>)
    BY <1>1, <1>2, <2>4, ConcatAssociative
  <2> QED
    BY <2>2, <2>3, <2>5
<1> QED
  BY <1>4, <1>5, <1>6 DEF a, s, x

(* Multiplying contributions by a coefficient. *)
LEMMA TimesSeq ==
  ASSUME NEW s \in Seq(Terms)
  PROVE  /\ Times(s) \in Seq(Terms) /\ Len(Times(s)) = Len(s)
         /\ \A i \in 1 .. Len(s) : Times(s)[i] = [s[i] EXCEPT !.factors = @ + 1]
<1>1. DOMAIN s = 1 .. Len(s) /\ Len(s) \in Nat /\ \A i \in 1 .. Len(s) : s[i] \in Terms
  BY LenProperties
<1>2. \A x \in Terms : [x EXCEPT !.factors = @ + 1] \in Terms
  BY DEF Terms
<1>3. Times(s) \in [1 .. Len(s) -> Terms]
  BY <1>1, <1>2 DEF Times
<1>4. \A i \in 1 .. Len(s) : Times(s)[i] = [s[i] EXCEPT !.factors = @ + 1]
  BY <1>1 DEF Times
<1>5. Times(s) \in Seq(Terms) /\ Len(Times(s)) = Len(s)
  BY <1>1, <1>3
<1> QED
  BY <1>4, <1>5

(* Multiplying a sum multiplies its parts.                                 *)
LEMMA TimesConcat ==
  ASSUME NEW s \in Seq(Terms), NEW t \in Seq(Terms)
  PROVE  Times(s \o t) = Times(s) \o Times(t)
<1> DEFINE l == Times(s \o t)
           r == Times(s) \o Times(t)
           m == Len(s)
           n == Len(t)
<1>1. m \in Nat /\ n \in Nat
  BY LenProperties
<1>2. /\ s \o t \in Seq(Terms) /\ Len(s \o t) = m + n
      /\ \A i \in 1 .. m + n : (s \o t)[i] = IF i <= m THEN s[i] ELSE t[i - m]
  BY ConcatProperties
<1>3. /\ Times(s) \in Seq(Terms) /\ Len(Times(s)) = m
      /\ \A i \in 1 .. m : Times(s)[i] = [s[i] EXCEPT !.factors = @ + 1]
  BY TimesSeq
<1>4. /\ Times(t) \in Seq(Terms) /\ Len(Times(t)) = n
      /\ \A i \in 1 .. n : Times(t)[i] = [t[i] EXCEPT !.factors = @ + 1]
  BY TimesSeq
<1>5. /\ l \in Seq(Terms) /\ Len(l) = m + n
      /\ \A i \in 1 .. m + n : l[i] = [(s \o t)[i] EXCEPT !.factors = @ + 1]
  BY <1>2, TimesSeq
<1>6. /\ r \in Seq(Terms) /\ Len(r) = m + n
      /\ \A i \in 1 .. m + n : r[i] = IF i <= m THEN Times(s)[i] ELSE Times(t)[i - m]
  BY <1>3, <1>4, ConcatProperties
<1> HIDE DEF l, r, m, n
<1>7. ASSUME NEW i \in 1 .. m + n PROVE l[i] = r[i]
  <2>1. CASE i <= m
    <3>1. i \in 1 .. m
      BY <1>1, <2>1
    <3>2. (s \o t)[i] = s[i] /\ r[i] = Times(s)[i]
      BY <1>2, <1>6, <2>1
    <3>3. l[i] = [s[i] EXCEPT !.factors = @ + 1]
      BY <1>5, <3>2
    <3> QED
      BY <1>3, <3>1, <3>2, <3>3
  <2>2. CASE ~(i <= m)
    <3>1. i - m \in 1 .. n
      BY <1>1, <2>2
    <3>2. (s \o t)[i] = t[i - m] /\ r[i] = Times(t)[i - m]
      BY <1>2, <1>6, <2>2
    <3>3. l[i] = [t[i - m] EXCEPT !.factors = @ + 1]
      BY <1>5, <3>2
    <3> QED
      BY <1>4, <3>1, <3>2, <3>3
  <2> QED
    BY <2>1, <2>2
<1>8. l = r
  BY <1>5, <1>6, <1>7, SeqEqual
<1> QED
  BY <1>8 DEF l, r

(* The derivatives along all directions, multiplied once in the systems,   *)
(* are what the right-hand side is made of.                                *)
LEMMA AllDirections ==
  ASSUME round \in Nat, NEW c
  PROVE  /\ Alone => EveryDirection(c) = Acc(c, 3)
         /\ ~Alone => EveryDirection(c) = Times(Acc(c, 3))
         /\ EveryDirection(c) \in Seq(Terms)
<1> DEFINE part(d) == IF d \in cfg.active THEN DerivativeOf(c, d) ELSE <<>>
<1>1. EveryDirection(c) = (part(0) \o part(1)) \o part(2)
  BY DEF EveryDirection
<1>2. DOMAIN Chain(c) = 1 .. Len(Chain(c)) /\ Len(Chain(c)) \in 0 .. Len(Chain(c))
  BY ChainNames
<1>3. Alone => \A d \in Dirs : part(d) = Full(c, d)
  BY <1>2 DEF DerivativeOf, Full, Pre
<1>4. ASSUME ~Alone, NEW d \in Dirs PROVE part(d) = Times(Full(c, d))
  <2>1. CASE d \in cfg.active
    <3> DEFINE p == Full(c, d)
               n == Len(Chain(c))
    <3>1. /\ p \in Seq(Terms) /\ Len(p) = n
          /\ \A i \in 1 .. n : p[i] = Term(Chain(c)[i], d, 0)
      BY <1>2, <2>1, PreSeq DEF Full
    <3>2. DOMAIN p = 1 .. n
      BY <3>1, LenProperties
    <3> HIDE DEF p
    <3>3. Times(p) = [i \in 1 .. n |-> [p[i] EXCEPT !.factors = @ + 1]]
      BY <3>2 DEF Times
    <3>4. \A i \in 1 .. n : [p[i] EXCEPT !.factors = @ + 1] = Term(Chain(c)[i], d, 1)
      <4>1. \A k : [Term(k, d, 0) EXCEPT !.factors = @ + 1] = Term(k, d, 1)
        BY DEF Term
      <4> QED
        BY <3>1, <4>1
    <3>5. part(d) = [i \in 1 .. n |-> Term(Chain(c)[i], d, 1)]
      BY <1>2, <1>4, <2>1 DEF DerivativeOf
    <3>6. part(d) = Times(p)
      BY <3>3, <3>4, <3>5
    <3> QED
      BY <3>6 DEF p
  <2>2. CASE d \notin cfg.active
    <3>1. Full(c, d) = <<>>
      BY <2>2 DEF Full, Pre
    <3>2. Times(<<>>) = <<>>
      <4>1. <<>> \in Seq(Terms) /\ Len(<<>>) = 0
        BY EmptySeq
      <4>2. Times(<<>>) \in Seq(Terms) /\ Len(Times(<<>>)) = 0
        BY <4>1, TimesSeq
      <4> QED
        BY <4>2, EmptySeq
    <3> QED
      BY <2>2, <3>1, <3>2
  <2> QED
    BY <2>1, <2>2
<1> HIDE DEF part
<1> DEFINE f0 == Full(c, 0)
           f1 == Full(c, 1)
           f2 == Full(c, 2)
<1>5. f0 \in Seq(Terms) /\ f1 \in Seq(Terms) /\ f2 \in Seq(Terms) /\ {0, 1, 2} \subseteq Dirs
  BY AccSeq DEF Dirs
<1>6. Acc(c, 3) = (f0 \o f1) \o f2
  BY DEF Acc
<1>7. Alone => part(0) = f0 /\ part(1) = f1 /\ part(2) = f2
  BY <1>3, <1>5
<1>8. ~Alone => part(0) = Times(f0) /\ part(1) = Times(f1) /\ part(2) = Times(f2)
  BY <1>4, <1>5
<1> HIDE DEF f0, f1, f2
<1>9. f0 \o f1 \in Seq(Terms)
  BY <1>5, ConcatProperties
<1>10. Times((f0 \o f1) \o f2) = (Times(f0) \o Times(f1)) \o Times(f2)
  <2>1. Times((f0 \o f1) \o f2) = Times(f0 \o f1) \o Times(f2)
    BY <1>5, <1>9, TimesConcat
  <2>2. Times(f0 \o f1) = Times(f0) \o Times(f1)
    BY <1>5, TimesConcat
  <2> QED
    BY <2>1, <2>2
<1>11. Alone => EveryDirection(c) = Acc(c, 3)
  BY <1>1, <1>6, <1>7
<1>12. ~Alone => EveryDirection(c) = Times(Acc(c, 3))
  BY <1>1, <1>6, <1>8, <1>10
<1>13. Acc(c, 3) \in Seq(Terms)
  BY <1>5, <1>6, <1>9, ConcatProperties
<1> QED
  BY <1>11, <1>12, <1>13, TimesSeq

-----------------------------------------------------------------------------
(* What the kernel of a derivative adds to, and what it leaves. *)
AddsTo(c, i, a) == IF c = "D" /\ i = 1 /\ Operation = "eq" THEN <<>> ELSE a

(* A kernel of a derivative appends its contribution; only O with eq first *)
(* clears the rows it writes.                                              *)
LEMMA KernelEffect ==
  ASSUME NEW c, NEW d, NEW i \in 1 .. Len(Chain(c)), NEW a, NEW b, cfg \in Configs
  PROVE  Effect(K(d, i, c), [free |-> a, fixed |-> b])
           = [free |-> Append(AddsTo(c, i, a), Term(Chain(c)[i], d, 0)), fixed |-> b]
<1> DEFINE k == Chain(c)[i]
           x == [free |-> a, fixed |-> b]
<1>1. k \in {"Bf", "Br", "O", "B", "N"} /\ (k = "O" <=> c = "D" /\ i = 1)
  BY ChainNames
<1>2. Operation \in {"eq", "plus_eq"}
  BY RhsGraphAssumption DEF Operation
<1>3. K(d, i, c)[1] = k /\ K(d, i, c)[2] = d /\ K(d, i, c)[3] = c
  BY DEF K
<1> HIDE DEF k
<1>4. k = "O" /\ Operation = "eq" =>
        Effect(K(d, i, c), x) = [x EXCEPT !.free = Append(<<>>, Term(k, d, 0))]
  <2>1. \A t : Append(<<>>, t) = <<t>>
    OBVIOUS
  <2> QED
    BY <1>3, <2>1 DEF Effect
<1>5. ~(k = "O" /\ Operation = "eq") => Effect(K(d, i, c), x) = [x EXCEPT !.free = Append(x.free, Term(k, d, 0))]
  BY <1>1, <1>2, <1>3 DEF Effect
<1> QED
  BY <1>1, <1>4, <1>5 DEF k, AddsTo

(* A node leaves the buffers of other components, and what of the graph is *)
(* done there, as they are; so does an idle one on its own.                *)
LEMMA Elsewhere ==
  ASSUME DOMAIN mem = Buffers, NEW n \in Nodes, Complete(n), NEW b \in Buffers
  PROVE  /\ cfg' = cfg /\ round' = round /\ host' = host /\ done' = done \cup {n}
         /\ n \in running /\ DOMAIN mem' = Buffers
         /\ b \notin Writes(n) => mem'[b] = mem[b]
         /\ b \in Writes(n) => mem'[b] = Effect(n, mem[b])
BY DEF Complete

(* A kernel writes its own buffer only, a derivative without rows none.    *)
LEMMA WritesAre ==
  /\ \A d, c : Writes(<<"zero", d, c>>) = {<<Target(d), c>>}
  /\ \A k \in {"scale", "source", "fill", "dot"}, c \in cfg.comps :
       Writes(<<k, 0, c>>) = {<<"du", c>>}
  /\ \A d, c : \A i \in 1 .. Len(Chain(c)) :
       Writes(K(d, i, c)) = IF d \in cfg.active THEN {<<Target(d), c>>} ELSE {}
<1>1. \A d, c : Writes(<<"zero", d, c>>) = {<<Target(d), c>>}
  BY DEF Writes, Idle
<1>2. \A k \in {"scale", "source", "fill", "dot"}, c \in cfg.comps :
        Writes(<<k, 0, c>>) = {<<"du", c>>}
  BY DEF Writes, Idle
<1>3. ASSUME NEW d, NEW c, NEW i \in 1 .. Len(Chain(c))
      PROVE  Writes(K(d, i, c)) = IF d \in cfg.active THEN {<<Target(d), c>>} ELSE {}
  <2>1. Chain(c)[i] \in {"Bf", "Br", "O", "B", "N"}
    BY ChainNames
  <2> HIDE DEF Chain
  <2>2. K(d, i, c)[1] = Chain(c)[i] /\ K(d, i, c)[2] = d /\ K(d, i, c)[3] = c
    BY DEF K
  <2>3. Idle(K(d, i, c)) <=> d \notin cfg.active
    BY <2>1, <2>2 DEF Idle
  <2> QED
    BY <2>1, <2>2, <2>3 DEF Writes
<1> QED
  BY <1>1, <1>2, <1>3

(* When a kernel of a derivative has begun, the one before it is done and  *)
(* so is what the derivative is chained to.                                *)
LEMMA KernelAfter ==
  ASSUME GraphInv, NEW d \in Directions, NEW c \in cfg.comps, NEW i \in 1 .. Len(Chain(c)),
         K(d, i, c) \in Begun
  PROVE  Parents(d) \subseteq done /\ (i > 1 => K(d, i - 1, c) \in done)
<1>1. /\ \A j \in 1 .. i - 1 : K(d, j, c) \in done
      /\ Parents(d) \subseteq done
  BY ChainOrder DEF K
<1>2. i > 1 => i - 1 \in 1 .. i - 1
  BY ChainNames
<1> QED
  BY <1>1, <1>2

(* With a laplacian the nodes of a component are done one after another.   *)
LEMMA LaplacianOrder ==
  ASSUME GraphInv, HasLaplacian, NEW c \in cfg.comps
  PROVE  /\ \A d \in 0 .. 2, i \in 1 .. Len(Chain(c)) : K(d, i, c) \in Begun =>
              /\ <<"zero", 0, c>> \in done
              /\ i > 1 => K(d, i - 1, c) \in done
              /\ i = 1 /\ d > 0 => K(d - 1, Len(Chain(c)), c) \in done
         /\ IsHeat =>
              /\ <<"scale", 0, c>> \in Begun =>
                   /\ <<"zero", 0, c>> \in done
                   /\ \A d \in 0 .. 2, i \in 1 .. Len(Chain(c)) : K(d, i, c) \in done
              /\ <<"source", 0, c>> \in Begun => <<"scale", 0, c>> \in done
              /\ c \in cfg.dirichlet /\ <<"fill", 0, c>> \in Begun => <<"source", 0, c>> \in done
<1> DEFINE m == Len(Chain(c))
           All(d) == \A i \in 1 .. m : K(d, i, c) \in done
<1>1. cfg.system # "derivative" /\ Directions = 0 .. 2
  BY Problem DEF GraphInv, HasLaplacian, Dirs
<1>2. Parents(0) = Zeros(0) /\ Parents(1) = Leaves(0) /\ Parents(2) = Leaves(1)
  <2>1. \A d \in Int : Parents(d) = IF d > 0 THEN Leaves(d - 1) ELSE Zeros(d)
    BY <1>1 DEF Parents
  <2>2. 1 - 1 = 0 /\ 2 - 1 = 1
    OBVIOUS
  <2>3. Parents(1) = Leaves(1 - 1) /\ Parents(2) = Leaves(2 - 1) /\ Parents(0) = Zeros(0)
    BY <2>1
  <2> QED
    BY <2>2, <2>3
<1>3. \A d \in {0, 1, 2} : Leaves(d) \subseteq done => All(d) /\ Parents(d) \subseteq done
  BY <1>1, ChainOrder DEF Kernels, K
<1>4. \A d \in {0, 1, 2} : K(d, m, c) \in Leaves(d)
  BY ChainNames DEF Leaves, Last, K
<1>5. <<"zero", 0, c>> \in Zeros(0)
  BY DEF Zeros
<1> HIDE DEF m, All
<1>6. ASSUME NEW d \in 0 .. 2, NEW i \in 1 .. Len(Chain(c)), K(d, i, c) \in Begun
      PROVE  /\ <<"zero", 0, c>> \in done
             /\ i > 1 => K(d, i - 1, c) \in done
             /\ i = 1 /\ d > 0 => K(d - 1, Len(Chain(c)), c) \in done
  <2>1. Parents(d) \subseteq done /\ (i > 1 => K(d, i - 1, c) \in done)
    BY <1>1, <1>6, KernelAfter
  <2>2. d = 0 \/ d = 1 \/ d = 2
    OBVIOUS
  <2>3. <<"zero", 0, c>> \in done
    BY <1>2, <1>3, <1>5, <2>1, <2>2
  <2>4. d > 0 => K(d - 1, Len(Chain(c)), c) \in done
    <3>1. 1 - 1 = 0 /\ 2 - 1 = 1 /\ ~(0 > 0)
      OBVIOUS
    <3> QED
      BY <1>2, <1>4, <2>1, <2>2, <3>1 DEF m
  <2> QED
    BY <2>1, <2>3, <2>4
<1>7. ASSUME IsHeat
      PROVE  /\ <<"scale", 0, c>> \in Begun =>
                  /\ <<"zero", 0, c>> \in done
                  /\ \A d \in 0 .. 2, i \in 1 .. Len(Chain(c)) : K(d, i, c) \in done
             /\ <<"source", 0, c>> \in Begun => <<"scale", 0, c>> \in done
             /\ c \in cfg.dirichlet /\ <<"fill", 0, c>> \in Begun => <<"source", 0, c>> \in done
  <2>1. \A x, y : <<x, y>> \in Edges /\ y \in Begun => x \in done
    BY DEF GraphInv, Begun, Predecessors
  <2>2. <<"source", 0, c>> \in Begun => <<"scale", 0, c>> \in done
    BY <1>7, <2>1, EdgesAre
  <2>3. c \in cfg.dirichlet /\ <<"fill", 0, c>> \in Begun => <<"source", 0, c>> \in done
    BY <1>7, <2>1, EdgesAre
  <2>4. ASSUME <<"scale", 0, c>> \in Begun
        PROVE  /\ <<"zero", 0, c>> \in done
               /\ \A d \in 0 .. 2, i \in 1 .. Len(Chain(c)) : K(d, i, c) \in done
    <3>1. Leaves(2) \subseteq done
      BY <1>7, <2>1, <2>4, EdgesAre
    <3>2. All(0) /\ All(1) /\ All(2) /\ Zeros(0) \subseteq done
      BY <1>2, <1>3, <3>1
    <3>3. \A d \in 0 .. 2 : d = 0 \/ d = 1 \/ d = 2
      OBVIOUS
    <3> QED
      BY <1>5, <3>2, <3>3 DEF All, m
  <2> QED
    BY <2>2, <2>3, <2>4
<1> QED
  BY <1>6, <1>7

(* What a node of a graph with a laplacian is, by name.                    *)
LEMMA LaplacianNodes ==
  ASSUME cfg \in Configs, HasLaplacian, NEW n \in Nodes
  PROVE  \E c \in cfg.comps :
           \/ n = <<"zero", 0, c>>
           \/ \E d \in 0 .. 2, i \in 1 .. Len(Chain(c)) : n = K(d, i, c)
           \/ IsHeat /\ n = <<"scale", 0, c>>
           \/ IsHeat /\ n = <<"source", 0, c>>
           \/ IsHeat /\ n = <<"fill", 0, c>> /\ c \in cfg.dirichlet
<1>1. cfg.system # "derivative" /\ cfg.system # "scalar wave" /\ Directions = 0 .. 2
  BY Problem DEF HasLaplacian, Dirs
<1>2. \/ IsZero(n)
      \/ \E d \in 0 .. 2, c \in cfg.comps : n \in Kernels(d, c)
      \/ IsHeat /\ IsTail(n)
  BY <1>1, NodeKinds
<1> QED
  BY <1>2 DEF IsZero, IsTail, Kernels, K

(* Nodes have names of their own. *)
LEMMA NamesApart ==
  ASSUME NEW c, NEW d, NEW i \in 1 .. Len(Chain(c))
  PROVE  /\ K(d, i, c)[1] \notin {"zero", "scale", "source", "fill", "dot"}
         /\ K(d, i, c)[3] = c
         /\ \A e : \A j \in 1 .. Len(Chain(c)) : K(d, i, c) = K(e, j, c) => d = e /\ i = j
BY ChainNames DEF K

-----------------------------------------------------------------------------
(* What a kernel on another component does is not seen. *)
LEMMA NotMine ==
  ASSUME MemInv, GraphInv, NEW n \in Nodes, Complete(n), NEW c \in cfg.comps, n[3] # c
  PROVE  /\ \A k, d : <<k, d, c>> \in done' <=> <<k, d, c>> \in done
         /\ \A d, i : K(d, i, c) \in done' <=> K(d, i, c) \in done
         /\ \A x \in {"du"} \cup {Scratch[d] : d \in Dirs} : mem'[<<x, c>>] = mem[<<x, c>>]
<1>1. done' = done \cup {n}
  BY DEF Complete
<1>2. \A k, d : <<k, d, c>> # n
  OBVIOUS
<1>3. \A k, d : <<k, d, c>> \in done' <=> <<k, d, c>> \in done
  BY <1>1, <1>2
<1>4. \A x \in {"du"} \cup {Scratch[d] : d \in Dirs} : mem'[<<x, c>>] = mem[<<x, c>>]
  <2> TAKE x \in {"du"} \cup {Scratch[d] : d \in Dirs}
  <2>1. <<x, c>> \in Buffers
    BY DEF Buffers
  <2>2. <<x, c>> \notin Writes(n)
    BY DEF Writes
  <2> QED
    BY <2>1, <2>2, Elsewhere DEF MemInv
<1> QED
  BY <1>3, <1>4 DEF K

(* With a laplacian every node leaves what its place in the order says. *)
LEMMA LaplacianStep ==
  ASSUME MemInv, GraphInv, HasLaplacian, NEW n \in Nodes, Complete(n), NEW c \in cfg.comps
  PROVE  (LaplacianMem(c) /\ HeatMem(c))'
<1> DEFINE b == <<"du", c>>
           m == Len(Chain(c))
<1>1. /\ cfg \in Configs /\ round \in Nat /\ cfg' = cfg /\ round' = round
      /\ done' = done \cup {n} /\ n \notin done /\ n \in Begun /\ done \subseteq Begun
      /\ b \in Buffers /\ m \in {2, 3}
  <2>1. b \in Buffers
    BY DEF Buffers
  <2>2. m \in {2, 3}
    BY ChainNames
  <2>3. n \notin done /\ n \in Begun /\ done \subseteq Begun
    BY DEF GraphInv, Begun, Complete
  <2> QED
    BY <2>1, <2>2, <2>3 DEF GraphInv, Complete
<1>0. m \in Nat /\ m \in 1 .. m /\ m \in 0 .. m /\ 1 \in 1 .. m /\ 0 \in 0 .. m
  <2>1. \A k \in {2, 3} : k \in Nat /\ k \in 1 .. k /\ k \in 0 .. k /\ 1 \in 1 .. k /\ 0 \in 0 .. k
    OBVIOUS
  <2> QED
    BY <2>1, ChainNames
<1>2. /\ b \notin Writes(n) => mem'[b] = mem[b]
      /\ b \in Writes(n) => mem'[b] = Effect(n, mem[b])
  BY <1>1, Elsewhere DEF MemInv
<1>3. LaplacianMem(c) /\ HeatMem(c)
  BY DEF MemInv, MemOf
<1>4. /\ Chain(c)' = Chain(c) /\ EveryDirection(c)' = EveryDirection(c)
      /\ \A d, k : Pre(c, d, k)' = Pre(c, d, k)
      /\ \A d : Acc(c, d)' = Acc(c, d)
      /\ After' = After /\ IsHeat' = IsHeat
  BY <1>1, SameTerms
<1>5. \A d : Target(d) = "du"
  BY DEF Target
<1>6. \A d, i : K(d, i, c)' = K(d, i, c)
  BY <1>4 DEF K
<1>7. CASE n[3] # c
  <2>1. /\ \A k, d : <<k, d, c>> \in done' <=> <<k, d, c>> \in done
        /\ \A d, i : K(d, i, c) \in done' <=> K(d, i, c) \in done
        /\ mem'[b] = mem[b]
    BY <1>7, NotMine
  <2>2. \A d, k : Stage(c, d, k)' <=> Stage(c, d, k)
    BY <1>4, <1>6, <2>1 DEF Stage
  <2>3. Scaled(c)' = Scaled(c) /\ Sourced(c)' = Sourced(c)
    BY <1>4, <2>1 DEF Scaled, Sourced
  <2>4. LaplacianMem(c)'
    BY <1>3, <1>4, <2>1, <2>2, <2>3 DEF LaplacianMem
  <2>5. HeatMem(c)'
    BY <1>1, <1>3, <1>4, <2>1, <2>3 DEF HeatMem
  <2> QED
    BY <2>4, <2>5
<1>8. CASE n = <<"zero", 0, c>>
  <2>1. mem'[b] = Empty
    <3>1. b \in Writes(n)
      BY <1>5, <1>8, WritesAre
    <3> QED
      BY <1>2, <1>8, <3>1 DEF Effect
  <2>2. \A d \in 0 .. 2, i \in 1 .. m : K(d, i, c) \notin done'
    <3> TAKE d \in 0 .. 2, i \in 1 .. m
    <3>1. K(d, i, c) \notin done
      BY <1>1, <1>8, LaplacianOrder
    <3>2. K(d, i, c) # n
      BY <1>8, NamesApart
    <3> QED
      BY <1>1, <3>1, <3>2
  <2>3. ~Scaled(c)'
    <3>1. ~Scaled(c)
      BY <1>1, <1>8, LaplacianOrder DEF Scaled
    <3> QED
      BY <1>1, <1>4, <1>8, <3>1 DEF Scaled
  <2>4. Stage(c, 0, 0)'
    BY <1>4, <1>6, <2>2 DEF Stage
  <2>5. Acc(c, 0) \o Pre(c, 0, 0) = <<>>
    <3>1. 0 \in 0 .. 2 /\ 1 \in 1 .. m
      BY <1>0
    <3> QED
      BY <1>1, <3>1, AccGrows DEF Acc
  <2>6. mem'[b] = Sum(Acc(c, 0)' \o Pre(c, 0, 0)')
    BY <1>4, <2>1, <2>5 DEF Sum, Empty
  <2>7. 0 \in 0 .. 2 /\ 0 \in 0 .. m
    BY <1>1
  <2> QED
    BY <1>4, <2>3, <2>4, <2>6, <2>7 DEF LaplacianMem, HeatMem
<1>9. ASSUME NEW e \in 0 .. 2, NEW i \in 1 .. m, n = K(e, i, c)
      PROVE  (LaplacianMem(c) /\ HeatMem(c))'
  <2>1. /\ <<"zero", 0, c>> \in done
        /\ i > 1 => K(e, i - 1, c) \in done
        /\ i = 1 /\ e > 0 => K(e - 1, m, c) \in done
    BY <1>1, <1>9, LaplacianOrder
  <2>2. ~Scaled(c)
    <3>1. Scaled(c) => K(e, i, c) \in done
      BY <1>1, LaplacianOrder DEF Scaled
    <3> QED
      BY <1>1, <1>9, <3>1
  <2>3. PICK d \in 0 .. 2, k \in 0 .. m :
          Stage(c, d, k) /\ mem[b] = Sum(Acc(c, d) \o Pre(c, d, k))
    BY <1>3, <2>1, <2>2 DEF LaplacianMem
  <2>4. (e = d /\ k = i - 1) \/ (e = d + 1 /\ k = m /\ i = 1)
    <3>1. \A f \in 0 .. 2, j \in 1 .. m : K(f, j, c) \in done <=> f < d \/ (f = d /\ j <= k)
      BY <2>3 DEF Stage
    <3>2. ~(e < d \/ (e = d /\ i <= k))
      BY <1>1, <1>9, <3>1
    <3>3. i > 1 => e < d \/ (e = d /\ i - 1 <= k)
      <4>1. i > 1 => i - 1 \in 1 .. m
        BY <1>1
      <4> QED
        BY <2>1, <3>1, <4>1
    <3>4. i = 1 /\ e > 0 => e - 1 < d \/ (e - 1 = d /\ m <= k)
      <4>1. m \in 1 .. m /\ (e > 0 => e - 1 \in 0 .. 2)
        BY <1>1
      <4> QED
        BY <2>1, <3>1, <4>1
    <3>5. i = 1 \/ i > 1
      BY <1>1
    <3> QED
      BY <1>1, <3>2, <3>3, <3>4, <3>5
  <2>5. mem[b] = Sum(Acc(c, e) \o Pre(c, e, i - 1))
    <3>1. CASE e = d /\ k = i - 1
      BY <2>3, <3>1
    <3>2. CASE e = d + 1 /\ k = m /\ i = 1
      <4>1. Acc(c, d) \o Pre(c, d, k) = Acc(c, e)
        BY <1>1, <3>2, AccSeq DEF Full
      <4>2. Acc(c, e) \o Pre(c, e, 0) = Acc(c, e)
        BY <1>1, AccGrows
      <4>3. i - 1 = 0
        BY <3>2
      <4> QED
        BY <2>3, <4>1, <4>2, <4>3
    <3> QED
      BY <2>4, <3>1, <3>2
  <2>6. mem'[b] = Sum(Acc(c, e) \o Pre(c, e, i))
    <3>1. CASE e \in cfg.active
      <4>1. b \in Writes(n)
        BY <1>5, <1>9, <3>1, WritesAre
      <4>2. Operation = "plus_eq"
        BY DEF Operation
      <4>3. Effect(n, mem[b]) = Sum(Append(Acc(c, e) \o Pre(c, e, i - 1), Term(Chain(c)[i], e, 0)))
        <5>1. \A a : AddsTo(c, i, a) = a
          BY <4>2 DEF AddsTo
        <5> DEFINE a == Acc(c, e) \o Pre(c, e, i - 1)
        <5>2. mem[b] = [free |-> a, fixed |-> <<>>]
          BY <2>5 DEF Sum
        <5> HIDE DEF a
        <5>3. Effect(K(e, i, c), [free |-> a, fixed |-> <<>>])
                = [free |-> Append(AddsTo(c, i, a), Term(Chain(c)[i], e, 0)), fixed |-> <<>>]
          <6>1. cfg \in Configs /\ i \in 1 .. Len(Chain(c))
            BY <1>1
          <6> HIDE DEF m
          <6> QED
            BY <6>1, KernelEffect
        <5>4. Effect(n, mem[b]) = Sum(Append(a, Term(Chain(c)[i], e, 0)))
          BY <1>9, <5>1, <5>2, <5>3 DEF Sum
        <5> QED
          BY <5>4 DEF a
      <4> QED
        BY <1>1, <1>2, <3>1, <4>1, <4>3, AccGrows
    <3>2. CASE e \notin cfg.active
      <4>1. b \notin Writes(n)
        BY <1>9, <3>2, WritesAre
      <4> QED
        BY <1>1, <1>2, <2>5, <3>2, <4>1, AccGrows
    <3> QED
      BY <3>1, <3>2
  <2>7. Stage(c, e, i)'
    <3>1. \A f \in 0 .. 2, j \in 1 .. m : K(f, j, c) \in done <=> f < d \/ (f = d /\ j <= k)
      BY <2>3 DEF Stage
    <3>2. ASSUME NEW f \in 0 .. 2, NEW j \in 1 .. m
          PROVE  K(f, j, c) \in done' <=> f < e \/ (f = e /\ j <= i)
      <4>1. K(f, j, c) = n <=> f = e /\ j = i
        BY <1>9, NamesApart
      <4>2. K(f, j, c) \in done' <=> f < d \/ (f = d /\ j <= k) \/ (f = e /\ j = i)
        BY <1>1, <3>1, <4>1
      <4>3. m \in Nat
        BY <1>1
      <4> HIDE DEF m
      <4> QED
        BY <2>4, <4>2, <4>3
    <3> QED
      BY <1>4, <1>6, <3>2 DEF Stage
  <2>8. ~Scaled(c)'
    <3>1. n # <<"scale", 0, c>>
      BY <1>9, NamesApart
    <3> QED
      BY <1>1, <1>4, <2>2, <3>1 DEF Scaled
  <2>9. i \in 0 .. m
    BY <1>1
  <2>10. mem'[b] = Sum(Acc(c, e)' \o Pre(c, e, i)')
    BY <1>4, <2>6
  <2> QED
    BY <1>4, <2>7, <2>8, <2>9, <2>10 DEF LaplacianMem, HeatMem
<1>10. CASE IsHeat /\ n = <<"scale", 0, c>>
  <2>1. /\ <<"zero", 0, c>> \in done
        /\ \A d \in 0 .. 2, i \in 1 .. m : K(d, i, c) \in done
        /\ ~Scaled(c) /\ ~Sourced(c)
    BY <1>1, <1>10, LaplacianOrder DEF Scaled, Sourced
  <2>2. PICK d \in 0 .. 2, k \in 0 .. m :
          Stage(c, d, k) /\ mem[b] = Sum(Acc(c, d) \o Pre(c, d, k))
    BY <1>3, <2>1 DEF LaplacianMem
  <2>3. d = 2 /\ k = m
    <3>1. 2 \in 0 .. 2 /\ m \in 1 .. m
      BY <1>0
    <3>2. 2 < d \/ (2 = d /\ m <= k)
      BY <2>1, <2>2, <3>1 DEF Stage
    <3> QED
      BY <1>1, <3>2
  <2>4. mem[b] = Sum(Acc(c, 3))
    <3>1. 2 \in 0 .. 2 /\ 2 + 1 = 3
      OBVIOUS
    <3>2. Acc(c, 2) \o Full(c, 2) = Acc(c, 3)
      BY <1>1, <3>1, AccSeq
    <3> QED
      BY <2>2, <2>3, <3>2 DEF Full
  <2>5. mem'[b] = [free |-> Times(Acc(c, 3)), fixed |-> Times(<<>>)]
    <3>1. b \in Writes(n)
      BY <1>10, WritesAre
    <3> QED
      BY <1>2, <1>10, <2>4, <3>1 DEF Effect, Sum
  <2>6. Times(<<>>) = <<>>
    <3>1. <<>> \in Seq(Terms) /\ Len(<<>>) = 0
      BY EmptySeq
    <3>2. Times(<<>>) \in Seq(Terms) /\ Len(Times(<<>>)) = 0
      BY <3>1, TimesSeq
    <3> QED
      BY <3>2, EmptySeq
  <2>7. Times(Acc(c, 3)) = EveryDirection(c)
    BY <1>1, <1>10, AllDirections DEF IsHeat, Alone
  <2>8. Scaled(c)' /\ ~Sourced(c)'
    BY <1>1, <1>4, <1>10, <2>1 DEF Scaled, Sourced
  <2> QED
    BY <1>4, <2>5, <2>6, <2>7, <2>8 DEF LaplacianMem, HeatMem
<1>11. CASE IsHeat /\ n = <<"source", 0, c>>
  <2> DEFINE x == Term("source", 0, 0)
             kept == c = "D" /\ c \in cfg.dirichlet
  <2>1. Scaled(c) /\ ~Sourced(c)
    BY <1>1, <1>11, LaplacianOrder DEF Scaled, Sourced
  <2>2. mem[b] = [free |-> EveryDirection(c), fixed |-> <<>>]
    BY <1>3, <2>1 DEF HeatMem
  <2>3. mem'[b] = [free |-> Append(EveryDirection(c), x),
                   fixed |-> IF kept THEN Append(<<>>, x) ELSE <<>>]
    <3>1. b \in Writes(n)
      BY <1>11, WritesAre
    <3>2. n[1] = "source" /\ n[2] = 0 /\ n[3] = c
      BY <1>11
    <3> QED
      BY <1>2, <2>2, <3>1, <3>2 DEF Effect
  <2>4. Append(EveryDirection(c), x) = EveryDirection(c) \o <<x>> /\ Append(<<>>, x) = <<x>>
    <3>1. EveryDirection(c) \in Seq(Terms) /\ x \in Terms
      BY <1>1, AllDirections, TermTypes DEF Term, Terms
    <3> QED
      BY <3>1, AppendIsConcat
  <2>5. After = <<x>>
    BY <1>11 DEF After
  <2>6. Scaled(c)' /\ Sourced(c)'
    BY <1>1, <1>4, <1>11, <2>1 DEF Scaled, Sourced
  <2>7. c \in cfg.dirichlet => <<"fill", 0, c>> \notin done'
    BY <1>1, <1>11, LaplacianOrder
  <2>8. mem'[b] = [free |-> EveryDirection(c)' \o After', fixed |-> IF kept THEN After' ELSE <<>>]
    BY <1>4, <2>3, <2>4, <2>5
  <2> HIDE DEF x
  <2>9. kept' = kept
    BY <1>1
  <2> QED
    BY <1>1, <2>6, <2>7, <2>8, <2>9 DEF LaplacianMem, HeatMem
<1>12. CASE IsHeat /\ n = <<"fill", 0, c>> /\ c \in cfg.dirichlet
  <2>1. Sourced(c) /\ Scaled(c)
    BY <1>1, <1>12, LaplacianOrder DEF Scaled, Sourced
  <2>2. \E f : mem[b] = [free |-> EveryDirection(c) \o After, fixed |-> f]
    BY <1>3, <2>1 DEF HeatMem
  <2>4. mem'[b] = [free |-> EveryDirection(c) \o After, fixed |-> <<>>]
    <3>1. b \in Writes(n)
      BY <1>12, WritesAre
    <3>2. n[1] = "fill"
      BY <1>12
    <3>3. mem'[b] = [mem[b] EXCEPT !.fixed = <<>>]
      BY <1>2, <3>1, <3>2 DEF Effect
    <3>4. \A g, f : [[free |-> g, fixed |-> f] EXCEPT !.fixed = <<>>] = [free |-> g, fixed |-> <<>>]
      OBVIOUS
    <3> QED
      BY <2>2, <3>3, <3>4
  <2>5. Scaled(c)' /\ Sourced(c)' /\ <<"fill", 0, c>> \in done'
    BY <1>1, <1>4, <1>12, <2>1 DEF Scaled, Sourced
  <2> QED
    BY <1>4, <2>4, <2>5 DEF LaplacianMem, HeatMem
<1> QED
  <2>1. PICK a \in cfg.comps :
          \/ n = <<"zero", 0, a>>
          \/ \E d \in 0 .. 2, i \in 1 .. Len(Chain(a)) : n = K(d, i, a)
          \/ IsHeat /\ n = <<"scale", 0, a>>
          \/ IsHeat /\ n = <<"source", 0, a>>
          \/ IsHeat /\ n = <<"fill", 0, a>> /\ a \in cfg.dirichlet
    BY <1>1, LaplacianNodes
  <2>2. n[3] = a
    BY <2>1 DEF K
  <2> QED
    BY <1>7, <1>8, <1>9, <1>10, <1>11, <1>12, <2>1, <2>2

-----------------------------------------------------------------------------
(* The configuration of the system scalar_wave.                            *)
IsWave == cfg.system = "scalar wave"

(* In a gradient the three derivatives are chains of their own, and the    *)
(* product comes after all of them.                                        *)
LEMMA WaveOrder ==
  ASSUME GraphInv, IsWave, NEW c \in cfg.comps
  PROVE  /\ \A d \in Dirs, i \in 1 .. Len(Chain(c)) : K(d, i, c) \in Begun =>
              <<"zero", d, c>> \in done /\ (i > 1 => K(d, i - 1, c) \in done)
         /\ <<"dot", 0, c>> \in Begun => \A d \in Dirs :
              /\ <<"zero", d, c>> \in done
              /\ \A i \in 1 .. Len(Chain(c)) : K(d, i, c) \in done
<1>1. Directions = Dirs /\ \A d \in Dirs : Parents(d) = Zeros(d)
  BY Problem DEF GraphInv, Parents, HasLaplacian, IsWave
<1>2. \A d \in Dirs : <<"zero", d, c>> \in Zeros(d)
  BY DEF Zeros
<1>3. \A d \in Dirs, i \in 1 .. Len(Chain(c)) : K(d, i, c) \in Begun =>
        <<"zero", d, c>> \in done /\ (i > 1 => K(d, i - 1, c) \in done)
  BY <1>1, <1>2, KernelAfter
<1>4. ASSUME <<"dot", 0, c>> \in Begun, NEW d \in Dirs
      PROVE  /\ <<"zero", d, c>> \in done
             /\ \A i \in 1 .. Len(Chain(c)) : K(d, i, c) \in done
  <2>1. Leaves(d) \subseteq done
    <3>1. \A x, y : <<x, y>> \in Edges /\ y \in Begun => x \in done
      BY DEF GraphInv, Begun, Predecessors
    <3>2. \A x \in Leaves(d) : <<x, <<"dot", 0, c>>>> \in Edges
      BY EdgesAre DEF IsWave
    <3> QED
      BY <1>4, <3>1, <3>2
  <2>2. Kernels(d, c) \subseteq done /\ Parents(d) \subseteq done
    BY <1>1, <2>1, ChainOrder
  <2> QED
    BY <1>1, <1>2, <2>2 DEF Kernels, K
<1> QED
  BY <1>3, <1>4

(* The kernels of scalar_wave's graph.                                     *)
LEMMA WaveNodes ==
  ASSUME cfg \in Configs, IsWave, NEW n \in Nodes
  PROVE  \E c \in cfg.comps :
           \/ \E d \in Dirs : n = <<"zero", d, c>>
           \/ \E d \in Dirs, i \in 1 .. Len(Chain(c)) : n = K(d, i, c)
           \/ n = <<"dot", 0, c>>
<1>1. Directions = Dirs
  BY Problem DEF IsWave
<1>2. \/ IsZero(n)
      \/ \E d \in Dirs, c \in cfg.comps : n \in Kernels(d, c)
      \/ IsDot(n)
  BY <1>1, NodeKinds DEF IsHeat, IsWave
<1> QED
  BY <1>2 DEF IsZero, IsDot, Kernels, K

(* Kernel i is the next to be done on its buffer. *)
LEMMA NextKernel ==
  ASSUME NEW c, NEW d, NEW i \in 1 .. Len(Chain(c)), NEW k \in 0 .. Len(Chain(c)),
         \A j \in 1 .. Len(Chain(c)) : K(d, j, c) \in done <=> j <= k,
         K(d, i, c) \notin done, i > 1 => K(d, i - 1, c) \in done,
         NEW n, n = K(d, i, c), NEW fin, fin = done \cup {n}
  PROVE  /\ k = i - 1
         /\ \A j \in 1 .. Len(Chain(c)) : K(d, j, c) \in fin <=> j <= i
<1> DEFINE m == Len(Chain(c))
<1>1. m \in Nat
  BY ChainNames
<1>2. \A j \in 1 .. m : K(d, j, c) = n <=> j = i
  BY NamesApart
<1> HIDE DEF m
<1>3. ~(i <= k)
  BY DEF m
<1>4. i > 1 => i - 1 <= k
  <2>1. i > 1 => i - 1 \in 1 .. m
    BY <1>1 DEF m
  <2> QED
    BY <2>1 DEF m
<1>5. k = i - 1
  BY <1>1, <1>3, <1>4 DEF m
<1>6. \A j \in 1 .. m : K(d, j, c) \in fin <=> j <= k \/ j = i
  BY <1>2 DEF m
<1>7. \A j \in 1 .. m : (j <= k \/ j = i) <=> j <= i
  BY <1>1, <1>5 DEF m
<1> QED
  BY <1>5, <1>6, <1>7 DEF m

(* A kernel of scalar_wave keeps what is said of its buffers.              *)
LEMMA WaveStep ==
  ASSUME MemInv, GraphInv, IsWave, NEW n \in Nodes, Complete(n),
         NEW c \in cfg.comps
  PROVE  WaveMem(c)'
<1> DEFINE m == Len(Chain(c))
           b(d) == <<Scratch[d], c>>
           Shows(d, k, fin, v) ==
             /\ \A i \in 1 .. m : K(d, i, c) \in fin <=> i <= k
             /\ v = Sum(Pre(c, d, k))
<1>1. /\ cfg \in Configs /\ round \in Nat /\ cfg' = cfg /\ round' = round
      /\ done' = done \cup {n} /\ n \notin done /\ n \in Begun
  BY DEF GraphInv, Begun, Complete
<1>2. /\ \A d \in Dirs : b(d) \in Buffers
      /\ \A d \in Dirs : Scratch[d] # "du"
      /\ \A d, e \in Dirs : Scratch[d] = Scratch[e] => d = e
  BY DEF Buffers, Scratch, Dirs
<1>3. <<"du", c>> \in Buffers
  BY DEF Buffers
<1>4. \A x \in Buffers : /\ x \notin Writes(n) => mem'[x] = mem[x]
                         /\ x \in Writes(n) => mem'[x] = Effect(n, mem[x])
  BY Elsewhere DEF MemInv
<1>5. \A d \in Dirs : <<"zero", d, c>> \in done =>
        \E k \in 0 .. m : Shows(d, k, done, mem[b(d)])
  BY DEF MemInv, MemOf, WaveMem, IsWave
<1>6. <<"dot", 0, c>> \in done => mem[<<"du", c>>] = Sum(EveryDirection(c))
  BY DEF MemInv, MemOf, WaveMem, IsWave
<1>7. /\ Chain(c)' = Chain(c) /\ EveryDirection(c)' = EveryDirection(c)
      /\ \A d, k : Pre(c, d, k)' = Pre(c, d, k)
      /\ \A d, i : K(d, i, c)' = K(d, i, c)
  BY <1>1, SameTerms DEF K
<1>8. \A d : Target(d) = Scratch[d]
  BY DEF Target, HasLaplacian, Alone, IsWave
<1>9. SUFFICES /\ \A d \in Dirs : <<"zero", d, c>> \in done' =>
                    \E k \in 0 .. m : Shows(d, k, done', mem'[b(d)])
               /\ <<"dot", 0, c>> \in done' => mem'[<<"du", c>>] = Sum(EveryDirection(c))
  BY <1>7 DEF WaveMem
<1> HIDE DEF Shows
<1>10. CASE n[3] # c
  <2>1. /\ \A k, d : <<k, d, c>> \in done' <=> <<k, d, c>> \in done
        /\ \A d, i : K(d, i, c) \in done' <=> K(d, i, c) \in done
        /\ \A d \in Dirs : mem'[b(d)] = mem[b(d)]
        /\ mem'[<<"du", c>>] = mem[<<"du", c>>]
    BY <1>10, NotMine
  <2>2. \A d \in Dirs, k \in 0 .. m : Shows(d, k, done, mem[b(d)]) => Shows(d, k, done', mem'[b(d)])
    BY <2>1 DEF Shows
  <2> QED
    BY <1>5, <1>6, <2>1, <2>2
<1>11. ASSUME NEW e \in Dirs, n = <<"zero", e, c>> \/ \E i \in 1 .. m : n = K(e, i, c)
       PROVE  /\ \A d \in Dirs : d # e /\ <<"zero", d, c>> \in done' =>
                   \E k \in 0 .. m : Shows(d, k, done', mem'[b(d)])
              /\ <<"dot", 0, c>> \in done' => mem'[<<"du", c>>] = Sum(EveryDirection(c))
  <2>1. Writes(n) \subseteq {b(e)}
    BY <1>8, <1>11, WritesAre
  <2>2. \A d \in Dirs : d # e => mem'[b(d)] = mem[b(d)]
    BY <1>2, <1>4, <2>1
  <2>3. mem'[<<"du", c>>] = mem[<<"du", c>>]
    BY <1>2, <1>3, <1>4, <2>1
  <2>4. ASSUME NEW d \in Dirs, d # e
        PROVE  /\ <<"zero", d, c>> \in done' <=> <<"zero", d, c>> \in done
               /\ \A j \in 1 .. m : K(d, j, c) \in done' <=> K(d, j, c) \in done
    <3>1. <<"zero", d, c>> # n
      BY <1>11, <2>4, NamesApart
    <3>2. \A j \in 1 .. m : K(d, j, c) # n
      BY <1>11, <2>4, NamesApart
    <3> QED
      BY <1>1, <3>1, <3>2
  <2>5. <<"dot", 0, c>> \in done' <=> <<"dot", 0, c>> \in done
    <3>1. <<"dot", 0, c>> # n
      BY <1>11, NamesApart
    <3> QED
      BY <1>1, <3>1
  <2>6. \A d \in Dirs, k \in 0 .. m :
          d # e /\ Shows(d, k, done, mem[b(d)]) => Shows(d, k, done', mem'[b(d)])
    BY <2>2, <2>4 DEF Shows
  <2> QED
    BY <1>5, <1>6, <2>3, <2>4, <2>5, <2>6
<1>12. ASSUME NEW e \in Dirs, n = <<"zero", e, c>>
       PROVE  \E k \in 0 .. m : Shows(e, k, done', mem'[b(e)])
  <2>1. mem'[b(e)] = Empty
    <3>1. b(e) \in Writes(n)
      BY <1>8, <1>12, WritesAre
    <3> QED
      BY <1>2, <1>4, <1>12, <3>1 DEF Effect
  <2>2. \A i \in 1 .. m : K(e, i, c) \notin done'
    <3> TAKE i \in 1 .. m
    <3>1. K(e, i, c) \notin done
      BY <1>1, <1>12, WaveOrder DEF Begun
    <3>2. K(e, i, c) # n
      BY <1>12, NamesApart
    <3> QED
      BY <1>1, <3>1, <3>2
  <2>3. Pre(c, e, 0) = <<>> /\ 0 \in 0 .. m
    <3>1. \A k \in {2, 3} : 1 \in 1 .. k /\ 0 \in 0 .. k
      OBVIOUS
    <3>2. 1 \in 1 .. m /\ 0 \in 0 .. m
      BY <3>1, ChainNames
    <3> QED
      BY <1>1, <3>2, PreGrows
  <2>4. \A i \in 1 .. m : ~(i <= 0)
    OBVIOUS
  <2>5. Shows(e, 0, done', mem'[b(e)])
    BY <2>1, <2>2, <2>3, <2>4 DEF Shows, Sum, Empty
  <2> QED
    BY <2>3, <2>5
<1>13. ASSUME NEW e \in Dirs, NEW i \in 1 .. m, n = K(e, i, c)
       PROVE  \E k \in 0 .. m : Shows(e, k, done', mem'[b(e)])
  <2>1. <<"zero", e, c>> \in done /\ (i > 1 => K(e, i - 1, c) \in done)
    BY <1>1, <1>13, WaveOrder
  <2>2. PICK k \in 0 .. m : Shows(e, k, done, mem[b(e)])
    BY <1>5, <2>1
  <2>3. /\ k = i - 1
        /\ \A j \in 1 .. m : K(e, j, c) \in done' <=> j <= i
    BY <1>1, <1>13, <2>1, <2>2, NextKernel DEF Shows
  <2>4. mem[b(e)] = Sum(Pre(c, e, i - 1))
    BY <2>2, <2>3 DEF Shows
  <2>5. mem'[b(e)] = Sum(Pre(c, e, i))
    <3>1. CASE e \in cfg.active
      <4> DEFINE x == Term(Chain(c)[i], e, 0)
      <4>1. b(e) \in Writes(n)
        BY <1>8, <1>13, <3>1, WritesAre
      <4>2. i = 1 => Pre(c, e, i - 1) = <<>>
        <5>1. 1 - 1 = 0
          OBVIOUS
        <5> QED
          BY <1>1, <5>1, PreGrows
      <4>3. Effect(n, mem[b(e)]) = Sum(Append(Pre(c, e, i - 1), x))
        <5> DEFINE p == Pre(c, e, i - 1)
        <5>1. mem[b(e)] = [free |-> p, fixed |-> <<>>]
          BY <2>4 DEF Sum
        <5> HIDE DEF p
        <5>2. Effect(n, [free |-> p, fixed |-> <<>>])
                = [free |-> Append(AddsTo(c, i, p), x), fixed |-> <<>>]
          BY <1>1, <1>13, KernelEffect
        <5>3. AddsTo(c, i, p) = p
          BY <4>2 DEF AddsTo, p
        <5> QED
          BY <5>1, <5>2, <5>3 DEF Sum, p
      <4> QED
        BY <1>1, <1>2, <1>4, <3>1, <4>1, <4>3, PreGrows
    <3>2. CASE e \notin cfg.active
      <4>1. b(e) \notin Writes(n)
        BY <1>13, <3>2, WritesAre
      <4> QED
        BY <1>1, <1>2, <1>4, <2>4, <3>2, <4>1, PreGrows
    <3> QED
      BY <3>1, <3>2
  <2>6. Shows(e, i, done', mem'[b(e)])
    BY <2>3, <2>5 DEF Shows
  <2>7. i \in 0 .. m
    BY ChainNames
  <2> QED
    BY <2>6, <2>7
<1>14. CASE n = <<"dot", 0, c>>
  <2>1. \A d \in Dirs : /\ <<"zero", d, c>> \in done
                        /\ \A i \in 1 .. m : K(d, i, c) \in done
    BY <1>1, <1>14, WaveOrder
  <2>2. Writes(n) = {<<"du", c>>}
    BY <1>14, WritesAre
  <2>3. \A d \in Dirs : mem'[b(d)] = mem[b(d)]
    BY <1>2, <1>4, <2>2
  <2>4. \A d \in Dirs, k \in 0 .. m : Shows(d, k, done, mem[b(d)]) => Shows(d, k, done', mem'[b(d)])
    <3>1. \A d \in Dirs, i \in 1 .. m : K(d, i, c) \in done' <=> K(d, i, c) \in done
      BY <1>1, <2>1
    <3> QED
      BY <2>3, <3>1 DEF Shows
  <2>5. \A d \in Dirs : mem[b(d)] = Sum(Full(c, d))
    <3> TAKE d \in Dirs
    <3>1. PICK k \in 0 .. m : Shows(d, k, done, mem[b(d)])
      BY <1>5, <2>1
    <3>2. m \in 1 .. m
      <4>1. \A k1 \in {2, 3} : k1 \in 1 .. k1
        OBVIOUS
      <4> QED
        BY <4>1, ChainNames
    <3>3. m <= k
      BY <2>1, <3>1, <3>2 DEF Shows
    <3>4. k = m
      <4>1. m \in Nat
        BY ChainNames
      <4> HIDE DEF m
      <4> QED
        BY <3>3, <4>1
    <3> QED
      BY <3>1, <3>4 DEF Shows, Full
  <2>6. mem'[<<"du", c>>] = Sum(EveryDirection(c))
    <3> DEFINE f0 == Full(c, 0)
               f1 == Full(c, 1)
               f2 == Full(c, 2)
    <3>1. /\ mem[b(0)] = Sum(f0) /\ mem[b(1)] = Sum(f1) /\ mem[b(2)] = Sum(f2)
      BY <2>5 DEF Dirs
    <3> HIDE DEF f0, f1, f2
    <3>2. mem'[<<"du", c>>] = Effect(n, mem[<<"du", c>>])
      BY <1>3, <1>4, <2>2
    <3>3. Effect(n, mem[<<"du", c>>]) =
            [free |-> Times((f0 \o f1) \o f2), fixed |-> Times((<<>> \o <<>>) \o <<>>)]
      <4>1. n[1] = "dot" /\ n[3] = c
        BY <1>14
      <4>2. /\ mem[b(0)].free = f0 /\ mem[b(1)].free = f1 /\ mem[b(2)].free = f2
            /\ mem[b(0)].fixed = <<>> /\ mem[b(1)].fixed = <<>> /\ mem[b(2)].fixed = <<>>
        BY <3>1 DEF Sum
      <4>3. Effect(n, mem[<<"du", c>>]) =
              [free  |-> Times(mem[b(0)].free \o mem[b(1)].free \o mem[b(2)].free),
               fixed |-> Times(mem[b(0)].fixed \o mem[b(1)].fixed \o mem[b(2)].fixed)]
        BY <4>1 DEF Effect
      <4> QED
        BY <4>2, <4>3
    <3>4. Times((<<>> \o <<>>) \o <<>>) = <<>>
      <4>1. <<>> \in Seq(Terms) /\ Len(<<>>) = 0
        BY EmptySeq
      <4>2. (<<>> \o <<>>) \o <<>> = <<>>
        BY <4>1, ConcatEmptySeq
      <4>3. Times(<<>>) \in Seq(Terms) /\ Len(Times(<<>>)) = 0
        BY <4>1, TimesSeq
      <4> QED
        BY <4>2, <4>3, EmptySeq
    <3>5. (f0 \o f1) \o f2 = Acc(c, 3)
      BY DEF Acc, f0, f1, f2
    <3>6. Times(Acc(c, 3)) = EveryDirection(c)
      BY <1>1, AllDirections DEF Alone, IsWave
    <3> QED
      BY <3>2, <3>3, <3>4, <3>5, <3>6 DEF Sum
  <2> QED
    BY <1>5, <2>1, <2>4, <2>6
<1> QED
  <2>1. PICK a \in cfg.comps :
          \/ \E d \in Dirs : n = <<"zero", d, a>>
          \/ \E d \in Dirs, i \in 1 .. Len(Chain(a)) : n = K(d, i, a)
          \/ n = <<"dot", 0, a>>
    BY <1>1, WaveNodes
  <2>2. n[3] = a
    BY <2>1 DEF K
  <2>3. CASE a = c /\ n # <<"dot", 0, c>>
    <3>1. PICK e \in Dirs : n = <<"zero", e, c>> \/ \E i \in 1 .. m : n = K(e, i, c)
      BY <2>1, <2>3
    <3>2. \E k \in 0 .. m : Shows(e, k, done', mem'[b(e)])
      BY <1>12, <1>13, <3>1
    <3>3. /\ \A d \in Dirs : d # e /\ <<"zero", d, c>> \in done' =>
                \E k \in 0 .. m : Shows(d, k, done', mem'[b(d)])
          /\ <<"dot", 0, c>> \in done' => mem'[<<"du", c>>] = Sum(EveryDirection(c))
      BY <1>11, <3>1
    <3> QED
      BY <3>2, <3>3
  <2> QED
    BY <1>10, <1>14, <2>1, <2>2, <2>3

-----------------------------------------------------------------------------
(* A derivative on its own is one chain on each component, and adds to     *)
(* what its caller put there.                                              *)
LEMMA DerivativeStep ==
  ASSUME MemInv, GraphInv, cfg.system = "derivative", round > 0, NEW n \in Nodes, Complete(n),
         NEW c \in cfg.comps
  PROVE  DerivativeMem(c)'
<1> DEFINE m == Len(Chain(c))
           b == <<"du", c>>
<1>1. /\ cfg \in Configs /\ round \in Nat /\ cfg' = cfg /\ round' = round
      /\ done' = done \cup {n} /\ n \notin done /\ n \in Begun
  BY DEF GraphInv, Begun, Complete
<1>2. b \in Buffers
  BY DEF Buffers
<1>3. /\ b \notin Writes(n) => mem'[b] = mem[b]
      /\ b \in Writes(n) => mem'[b] = Effect(n, mem[b])
  BY <1>2, Elsewhere DEF MemInv
<1>4. /\ Chain(c)' = Chain(c) /\ \A d, i : K(d, i, c)' = K(d, i, c)
      /\ \A d, k : Partial(c, d, k)' = Partial(c, d, k)
  BY <1>1, SameTerms DEF K
<1>5. Directions = cfg.active /\ cfg.active \subseteq Dirs /\ \A d, e \in cfg.active : d = e
  BY <1>1, Problem DEF Directions
<1>60. PICK e \in cfg.active, a \in cfg.comps : \E i \in 1 .. Len(Chain(a)) : n = K(e, i, a)
  BY <1>1, <1>5, NodeKinds DEF HasLaplacian, IsHeat, Kernels, K
<1>6. PICK i \in 1 .. Len(Chain(a)) : n = K(e, i, a)
  BY <1>60
<1>7. n[3] = a
  BY <1>6 DEF K
<1>8. PICK k \in 0 .. m :
        /\ \A j \in 1 .. m : K(e, j, c) \in done <=> j <= k
        /\ mem[b] = Partial(c, e, k)
  BY <1>6 DEF MemInv, MemOf, DerivativeMem
<1>9. \E r \in 0 .. m : /\ \A j \in 1 .. m : K(e, j, c) \in done' <=> j <= r
                        /\ mem'[b] = Partial(c, e, r)
  <2>1. CASE a # c
    <3>1. /\ \A j : K(e, j, c) \in done' <=> K(e, j, c) \in done
          /\ mem'[b] = mem[b]
      BY <1>7, <2>1, NotMine
    <3> QED
      BY <1>8, <3>1
  <2>2. CASE a = c
    <3>1. i \in 1 .. m /\ n = K(e, i, c) /\ e \in Dirs
      BY <1>5, <1>6, <2>2
    <3>2. i > 1 => K(e, i - 1, c) \in done
      BY <1>1, <1>5, <3>1, KernelAfter
    <3>3. k = i - 1 /\ \A j \in 1 .. m : K(e, j, c) \in done' <=> j <= i
      BY <1>1, <1>8, <3>1, <3>2, NextKernel
    <3> DEFINE x == Term(Chain(c)[i], e, 0)
               old == IF k = 0 THEN Filled ELSE Before(c) \o Pre(c, e, k)
    <3>4. mem[b] = [free |-> old, fixed |-> Filled]
      BY <1>8 DEF Partial
    <3>5. mem'[b] = [free |-> Append(AddsTo(c, i, old), x), fixed |-> Filled]
      <4>1. b \in Writes(n)
        BY <3>1, WritesAre DEF Target, Alone
      <4>2. Effect(n, [free |-> old, fixed |-> Filled])
              = [free |-> Append(AddsTo(c, i, old), x), fixed |-> Filled]
        <5> HIDE DEF old, x
        <5>1. Effect(K(e, i, c), [free |-> old, fixed |-> Filled])
                = [free |-> Append(AddsTo(c, i, old), Term(Chain(c)[i], e, 0)), fixed |-> Filled]
          BY <1>1, <3>1, KernelEffect
        <5> QED
          BY <3>1, <5>1 DEF x
      <4> QED
        BY <1>3, <3>4, <4>1, <4>2
    <3>6. Append(AddsTo(c, i, old), x) = Before(c) \o Pre(c, e, i)
      <4>1. Filled \in Seq(Terms)
        <5>1. [by |-> "caller", dir |-> 0, input |-> 0, factors |-> 0] \in Terms
          BY DEF Terms
        <5> QED
          BY <5>1, EmptySeq DEF Filled
      <4>2. Before(c) \in Seq(Terms)
        BY <4>1, EmptySeq DEF Before
      <4>3. /\ Pre(c, e, k) \in Seq(Terms) /\ x \in Terms
            /\ Append(Pre(c, e, k), x) = Pre(c, e, i)
            /\ k = 0 => Pre(c, e, k) = <<>>
        <5>1. i - 1 \in 0 .. m
          BY <1>8, <3>3
        <5> QED
          BY <1>1, <1>6, <3>1, <3>3, <5>1, PreSeq, PreGrows, TermTypes
      <4>4. Operation = cfg.op
        BY DEF Operation, HasLaplacian
      <4>5. AddsTo(c, i, old) = Before(c) \o Pre(c, e, k)
        <5>1. CASE k = 0
          <6>1. i = 1
            BY <3>3, <5>1
          <6>2. Before(c) = IF c = "D" /\ cfg.op = "eq" THEN <<>> ELSE Filled
            BY <1>6 DEF Before
          <6>3. Before(c) \o <<>> = Before(c)
            BY <4>2, ConcatEmptySeq
          <6>4. AddsTo(c, i, Filled) = Before(c)
            BY <4>4, <6>1, <6>2 DEF AddsTo
          <6>5. old = Filled /\ Pre(c, e, k) = <<>>
            BY <4>3, <5>1
          <6> QED
            BY <6>3, <6>4, <6>5
        <5>2. CASE k # 0
          <6>1. i # 1
            BY <3>3, <5>2
          <6> QED
            BY <5>2, <6>1 DEF AddsTo
        <5> QED
          BY <5>1, <5>2
      <4> HIDE DEF x, old
      <4>6. Before(c) \o Pre(c, e, k) \in Seq(Terms)
        BY <4>2, <4>3, ConcatProperties
      <4>7. Append(Before(c) \o Pre(c, e, k), x) = (Before(c) \o Pre(c, e, k)) \o <<x>>
        BY <4>3, <4>6, AppendIsConcat
      <4>8. Append(Pre(c, e, k), x) = Pre(c, e, k) \o <<x>>
        BY <4>3, AppendIsConcat
      <4>9. (Before(c) \o Pre(c, e, k)) \o <<x>> = Before(c) \o (Pre(c, e, k) \o <<x>>)
        <5> DEFINE f == Before(c)
                   p == Pre(c, e, k)
        <5>1. f \in Seq(Terms) /\ p \in Seq(Terms) /\ <<x>> \in Seq(Terms)
          BY <4>2, <4>3
        <5> HIDE DEF f, p
        <5>2. (f \o p) \o <<x>> = f \o (p \o <<x>>)
          BY <5>1, ConcatAssociative
        <5> QED
          BY <5>2 DEF f, p
      <4>10. (Before(c) \o Pre(c, e, k)) \o <<x>> = Before(c) \o Pre(c, e, i)
        <5>1. Append(Pre(c, e, k), x) = Pre(c, e, i)
          BY <4>3, Zenon
        <5> QED
          BY <4>8, <4>9, <5>1, Zenon
      <4>11. Append(AddsTo(c, i, old), x) = Append(Before(c) \o Pre(c, e, k), x)
        BY <4>5, Zenon
      <4> QED
        BY <4>7, <4>10, <4>11, Zenon
    <3>7. i # 0 /\ i \in 0 .. m
      <4>1. m \in Nat
        BY ChainNames
      <4> HIDE DEF m
      <4> QED
        BY <3>1, <4>1
    <3>8. mem'[b] = Partial(c, e, i)
      BY <3>5, <3>6, <3>7 DEF Partial
    <3> QED
      BY <3>3, <3>7, <3>8
  <2> QED
    BY <2>1, <2>2
<1>10. cfg.active # {} /\ \A d \in cfg.active : d = e
  BY <1>5, <1>6
<1> QED
  BY <1>1, <1>4, <1>9, <1>10 DEF DerivativeMem

(* The invariant of the buffers. *)
LEMMA MemInvariant == Spec => []MemInv
<1>1. Init => MemInv
  <2> SUFFICES ASSUME Init PROVE MemInv
    OBVIOUS
  <2>1. cfg \in Configs /\ host = "inputs" /\ round = 0 /\ done = {} /\ DOMAIN mem = Buffers
    BY DEF Init
  <2>2. \A c \in cfg.comps : MemOf(c)
    BY <2>1 DEF MemOf, LaplacianMem, HeatMem, Scaled, WaveMem, DerivativeMem
  <2> QED
    BY <2>1, <2>2 DEF MemInv
<1>2. GraphInv /\ MemInv /\ [Next]_vars => MemInv'
  <2> SUFFICES ASSUME GraphInv, MemInv, [Next]_vars PROVE MemInv'
    OBVIOUS
  <2>0. cfg' = cfg
    BY DEF Next, vars, Submit, Start, Complete, Fence, Consume, Rest
  <2>1. CASE Submit
    <3>1. /\ round' = round + 1 /\ done' = {} /\ round \in Nat
          /\ mem' = IF cfg.system # "derivative" THEN mem
                    ELSE [b \in DOMAIN mem |-> [free |-> Filled, fixed |-> Filled]]
      BY <2>1 DEF Submit, GraphInv
    <3>2. Buffers' = Buffers
      BY <2>0 DEF Buffers
    <3>3. DOMAIN mem' = Buffers'
      BY <3>1, <3>2 DEF MemInv
    <3>4. ASSUME NEW c \in cfg'.comps PROVE MemOf(c)'
      <4>1. (LaplacianMem(c) /\ HeatMem(c) /\ WaveMem(c))'
        BY <3>1 DEF LaplacianMem, HeatMem, Scaled, WaveMem
      <4>2. cfg.system = "derivative" => DerivativeMem(c)'
        <5> SUFFICES ASSUME cfg.system = "derivative" PROVE DerivativeMem(c)'
          OBVIOUS
        <5>1. \A d : Partial(c, d, 0)' = [free |-> Filled, fixed |-> Filled]
          BY <2>0 DEF Partial, Filled
        <5>2. mem'[<<"du", c>>] = [free |-> Filled, fixed |-> Filled]
          <6>1. <<"du", c>> \in Buffers
            BY <2>0, <3>4 DEF Buffers
          <6> QED
            BY <3>1, <6>1 DEF MemInv
        <5>3. \A d : \A i \in 1 .. Len(Chain(c)') : ~(K(d, i, c)' \in done') /\ ~(i <= 0)
          BY <3>1
        <5>4. 0 \in 0 .. Len(Chain(c)')
          <6>1. Chain(c)' = Chain(c)
            BY <2>0 DEF Chain
          <6> QED
            BY <6>1, ChainNames
        <5> QED
          BY <5>1, <5>2, <5>3, <5>4 DEF DerivativeMem
      <4> QED
        BY <2>0, <4>1, <4>2 DEF MemOf
    <3>5. round' > 0
      BY <3>1
    <3> QED
      BY <3>3, <3>4, <3>5 DEF MemInv
  <2>2. CASE Fence \/ Consume \/ UNCHANGED vars \/ \E n \in Nodes : Start(n)
    <3>1. /\ UNCHANGED <<cfg, round, done, mem>>
          /\ host' # "inputs" => host # "inputs"
      BY <2>2 DEF Fence, Consume, vars, Start
    <3>2. Buffers' = Buffers
      BY <2>0 DEF Buffers
    <3>3. /\ \A c : Chain(c)' = Chain(c) /\ EveryDirection(c)' = EveryDirection(c)
          /\ \A c, d, k : Pre(c, d, k)' = Pre(c, d, k) /\ Partial(c, d, k)' = Partial(c, d, k)
          /\ \A c, d : Acc(c, d)' = Acc(c, d)
          /\ After' = After /\ HasLaplacian' = HasLaplacian /\ IsHeat' = IsHeat
      BY <3>1, SameTerms
    <3>4. \A c, d, i : K(d, i, c)' = K(d, i, c)
      BY <3>3 DEF K
    <3>5. \A c : LaplacianMem(c) => LaplacianMem(c)'
      BY <3>1, <3>3, <3>4 DEF LaplacianMem, Scaled, Stage
    <3>6. \A c : HeatMem(c) => HeatMem(c)'
      BY <3>1, <3>3 DEF HeatMem, Scaled, Sourced
    <3>7. \A c : WaveMem(c) => WaveMem(c)'
      BY <3>1, <3>3, <3>4 DEF WaveMem
    <3>8. \A c : DerivativeMem(c) => DerivativeMem(c)'
      BY <3>1, <3>3, <3>4 DEF DerivativeMem
    <3>9. \A c : MemOf(c) => MemOf(c)'
      BY <3>1, <3>3, <3>5, <3>6, <3>7, <3>8 DEF MemOf
    <3> QED
      BY <3>1, <3>2, <3>9 DEF MemInv
  <2>3. ASSUME NEW n \in Nodes, Complete(n) PROVE MemInv'
    <3>1. /\ host' = host /\ round' = round /\ DOMAIN mem' = DOMAIN mem /\ Buffers' = Buffers
      BY <2>0, <2>3 DEF Complete, Buffers
    <3>2. round > 0 \/ round = 0
      BY DEF GraphInv
    <3>3. ASSUME NEW c \in cfg.comps PROVE MemOf(c)'
      <4>1. HasLaplacian' = HasLaplacian
        BY <2>0 DEF HasLaplacian
      <4>2. HasLaplacian => LaplacianMem(c)' /\ HeatMem(c)'
        BY <2>3, <3>3, LaplacianStep
      <4>3. cfg.system = "scalar wave" => WaveMem(c)'
        BY <2>3, <3>3, WaveStep DEF IsWave
      <4>4. cfg.system = "derivative" => DerivativeMem(c)'
        <5>1. CASE round > 0
          BY <2>3, <3>3, <5>1, DerivativeStep
        <5>2. CASE round = 0
          <6>1. ~(round' > 0)
            BY <3>1, <5>2
          <6> QED
            BY <6>1 DEF DerivativeMem
        <5> QED
          BY <3>2, <5>1, <5>2
      <4> QED
        BY <2>0, <4>1, <4>2, <4>3, <4>4 DEF MemOf
    <3> QED
      BY <2>0, <3>1, <3>3 DEF MemInv
  <2> QED
    BY <2>1, <2>2, <2>3 DEF Next, Rest
<1> QED
  BY <1>1, <1>2, GraphInvariant, PTL DEF Spec

(* When the host reads the result of a submission it is, contribution by   *)
(* contribution, the kernel-by-kernel right-hand side on the inputs of     *)
(* that submission, whatever order the kernels ran in.                     *)
THEOREM GraphComputesRhs == Spec => []RhsAgrees
<1>1. GraphInv /\ MemInv => RhsAgrees
  <2> SUFFICES ASSUME GraphInv, MemInv, host = "reading", NEW c \in cfg.comps
               PROVE  mem[<<"du", c>>] = Rhs(c)
    BY DEF RhsAgrees
  <2> DEFINE m == Len(Chain(c))
  <2>1. /\ cfg \in Configs /\ round \in Nat /\ round > 0 /\ done = Nodes /\ running = {}
    <3>1. host # "inputs" /\ host # "waiting"
      OBVIOUS
    <3> QED
      BY <3>1 DEF GraphInv, MemInv
  <2>2. \A x, y : <<x, y>> \in Edges => x \in done /\ y \in done
    <3>1. \A e \in Edges : e[1] \in Nodes /\ e[2] \in Nodes
      BY DEF Nodes
    <3> QED
      BY <2>1, <3>1
  <2>3. EveryDirection(c) \in Seq(Terms) /\ <<>> \in Seq(Terms)
    BY <2>1, AllDirections, EmptySeq
  <2>4. <<>> \o EveryDirection(c) = EveryDirection(c)
        /\ EveryDirection(c) \o <<>> = EveryDirection(c)
    BY <2>3, ConcatEmptySeq
  <2>5. m \in {2, 3} /\ m \in 1 .. m /\ 1 \in 1 .. m - 1
    <3>1. \A k \in {2, 3} : k \in 1 .. k /\ 1 \in 1 .. k - 1
      OBVIOUS
    <3> QED
      BY <3>1, ChainNames
  <2>6. \A d \in Directions : K(d, m, c) \in done
    <3> TAKE d \in Directions
    <3>1. m - 1 \in 1 .. m - 1 /\ m - 1 + 1 = m
      <4>1. \A k \in {2, 3} : k - 1 \in 1 .. k - 1 /\ k - 1 + 1 = k
        OBVIOUS
      <4> QED
        BY <2>5, <4>1
    <3>2. <<K(d, m - 1, c), K(d, m - 1 + 1, c)>> \in Edges
      BY <3>1, EdgesAre DEF K
    <3> QED
      BY <2>2, <3>1, <3>2
  <2>7. CASE HasLaplacian
    <3>1. MemOf(c) /\ cfg.system # "derivative" /\ Directions = 0 .. 2
      BY <2>1, <2>7, Problem DEF MemInv, HasLaplacian, Dirs
    <3>2. LaplacianMem(c) /\ HeatMem(c)
      BY <2>7, <3>1 DEF MemOf
    <3>3. Rhs(c) = [free |-> EveryDirection(c) \o After, fixed |-> <<>>]
      BY <2>4, <3>1 DEF Rhs, Before
    <3>4. CASE IsHeat
      <4>1. Scaled(c) /\ Sourced(c) /\ (c \in cfg.dirichlet => <<"fill", 0, c>> \in done)
        BY <2>2, <3>4, EdgesAre DEF Scaled, Sourced
      <4> QED
        BY <3>2, <3>3, <4>1 DEF HeatMem
    <3>5. CASE ~IsHeat
      <4>1. Alone /\ ~Scaled(c) /\ After = <<>>
        BY <2>7, <3>5 DEF HasLaplacian, IsHeat, Alone, Scaled, After
      <4>2. <<"zero", 0, c>> \in done
        <5>1. K(0, m, c) \in Begun
          BY <2>6, <3>1 DEF Begun
        <5>2. \A d \in 0 .. 2, i \in 1 .. m : K(d, i, c) \in Begun => <<"zero", 0, c>> \in done
          BY <2>7, LaplacianOrder
        <5>3. 0 \in 0 .. 2
          OBVIOUS
        <5> QED
          BY <2>5, <5>1, <5>2, <5>3
      <4>3. PICK d \in 0 .. 2, k \in 0 .. m :
              Stage(c, d, k) /\ mem[<<"du", c>>] = Sum(Acc(c, d) \o Pre(c, d, k))
        BY <3>2, <4>1, <4>2 DEF LaplacianMem
      <4>4. d = 2 /\ k = m
        <5>1. K(2, m, c) \in done /\ 2 \in 0 .. 2
          BY <2>6, <3>1
        <5>2. 2 < d \/ (2 = d /\ m <= k)
          BY <2>5, <4>3, <5>1 DEF Stage
        <5>3. m \in Nat
          BY <2>5
        <5> HIDE DEF m
        <5> QED
          BY <5>2, <5>3
      <4>5. Acc(c, 2) \o Full(c, 2) = Acc(c, 3)
        <5>1. 2 \in 0 .. 2 /\ 2 + 1 = 3
          OBVIOUS
        <5> QED
          BY <2>1, <5>1, AccSeq
      <4>6. mem[<<"du", c>>] = Sum(Acc(c, 3))
        BY <4>3, <4>4, <4>5 DEF Full
      <4>7. Acc(c, 3) = EveryDirection(c)
        BY <2>1, <4>1, AllDirections
      <4> QED
        BY <2>4, <3>3, <4>1, <4>6, <4>7 DEF Sum
    <3> QED
      BY <3>4, <3>5
  <2>8. CASE IsWave
    <3>1. WaveMem(c)
      BY <2>8 DEF MemInv, MemOf, IsWave
    <3>2. After = <<>> /\ Rhs(c) = [free |-> EveryDirection(c) \o After, fixed |-> <<>>]
      <4>1. ~IsHeat /\ cfg.system # "derivative"
        BY <2>8 DEF IsHeat, IsWave
      <4> QED
        BY <2>4, <4>1 DEF Rhs, Before, After
    <3>3. <<"dot", 0, c>> \in done
      <4>1. 0 \in Dirs /\ K(0, m, c) \in Leaves(0)
        BY ChainNames DEF Dirs, Leaves, Last, K
      <4>2. <<K(0, m, c), <<"dot", 0, c>>>> \in Edges
        BY <2>8, <4>1, EdgesAre DEF IsWave
      <4> QED
        BY <2>2, <4>2
    <3>4. mem[<<"du", c>>] = Sum(EveryDirection(c))
      BY <3>1, <3>3 DEF WaveMem
    <3> QED
      BY <2>4, <3>2, <3>4 DEF Sum
  <2>9. CASE cfg.system = "derivative"
    <3>1. DerivativeMem(c)
      BY <2>9 DEF MemInv, MemOf
    <3>2. Alone /\ After = <<>> /\ Directions = cfg.active
          /\ cfg.active \subseteq Dirs /\ \A d, e \in cfg.active : d = e
      BY <2>1, <2>9, Problem DEF Alone, After, IsHeat, Directions
    <3>3. Filled \in Seq(Terms)
      <4>1. [by |-> "caller", dir |-> 0, input |-> 0, factors |-> 0] \in Terms
        BY DEF Terms
      <4> QED
        BY <4>1, EmptySeq DEF Filled
    <3>4. Before(c) \in Seq(Terms)
      BY <3>3, EmptySeq DEF Before
    <3>5. Rhs(c) = [free |-> Before(c) \o EveryDirection(c), fixed |-> Filled]
      <4>1. Before(c) \o EveryDirection(c) \in Seq(Terms)
        BY <2>3, <3>4, ConcatProperties
      <4>2. (Before(c) \o EveryDirection(c)) \o <<>> = Before(c) \o EveryDirection(c)
        BY <4>1, ConcatEmptySeq
      <4> QED
        BY <2>9, <3>2, <4>2 DEF Rhs
    <3>6. Full(c, 0) \in Seq(Terms) /\ Full(c, 1) \in Seq(Terms) /\ Full(c, 2) \in Seq(Terms)
      BY <2>1, AccSeq
    <3>7. EveryDirection(c) = (Full(c, 0) \o Full(c, 1)) \o Full(c, 2)
      BY <2>1, <3>2, AllDirections DEF Acc
    <3>8. \A d : d \notin cfg.active => Full(c, d) = <<>>
      BY DEF Full, Pre
    <3>9. ASSUME NEW d \in Dirs, \A e \in Dirs : e # d => Full(c, e) = <<>>
          PROVE  EveryDirection(c) = Full(c, d)
      <4> DEFINE f0 == Full(c, 0)
                 f1 == Full(c, 1)
                 f2 == Full(c, 2)
      <4>1. /\ d = 0 \/ d = 1 \/ d = 2
            /\ d # 0 => f0 = <<>>
            /\ d # 1 => f1 = <<>>
            /\ d # 2 => f2 = <<>>
        BY <3>9 DEF Dirs
      <4>2. EveryDirection(c) = (f0 \o f1) \o f2 /\ f0 \in Seq(Terms) /\ f1 \in Seq(Terms) /\ f2 \in Seq(Terms)
        BY <3>6, <3>7
      <4>3. f0 \o <<>> = f0 /\ <<>> \o f1 = f1 /\ f1 \o <<>> = f1 /\ <<>> \o f2 = f2
            /\ <<>> \o <<>> = <<>>
        <5> HIDE DEF f0, f1, f2
        <5> QED
          BY <2>3, <4>2, ConcatEmptySeq
      <4>4. CASE d = 0
        <5>1. f1 = <<>> /\ f2 = <<>>
          BY <4>1, <4>4
        <5> QED
          BY <4>2, <4>3, <4>4, <5>1
      <4>5. CASE d = 1
        <5>1. f0 = <<>> /\ f2 = <<>>
          BY <4>1, <4>5
        <5> QED
          BY <4>2, <4>3, <4>5, <5>1
      <4>6. CASE d = 2
        <5>1. f0 = <<>> /\ f1 = <<>>
          BY <4>1, <4>6
        <5> QED
          BY <4>2, <4>3, <4>6, <5>1
      <4> QED
        BY <4>1, <4>4, <4>5, <4>6
    <3>10. CASE cfg.active = {}
      <4>1. EveryDirection(c) = <<>>
        <5>1. 0 \in Dirs /\ \A e \in Dirs : Full(c, e) = <<>>
          BY <3>8, <3>10 DEF Dirs
        <5> QED
          BY <3>9, <5>1
      <4>2. mem[<<"du", c>>] = [free |-> Filled, fixed |-> Filled]
        BY <2>1, <3>1, <3>10 DEF DerivativeMem, Partial
      <4>3. Before(c) = Filled
        BY <2>9, <3>10 DEF Before
      <4>4. Before(c) \o <<>> = Before(c)
        BY <3>4, ConcatEmptySeq
      <4> QED
        BY <3>5, <4>1, <4>2, <4>3, <4>4
    <3>11. CASE cfg.active # {}
      <4>1. PICK d \in cfg.active : TRUE
        BY <3>11
      <4>2. PICK k \in 0 .. m :
              /\ \A i \in 1 .. m : K(d, i, c) \in done <=> i <= k
              /\ mem[<<"du", c>>] = Partial(c, d, k)
        BY <2>1, <3>1 DEF DerivativeMem
      <4>3. k = m /\ k # 0
        <5>1. m <= k
          BY <2>5, <2>6, <3>2, <4>2
        <5>2. m \in Nat /\ m # 0
          BY <2>5
        <5> HIDE DEF m
        <5> QED
          BY <5>1, <5>2
      <4>4. EveryDirection(c) = Full(c, d)
        BY <3>2, <3>8, <3>9
      <4> QED
        BY <3>5, <4>2, <4>3, <4>4 DEF Partial, Full
    <3> QED
      BY <3>10, <3>11
  <2> QED
    BY <2>1, <2>7, <2>8, <2>9, Problem DEF HasLaplacian, IsWave
<1> QED
  BY <1>1, GraphInvariant, MemInvariant, PTL
=============================================================================
