----------------------------- MODULE FieldStore -----------------------------
(***************************************************************************)
(* What fields/field_registry.hpp promises its callers: slots of named     *)
(* arrays with the meaning of values.  Nothing is said of where an array   *)
(* is kept; writing to one changes that one, copying copies, exchanging    *)
(* exchanges.                                                              *)
(***************************************************************************)
EXTENDS Integers

CONSTANTS
  MaxSlots, MaxS, MaxV,  \* template parameters of field_registry
  Sizes,                 \* extents an allocation may ask for, by component
  Values                 \* what an array may be filled with; 0 is one of them

VARIABLE
  fields    \* slot -> name -> [size, value]

Slots == 0 .. MaxSlots - 1
Components == 0 .. 3     \* D, Rx, Ry, Rz
Axes == 0 .. 2

(* A scalar has one array per component, a vector one per axis and         *)
(* component.                                                              *)
ScalarNames(i) ==
  {[kind |-> "scalar", index |-> i, axis |-> 0, comp |-> c] : c \in Components}
VectorNames(i) ==
  {[kind |-> "vector", index |-> i, axis |-> a, comp |-> c] :
     a \in Axes, c \in Components}

Init == fields = [s \in Slots |-> [n \in {} |-> 0]]

(* Slot s gets new arrays, filled with zero. *)
Added(f, s, names, sizes) ==
  [f EXCEPT ![s] =
    [n \in DOMAIN f[s] \cup names |->
       IF n \in DOMAIN f[s] THEN f[s][n]
       ELSE [size |-> sizes[n.comp], value |-> 0]]]

(* The i-th field of a slot is added after those before it. *)
AddScalar(s, i, sizes) ==
  LET f == fields IN
  /\ \A j \in 0 .. i - 1 : ScalarNames(j) \subseteq DOMAIN f[s]
  /\ ScalarNames(i) \cap DOMAIN f[s] = {}
  /\ fields' = Added(f, s, ScalarNames(i), sizes)

AddVector(s, i, sizes) ==
  LET f == fields IN
  /\ \A j \in 0 .. i - 1 : VectorNames(j) \subseteq DOMAIN f[s]
  /\ VectorNames(i) \cap DOMAIN f[s] = {}
  /\ fields' = Added(f, s, VectorNames(i), sizes)

(* One array of one slot is filled. *)
Set ==
  LET f == fields IN
  \E s \in Slots : \E n \in DOMAIN f[s], v \in Values :
    fields' = [f EXCEPT ![s][n].value = v]

(* The arrays of src that hold anything replace those of dst. *)
Copy(dst, src) ==
  LET f == fields
      copied == {n \in DOMAIN f[src] : f[src][n].size > 0}
  IN
  /\ \A n \in copied : n \in DOMAIN f[dst] /\ f[dst][n].size = f[src][n].size
  /\ fields' = [f EXCEPT ![dst] =
       [n \in DOMAIN f[dst] |-> IF n \in copied THEN f[src][n] ELSE f[dst][n]]]

Exchange(a, b) ==
  LET f == fields IN
  /\ DOMAIN f[a] = DOMAIN f[b]
  /\ fields' = [f EXCEPT ![a] = f[b], ![b] = f[a]]

Next ==
  \/ \E s, t \in Slots : Exchange(s, t) \/ Copy(s, t)
  \/ \E s \in Slots, sizes \in Sizes :
       \/ \E i \in 0 .. MaxS - 1 : AddScalar(s, i, sizes)
       \/ \E i \in 0 .. MaxV - 1 : AddVector(s, i, sizes)
  \/ Set

Spec == Init /\ [][Next]_fields
=============================================================================
