---------------------------- MODULE FieldRegistry ----------------------------
(***************************************************************************)
(* fields/field_registry.hpp and fields/handle.hpp: the fields of all      *)
(* slots are views in one flat array of buffers; slots, handles and refs   *)
(* are arithmetic on its positions.  A view is memory shared by whoever    *)
(* holds it: a raw pointer, taken with data() or in a span, as long as the *)
(* buffer.  The asserts of the methods are guards, their callers' duty.    *)
(***************************************************************************)
EXTENDS Integers

CONSTANTS
  MaxSlots, MaxS, MaxV,  \* template parameters of field_registry
  Sizes,                 \* extents an allocation may ask for, by component
  Values,                \* what a buffer may be filled with; 0 is one of them
  MaxWrites,             \* bound on the number of writes through a pointer
  Watched                \* the buffers pointers are taken to, a bound as well

Components == 0 .. 3     \* D, Rx, Ry, Rz

ASSUME RegistryAssumption ==
  /\ MaxSlots \in Nat /\ MaxS \in Nat /\ MaxV \in Nat /\ MaxWrites \in Nat
  /\ Sizes \subseteq [Components -> Nat]
  /\ 0 \in Values

VARIABLES
  buffers,   \* position -> the view there, or NoView
  metadata,  \* slot -> the slot's field_ref
  made,      \* views allocated so far; they are 1 .. made
  memory,    \* view -> [size, value]
  refs,      \* field_refs handed out; they are copies
  held,      \* a pointer somebody keeps: [slot, id, view] or NoPointer
  writes     \* number of writes through it

vars == <<buffers, metadata, made, memory, refs, held, writes>>

Slots == 0 .. MaxSlots - 1
NoView == 0
NoPointer == [slot |-> -1, id |-> -1, view |-> NoView]

-----------------------------------------------------------------------------
(* field_layout and the handles. *)

ScalarStride == 4
VectorStride == 12
VectorBase == MaxS * ScalarStride
BuffersPerSlot == VectorBase + MaxV * VectorStride

Ids == 0 .. BuffersPerSlot - 1
Positions == 0 .. MaxSlots * BuffersPerSlot - 1
At(slot, id) == slot * BuffersPerSlot + id

ScalarHandle(i) == i * ScalarStride
VectorHandle(i) == VectorBase + i * VectorStride

(* The buffers of a handle: all(). *)
ScalarIds(i) == ScalarHandle(i) .. ScalarHandle(i) + ScalarStride - 1
VectorIds(i) == VectorHandle(i) .. VectorHandle(i) + VectorStride - 1

(* The buffers of the fields a ref knows of. *)
Knows(ref, id) ==
  \/ \E i \in 0 .. ref.n_scalars - 1 : id \in ScalarIds(i)
  \/ \E i \in 0 .. ref.n_vectors - 1 : id \in VectorIds(i)

ViewAt(slot, id) == buffers[At(slot, id)]
Extent(slot, id) == IF ViewAt(slot, id) = NoView THEN 0 ELSE memory[ViewAt(slot, id)].size

-----------------------------------------------------------------------------
Init ==
  /\ buffers = [p \in Positions |-> NoView]
  /\ metadata = [s \in Slots |-> [slot |-> -1, n_scalars |-> 0, n_vectors |-> 0]]
  /\ made = 0
  /\ memory = [v \in {} |-> 0]
  /\ refs = {}
  /\ held = NoPointer
  /\ writes = 0

(* New views at the n buffers from id on; Kokkos fills them with zero. *)
Allocate(slot, id, n, sizes) ==
  LET first == At(slot, id) IN
  /\ made' = made + n
  /\ buffers' = [p \in Positions |->
       IF p \in first .. first + n - 1 THEN made + 1 + p - first ELSE buffers[p]]
  /\ memory' = [v \in 1 .. made + n |->
       IF v <= made THEN memory[v]
       ELSE [size |-> sizes[(v - made - 1) % 4], value |-> 0]]

(* allocate_scalar *)
AllocateScalar(slot, i, sizes) ==
  LET ref == [slot |-> slot, n_scalars |-> metadata[slot].n_scalars + 1,
              n_vectors |-> metadata[slot].n_vectors] IN
  /\ i = metadata[slot].n_scalars
  /\ Allocate(slot, ScalarHandle(i), ScalarStride, sizes)
  /\ metadata' = [metadata EXCEPT ![slot] = ref]
  /\ refs' = refs \cup {ref}
  /\ UNCHANGED <<held, writes>>

(* allocate_vector *)
AllocateVector(slot, i, sizes) ==
  LET ref == [slot |-> slot, n_scalars |-> metadata[slot].n_scalars,
              n_vectors |-> metadata[slot].n_vectors + 1] IN
  /\ i = metadata[slot].n_vectors
  /\ Allocate(slot, VectorHandle(i), VectorStride, sizes)
  /\ metadata' = [metadata EXCEPT ![slot] = ref]
  /\ refs' = refs \cup {ref}
  /\ UNCHANGED <<held, writes>>

(* data, or a span of extract_scalar_span: a pointer to a buffer of a      *)
(* field the ref knows of.                                                 *)
TakePointer(ref, id) ==
  /\ id \in Watched /\ Knows(ref, id)
  /\ held' = [slot |-> ref.slot, id |-> id, view |-> ViewAt(ref.slot, id)]
  /\ UNCHANGED <<buffers, metadata, made, memory, refs, writes>>

(* A kernel fills the memory behind the pointer. *)
WritePointer(v) ==
  /\ held # NoPointer /\ held.view # NoView
  /\ writes < MaxWrites
  /\ memory' = [memory EXCEPT ![held.view].value = v]
  /\ writes' = writes + 1
  /\ UNCHANGED <<buffers, metadata, made, refs, held>>

(* Fault: the views are assigned, not what they hold. *)
DeepCopySlot_Assign(dst, src) ==
  /\ \A id \in Ids : Extent(src, id) > 0 => Extent(dst, id) = Extent(src, id)
  /\ buffers' = [p \in Positions |->
       IF \E id \in Ids : p = At(dst, id) /\ Extent(src, id) > 0
       THEN buffers[At(src, p - At(dst, 0))] ELSE buffers[p]]
  /\ UNCHANGED <<metadata, made, memory, refs, held, writes>>

(* The view whose contents deep_copy_slot gives the view v of dst. *)
CopiedIds(src) == {id \in Ids : Extent(src, id) > 0}
SourceOf(dst, src, v) == ViewAt(src, CHOOSE id \in CopiedIds(src) : ViewAt(dst, id) = v)

(* deep_copy_slot *)
DeepCopySlot(dst, src) ==
  /\ \A id \in CopiedIds(src) : Extent(dst, id) = Extent(src, id)
  /\ memory' = [v \in 1 .. made |->
       IF v \in {ViewAt(dst, id) : id \in CopiedIds(src)}
       THEN [memory[v] EXCEPT !.value = memory[SourceOf(dst, src, v)].value]
       ELSE memory[v]]
  /\ UNCHANGED <<buffers, metadata, made, refs, held, writes>>

(* Fault: slots with any fields may be swapped. *)
SameShape_Any(a, b) == TRUE

(* The assert of swap_slots: the numbers of fields, not their sizes. *)
SameShape(a, b) ==
  /\ metadata[a].n_scalars = metadata[b].n_scalars
  /\ metadata[a].n_vectors = metadata[b].n_vectors

(* Fault: only the scalars' views change places. *)
SwapSlots_Scalars(a, b) ==
  /\ SameShape(a, b)
  /\ buffers' = [p \in Positions |->
       IF p - At(a, 0) \in 0 .. VectorBase - 1 THEN ViewAt(b, p - At(a, 0))
       ELSE IF p - At(b, 0) \in 0 .. VectorBase - 1 THEN ViewAt(a, p - At(b, 0))
       ELSE buffers[p]]
  /\ metadata' = [metadata EXCEPT ![a] = [metadata[b] EXCEPT !.slot = a],
                                  ![b] = [metadata[a] EXCEPT !.slot = b]]
  /\ UNCHANGED <<made, memory, refs, held, writes>>

(* swap_slots *)
SwapSlots(a, b) ==
  /\ SameShape(a, b)
  /\ buffers' = [p \in Positions |->
       IF p - At(a, 0) \in Ids THEN ViewAt(b, p - At(a, 0))
       ELSE IF p - At(b, 0) \in Ids THEN ViewAt(a, p - At(b, 0))
       ELSE buffers[p]]
  /\ metadata' = [metadata EXCEPT ![a] = [metadata[b] EXCEPT !.slot = a],
                                  ![b] = [metadata[a] EXCEPT !.slot = b]]
  /\ UNCHANGED <<made, memory, refs, held, writes>>

Next ==
  \/ \E s \in Slots, sizes \in Sizes :
       \/ \E i \in 0 .. MaxS - 1 : AllocateScalar(s, i, sizes)
       \/ \E i \in 0 .. MaxV - 1 : AllocateVector(s, i, sizes)
  \/ \E ref \in refs, id \in Ids : TakePointer(ref, id)
  \/ \E v \in Values : WritePointer(v)
  \/ \E a, b \in Slots : DeepCopySlot(a, b) \/ SwapSlots(a, b)

Spec == Init /\ [][Next]_vars

-----------------------------------------------------------------------------
(* Types of all variables. *)
TypeOK ==
  /\ made \in Nat /\ writes \in Nat
  /\ buffers \in [Positions -> 0 .. made]
  /\ memory \in [1 .. made -> [size : Nat, value : Values]]
  /\ metadata \in [Slots -> [slot : {-1} \cup Slots,
                            n_scalars : 0 .. MaxS, n_vectors : 0 .. MaxV]]
  /\ refs \subseteq [slot : Slots, n_scalars : 0 .. MaxS, n_vectors : 0 .. MaxV]
  /\ \/ held = NoPointer
     \/ held \in [slot : Slots, id : Ids, view : 1 .. made]

(* No two buffers, of one slot or of two, are the same memory: a kernel    *)
(* that writes a field, or deep_copy_slot, changes no other field,         *)
(* whatever was allocated, copied and swapped before.                      *)
NoSharing ==
  \A p, q \in Positions : p # q /\ buffers[p] # NoView => buffers[p] # buffers[q]

(* The buffers in use are exactly those the metadata counts, and it names  *)
(* its own slot.                                                           *)
CountsMatch ==
  \A s \in Slots :
    /\ \A id \in Ids : ViewAt(s, id) # NoView <=> Knows(metadata[s], id)
    /\ metadata[s].slot \in {-1, s}

(* A ref is a copy of the metadata of the time it was handed out.  Its     *)
(* fields are fields of its slot for good: later allocations only add, and *)
(* the slot that swap_slots puts in its place has as many.                 *)
RefsUsable ==
  \A ref \in refs :
    /\ ref.n_scalars <= metadata[ref.slot].n_scalars
    /\ ref.n_vectors <= metadata[ref.slot].n_vectors
    /\ \A id \in Ids : Knows(ref, id) => ViewAt(ref.slot, id) # NoView

Current(ptr) == ptr.view # NoView /\ ViewAt(ptr.slot, ptr.id) = ptr.view

(* Only swap_slots moves a field away from a pointer taken to it: writes,  *)
(* copies and allocations leave the pointers of a graph built once valid,  *)
(* which is why the time loop copies slots and does not swap them          *)
(* (simulation_cycle.cpp:123).                                             *)
PointersStable ==
  [][held' = held /\ Current(held) =>
       Current(held)' \/ \E a, b \in Slots : SwapSlots(a, b)]_vars

-----------------------------------------------------------------------------
(* The array a buffer of a slot belongs to. *)
NameOf(id) ==
  IF id < VectorBase
  THEN [kind |-> "scalar", index |-> id \div 4, axis |-> 0, comp |-> id % 4]
  ELSE [kind |-> "vector", index |-> (id - VectorBase) \div 12,
        axis |-> ((id - VectorBase) % 12) \div 4, comp |-> id % 4]
IdOf(n) ==
  IF n.kind = "scalar" THEN ScalarHandle(n.index) + n.comp
  ELSE VectorHandle(n.index) + 4 * n.axis + n.comp

Fields == [s \in Slots |->
  [n \in {NameOf(id) : id \in {id \in Ids : ViewAt(s, id) # NoView}} |->
     memory[ViewAt(s, IdOf(n))]]]

Store == INSTANCE FieldStore WITH fields <- Fields

(* The registry has value semantics: with positions, views and handles     *)
(* forgotten it is a store of named arrays in which a write changes one    *)
(* array, a copy copies what the source holds and a swap exchanges slots.  *)
IsStore == Store!Spec
=============================================================================
