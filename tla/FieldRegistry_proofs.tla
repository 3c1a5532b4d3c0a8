------------------------ MODULE FieldRegistry_proofs ------------------------
(***************************************************************************)
(* Theorems about FieldRegistry, for every number of slots and fields,     *)
(* every set of sizes and values.                                          *)
(***************************************************************************)
EXTENDS FieldRegistry, TLAPS

(* The assumption on the pointers kept is a bound for model checking only. *)
LEMMA LayoutSizes ==
  /\ VectorBase \in Nat /\ BuffersPerSlot \in Nat
  /\ MaxSlots \in Nat /\ MaxSlots * BuffersPerSlot \in Nat
  /\ Slots \subseteq Nat /\ Ids \subseteq Nat
  /\ \A s \in Slots, id \in Ids : At(s, id) \in Int /\ At(s, 0) \in Int
<1>1. VectorBase \in Nat /\ BuffersPerSlot \in Nat
  BY RegistryAssumption DEF VectorBase, BuffersPerSlot, ScalarStride, VectorStride
<1>2. \A m \in Nat, n \in Nat : m * n \in Nat
  OBVIOUS
<1>. QED BY <1>1, <1>2, RegistryAssumption DEF Slots, Ids, At

(* The ranges of two slots do not overlap. *)
LEMMA SlotsApart ==
  ASSUME NEW s \in Slots, NEW t \in Slots, s < t
  PROVE  At(s, 0) + BuffersPerSlot <= At(t, 0)
<1>. DEFINE B == BuffersPerSlot
<1>1. B \in Nat /\ s \in Nat /\ t \in Nat
  BY LayoutSizes
<1>2. (t - s - 1) \in Nat
  BY <1>1
<1>3. (t - s - 1) * B \in Nat
  BY <1>1, <1>2
<1>4. (t - s - 1) * B = t * B - s * B - B
  BY <1>1
<1>5. t * B \in Nat /\ s * B \in Nat
  BY <1>1
<1>. QED BY <1>1, <1>3, <1>4, <1>5 DEF At

(* The range of a slot, and where a buffer of it is. *)
LEMMA SlotRange ==
  ASSUME NEW s \in Slots
  PROVE  /\ At(s, 0) \in Nat
         /\ At(s, 0) + BuffersPerSlot <= MaxSlots * BuffersPerSlot
         /\ \A id \in Int : At(s, id) = At(s, 0) + id
         /\ \A id \in Ids : At(s, id) \in Positions
<1>. DEFINE B == BuffersPerSlot
<1>1. B \in Nat /\ s \in Nat /\ MaxSlots \in Nat
  BY LayoutSizes
<1>2. MaxSlots - s - 1 \in Nat
  BY <1>1 DEF Slots
<1>3. (MaxSlots - s - 1) * B \in Nat /\ s * B \in Nat /\ MaxSlots * B \in Nat
  BY <1>1, <1>2
<1>4. (MaxSlots - s - 1) * B = MaxSlots * B - s * B - B
  BY <1>1
<1>5. At(s, 0) = s * B /\ \A id \in Int : At(s, id) = s * B + id
  BY <1>1, <1>3 DEF At
<1>6. s * B + B <= MaxSlots * B
  BY <1>1, <1>3, <1>4
<1>7. \A id \in Ids : s * B + id \in 0 .. MaxSlots * B - 1
  BY <1>1, <1>3, <1>6 DEF Ids
<1>. QED BY <1>1, <1>3, <1>5, <1>6, <1>7 DEF Positions, Ids

(* A position is one buffer of one slot. *)
LEMMA AtInjective ==
  ASSUME NEW s \in Slots, NEW t \in Slots, NEW i \in Ids, NEW j \in Ids,
         At(s, i) = At(t, j)
  PROVE  s = t /\ i = j
<1>1. At(s, i) = At(s, 0) + i /\ At(t, j) = At(t, 0) + j
  BY SlotRange DEF Ids
<1>2. At(s, 0) \in Nat /\ At(t, 0) \in Nat /\ BuffersPerSlot \in Nat
  BY SlotRange, LayoutSizes
<1>3. i \in Nat /\ j \in Nat /\ i < BuffersPerSlot /\ j < BuffersPerSlot
  BY <1>2 DEF Ids
<1>4. At(s, 0) + i = At(t, 0) + j
  BY <1>1
<1>5. ASSUME s < t PROVE FALSE
  <2>1. At(s, 0) + BuffersPerSlot <= At(t, 0)
    BY <1>5, SlotsApart
  <2>. QED BY <2>1, <1>2, <1>3, <1>4
<1>6. ASSUME t < s PROVE FALSE
  <2>1. At(t, 0) + BuffersPerSlot <= At(s, 0)
    BY <1>6, SlotsApart
  <2>. QED BY <2>1, <1>2, <1>3, <1>4
<1>7. s = t
  BY <1>5, <1>6, LayoutSizes
<1>8. At(s, 0) = At(t, 0)
  BY <1>7
<1>. QED BY <1>2, <1>3, <1>4, <1>7, <1>8

-----------------------------------------------------------------------------
(* The handles of a slot. *)

LEMMA HandleRange ==
  /\ \A i \in 0 .. MaxS - 1 : ScalarIds(i) \subseteq Ids /\ ScalarHandle(i) \in Nat
  /\ \A i \in 0 .. MaxV - 1 : VectorIds(i) \subseteq Ids /\ VectorHandle(i) \in Nat
BY RegistryAssumption DEF ScalarIds, VectorIds, ScalarHandle, VectorHandle, Ids,
   BuffersPerSlot, VectorBase, ScalarStride, VectorStride

(* What a ref, or the metadata of a slot, may be.                          *)
RefType == [slot : {-1} \cup Slots, n_scalars : 0 .. MaxS, n_vectors : 0 .. MaxV]

(* A ref of one more field knows the buffers of its handle as well, and    *)
(* they are new to it.                                                     *)
LEMMA OneMoreScalar ==
  ASSUME NEW ref \in RefType, NEW new \in RefType, ref.n_scalars < MaxS,
         new.n_scalars = ref.n_scalars + 1, new.n_vectors = ref.n_vectors
  PROVE  \A id \in Ids :
           /\ Knows(new, id) <=> Knows(ref, id) \/ id \in ScalarIds(ref.n_scalars)
           /\ ~ (Knows(ref, id) /\ id \in ScalarIds(ref.n_scalars))
BY RegistryAssumption DEF RefType, Knows, ScalarIds, VectorIds, ScalarHandle, VectorHandle,
   Ids, BuffersPerSlot, VectorBase, ScalarStride, VectorStride

(* The same of a vector.                                                   *)
LEMMA OneMoreVector ==
  ASSUME NEW ref \in RefType, NEW new \in RefType, ref.n_vectors < MaxV,
         new.n_vectors = ref.n_vectors + 1, new.n_scalars = ref.n_scalars
  PROVE  \A id \in Ids :
           /\ Knows(new, id) <=> Knows(ref, id) \/ id \in VectorIds(ref.n_vectors)
           /\ ~ (Knows(ref, id) /\ id \in VectorIds(ref.n_vectors))
BY RegistryAssumption DEF RefType, Knows, ScalarIds, VectorIds, ScalarHandle, VectorHandle,
   Ids, BuffersPerSlot, VectorBase, ScalarStride, VectorStride

(* What a ref of no more fields knows, one of as many or more knows. *)
LEMMA KnowsMonotone ==
  ASSUME NEW ref, NEW new, ref.n_scalars \in Nat, ref.n_vectors \in Nat,
         new.n_scalars \in Nat, new.n_vectors \in Nat,
         ref.n_scalars <= new.n_scalars, ref.n_vectors <= new.n_vectors
  PROVE  \A id \in Ids : Knows(ref, id) => Knows(new, id)
BY DEF Knows

-----------------------------------------------------------------------------
(* What the operations do to the views, buffer by buffer. *)

(* The new views are where they were asked for, and nowhere else. *)
LEMMA AllocateViews ==
  ASSUME TypeOK, NEW slot \in Slots, NEW h \in Nat, NEW n \in Nat,
         h .. h + n - 1 \subseteq Ids, NEW sizes \in Sizes, Allocate(slot, h, n, sizes)
  PROVE  /\ made' \in Nat /\ made' = made + n
         /\ buffers' \in [Positions -> 0 .. made']
         /\ memory' \in [1 .. made' -> [size : Nat, value : Values]]
         /\ NoSharing => NoSharing'
         /\ \A s \in Slots, id \in Ids :
              /\ s = slot /\ id \in h .. h + n - 1 => ViewAt(s, id)' # NoView
              /\ ~ (s = slot /\ id \in h .. h + n - 1) => ViewAt(s, id)' = ViewAt(s, id)
<1>. DEFINE first == At(slot, h)
            New(p) == p \in first .. first + n - 1
<1>1. made \in Nat /\ buffers \in [Positions -> 0 .. made] /\ made' = made + n
  BY DEF TypeOK, Allocate
<1>2. first \in Nat /\ first = At(slot, 0) + h
  BY SlotRange
<1>3. Positions \subseteq Int
  BY LayoutSizes DEF Positions
<1>4. buffers' = [p \in Positions |-> IF New(p) THEN made + 1 + p - first ELSE buffers[p]]
  BY DEF Allocate
<1>5. \A p \in Positions : New(p) => made + 1 + p - first \in made + 1 .. made + n
  BY <1>1, <1>2, <1>3
<1>6. buffers' \in [Positions -> 0 .. made']
  BY <1>1, <1>4, <1>5
<1>7. memory' \in [1 .. made' -> [size : Nat, value : Values]]
  <2>1. \A v \in 1 .. made + n : v > made => (v - made - 1) % 4 \in Components
    BY <1>1 DEF Components
  <2>2. \A v \in 1 .. made + n : v > made => sizes[(v - made - 1) % 4] \in Nat
    BY <2>1, RegistryAssumption
  <2>3. \A v \in 1 .. made + n : v <= made => memory[v] \in [size : Nat, value : Values]
    BY <1>1 DEF TypeOK
  <2>. DEFINE Fresh(v) == IF v <= made THEN memory[v]
                          ELSE [size |-> sizes[(v - made - 1) % 4], value |-> 0]
  <2>4. \A v \in 1 .. made + n : Fresh(v) \in [size : Nat, value : Values]
    BY <1>1, <2>2, <2>3, RegistryAssumption
  <2>5. memory' = [v \in 1 .. made + n |-> Fresh(v)]
    BY DEF Allocate
  <2>. HIDE DEF Fresh
  <2>. QED BY <2>4, <2>5, <1>1
<1>8. ASSUME NoSharing PROVE NoSharing'
  <2>. SUFFICES ASSUME NEW p \in Positions, NEW q \in Positions, p # q,
                       buffers'[p] # NoView, buffers'[p] = buffers'[q]
                PROVE  FALSE
    BY DEF NoSharing
  <2>1. buffers[p] \in 0 .. made /\ buffers[q] \in 0 .. made
    BY <1>1
  <2>2. CASE New(p) /\ New(q)
    BY <2>2, <1>1, <1>2, <1>3, <1>4
  <2>3. CASE ~ New(p) /\ ~ New(q)
    BY <2>3, <1>4, <1>8 DEF NoSharing
  <2>4. CASE New(p) /\ ~ New(q)
    BY <2>4, <2>1, <1>1, <1>4, <1>5
  <2>5. CASE ~ New(p) /\ New(q)
    BY <2>5, <2>1, <1>1, <1>4, <1>5
  <2>. QED BY <2>2, <2>3, <2>4, <2>5
<1>9. ASSUME NEW s \in Slots, NEW id \in Ids
      PROVE  /\ s = slot /\ id \in h .. h + n - 1 => ViewAt(s, id)' # NoView
             /\ ~ (s = slot /\ id \in h .. h + n - 1) => ViewAt(s, id)' = ViewAt(s, id)
  <2>1. At(s, id) \in Positions /\ At(s, id) = At(s, 0) + id /\ id \in Nat
    BY SlotRange, LayoutSizes DEF Ids
  <2>2. New(At(s, id)) <=> s = slot /\ id \in h .. h + n - 1
    <3>1. ASSUME s = slot PROVE New(At(s, id)) <=> id \in h .. h + n - 1
      <4>1. At(s, id) = At(slot, 0) + id
        BY <3>1, <2>1
      <4>2. At(slot, 0) \in Nat
        BY SlotRange
      <4>. QED BY <4>1, <4>2, <2>1, <1>2
    <3>2. ASSUME New(At(s, id)) PROVE s = slot
      <4>. DEFINE k == At(s, id) - first
      <4>1. k \in 0 .. n - 1
        BY <3>2, <2>1, <1>2, <1>3
      <4>2. h + k \in Ids
        BY <4>1
      <4>3. At(slot, h + k) = At(slot, 0) + (h + k)
        BY <4>2, SlotRange, LayoutSizes
      <4>4. At(slot, h + k) = At(s, id)
        BY <4>3, <2>1, <1>2, <1>3, SlotRange
      <4>. QED BY <4>2, <4>4, AtInjective
    <3>. QED BY <3>1, <3>2
  <2>3. ViewAt(s, id)' = IF New(At(s, id)) THEN made + 1 + At(s, id) - first ELSE ViewAt(s, id)
    BY <2>1, <1>4 DEF ViewAt
  <2>4. ASSUME New(At(s, id)) PROVE made + 1 + At(s, id) - first # NoView
    BY <2>4, <2>1, <1>1, <1>5 DEF NoView
  <2>. QED BY <2>2, <2>3, <2>4
<1>. QED BY <1>1, <1>6, <1>7, <1>8, <1>9

(* swap_slots exchanges the views of two slots. *)
LEMMA SwapViews ==
  ASSUME TypeOK, NEW a \in Slots, NEW b \in Slots, SwapSlots(a, b)
  PROVE  /\ buffers' \in [Positions -> 0 .. made]
         /\ NoSharing => NoSharing'
         /\ \A s \in Slots, id \in Ids :
              ViewAt(s, id)' = ViewAt(IF s = a THEN b ELSE IF s = b THEN a ELSE s, id)
<1>. DEFINE A == At(a, 0)
            C == At(b, 0)
            From(p) == IF p - A \in Ids THEN C + (p - A)
                       ELSE IF p - C \in Ids THEN A + (p - C) ELSE p
<1>1. A \in Nat /\ C \in Nat /\ BuffersPerSlot \in Nat /\ MaxSlots * BuffersPerSlot \in Nat
  BY SlotRange, LayoutSizes
<1>2. A + BuffersPerSlot <= MaxSlots * BuffersPerSlot
      /\ C + BuffersPerSlot <= MaxSlots * BuffersPerSlot
  BY SlotRange
<1>3. A = C \/ A + BuffersPerSlot <= C \/ C + BuffersPerSlot <= A
  BY SlotsApart, LayoutSizes
<1>4. Positions \subseteq Int /\ Positions = 0 .. MaxSlots * BuffersPerSlot - 1
  BY <1>1 DEF Positions
<1>5. ASSUME NEW p \in Positions PROVE From(p) \in Positions
  BY <1>1, <1>2, <1>4 DEF Ids
<1>6. ASSUME NEW p \in Positions, NEW q \in Positions, p # q PROVE From(p) # From(q)
  <2>. DEFINE B == BuffersPerSlot
  <2>1. p \in Int /\ q \in Int /\ A \in Int /\ C \in Int /\ B \in Nat
    BY <1>1, <1>4
  <2>2. \A x \in Int : x \in Ids <=> 0 <= x /\ x < B
    BY <1>1 DEF Ids
  <2>. HIDE DEF A, B, C
  <2>3. From(p) = IF A <= p /\ p < A + B THEN C + (p - A)
                  ELSE IF C <= p /\ p < C + B THEN A + (p - C) ELSE p
    BY <2>1, <2>2
  <2>4. From(q) = IF A <= q /\ q < A + B THEN C + (q - A)
                  ELSE IF C <= q /\ q < C + B THEN A + (q - C) ELSE q
    BY <2>1, <2>2
  <2>5. A = C \/ A + B <= C \/ C + B <= A
    BY <1>3 DEF A, B, C
  <2>. HIDE DEF From
  <2>. QED BY <1>6, <2>1, <2>3, <2>4, <2>5
<1>7. buffers' = [p \in Positions |-> buffers[From(p)]]
  <2>1. \A id \in Ids : ViewAt(a, id) = buffers[A + id] /\ ViewAt(b, id) = buffers[C + id]
    BY SlotRange, LayoutSizes DEF ViewAt
  <2>. QED BY <2>1 DEF SwapSlots
<1>8. buffers' \in [Positions -> 0 .. made]
  BY <1>5, <1>7 DEF TypeOK
<1>9. ASSUME NoSharing PROVE NoSharing'
  BY <1>5, <1>6, <1>7, <1>9 DEF NoSharing
<1>10. ASSUME NEW s \in Slots, NEW id \in Ids
       PROVE  ViewAt(s, id)' = ViewAt(IF s = a THEN b ELSE IF s = b THEN a ELSE s, id)
  <2>1. At(s, id) \in Positions /\ At(s, id) = At(s, 0) + id /\ id \in Int
        /\ At(s, 0) \in Nat
    BY SlotRange, LayoutSizes DEF Ids
  <2>2. At(a, id) = A + id /\ At(b, id) = C + id
    BY SlotRange, <2>1
  <2>3. ViewAt(s, id)' = buffers[From(At(s, id))]
    BY <1>7, <2>1 DEF ViewAt
  <2>4. CASE s = a
    BY <2>1, <2>2, <2>3, <2>4, <1>1 DEF ViewAt
  <2>5. CASE s # a /\ s = b
    <3>1. ~ (At(s, id) - A \in Ids)
      BY <2>1, <2>5, <1>1, <1>3, SlotsApart, LayoutSizes DEF Ids
    <3>. QED BY <3>1, <2>1, <2>2, <2>3, <2>5, <1>1 DEF ViewAt
  <2>6. CASE s # a /\ s # b
    <3>1. At(s, 0) + BuffersPerSlot <= A \/ A + BuffersPerSlot <= At(s, 0)
      BY <2>6, SlotsApart, LayoutSizes
    <3>2. At(s, 0) + BuffersPerSlot <= C \/ C + BuffersPerSlot <= At(s, 0)
      BY <2>6, SlotsApart, LayoutSizes
    <3>3. id >= 0 /\ id < BuffersPerSlot
      BY <1>1 DEF Ids
    <3>4. ~ (At(s, id) - A \in Ids) /\ ~ (At(s, id) - C \in Ids)
      BY <3>1, <3>2, <3>3, <2>1, <1>1 DEF Ids
    <3>. QED BY <3>4, <2>3, <2>6 DEF ViewAt
  <2>. QED BY <2>4, <2>5, <2>6
<1>. QED BY <1>8, <1>9, <1>10

-----------------------------------------------------------------------------
(* The inductive invariant: the counts have to match the views for a ref   *)
(* to stay usable, and types keep every view within the memory.            *)
Inv == TypeOK /\ NoSharing /\ CountsMatch /\ RefsUsable

(* An empty registry satisfies it.                                         *)
LEMMA InitInv == Init => Inv
<1>. SUFFICES ASSUME Init PROVE Inv
  OBVIOUS
<1>. USE DEF Init, NoView
<1>1. TypeOK
  BY RegistryAssumption, LayoutSizes DEF TypeOK, Positions, NoPointer
<1>2. NoSharing
  BY DEF NoSharing
<1>3. \A s \in Slots, id \in Ids : ViewAt(s, id) = NoView /\ ~ Knows(metadata[s], id)
  BY SlotRange DEF ViewAt, Knows
<1>4. CountsMatch /\ RefsUsable
  BY <1>3 DEF CountsMatch, RefsUsable
<1>. QED BY <1>1, <1>2, <1>4 DEF Inv

(* Refs of a slot to which fields are added stay usable. *)
LEMMA AllocateRefs ==
  ASSUME Inv, TypeOK', NEW slot \in Slots, NEW ref,
         ref.slot = slot,
         ref.n_scalars >= metadata[slot].n_scalars, ref.n_vectors >= metadata[slot].n_vectors,
         metadata' = [metadata EXCEPT ![slot] = ref], refs' = refs \cup {ref},
         CountsMatch',
         \A s \in Slots, id \in Ids : ViewAt(s, id) # NoView => ViewAt(s, id)' # NoView
  PROVE  RefsUsable'
<1>1. \A s \in Slots : /\ metadata[s].n_scalars \in Nat /\ metadata[s].n_vectors \in Nat
                       /\ metadata'[s].n_scalars >= metadata[s].n_scalars
                       /\ metadata'[s].n_vectors >= metadata[s].n_vectors
                       /\ metadata'[s].n_scalars \in Nat /\ metadata'[s].n_vectors \in Nat
  BY DEF Inv, TypeOK
<1>2. \A r \in refs : r.slot \in Slots /\ r.n_scalars \in Nat /\ r.n_vectors \in Nat
  BY DEF Inv, TypeOK
<1>3. ASSUME NEW r \in refs
      PROVE  /\ r.n_scalars <= metadata'[r.slot].n_scalars
             /\ r.n_vectors <= metadata'[r.slot].n_vectors
             /\ \A id \in Ids : Knows(r, id) => ViewAt(r.slot, id)' # NoView
  BY <1>1, <1>2 DEF Inv, RefsUsable
<1>4. metadata'[slot] = ref
  BY DEF Inv, TypeOK
<1>5. /\ ref.n_scalars <= metadata'[ref.slot].n_scalars
      /\ ref.n_vectors <= metadata'[ref.slot].n_vectors
      /\ \A id \in Ids : Knows(ref, id) => ViewAt(ref.slot, id)' # NoView
  BY <1>1, <1>4 DEF CountsMatch
<1>. QED BY <1>3, <1>5 DEF RefsUsable

(* allocate_scalar keeps it, ...                                           *)
LEMMA AllocateScalarInv ==
  ASSUME Inv, NEW slot \in Slots, NEW sizes \in Sizes, NEW i \in 0 .. MaxS - 1,
         AllocateScalar(slot, i, sizes)
  PROVE  Inv'
<1>. DEFINE ref == [slot |-> slot, n_scalars |-> metadata[slot].n_scalars + 1,
                    n_vectors |-> metadata[slot].n_vectors]
<1>1. /\ i = metadata[slot].n_scalars /\ Allocate(slot, ScalarHandle(i), ScalarStride, sizes)
      /\ metadata' = [metadata EXCEPT ![slot] = ref] /\ refs' = refs \cup {ref}
      /\ held' = held /\ writes' = writes
  BY DEF AllocateScalar
<1>2. metadata[slot] \in RefType /\ metadata[slot].n_scalars < MaxS
  BY <1>1, RegistryAssumption DEF Inv, TypeOK, RefType
<1>3. /\ ref \in RefType /\ ref.slot = slot
      /\ ref.n_scalars = metadata[slot].n_scalars + 1 /\ ref.n_vectors = metadata[slot].n_vectors
  <2>1. metadata[slot].n_scalars + 1 \in 0 .. MaxS
    BY <1>2, RegistryAssumption DEF RefType
  <2>. QED BY <2>1, <1>2 DEF RefType
<1>4. ScalarHandle(i) \in Nat /\ ScalarStride \in Nat
      /\ ScalarHandle(i) .. ScalarHandle(i) + ScalarStride - 1 = ScalarIds(i)
      /\ ScalarIds(i) \subseteq Ids
  BY HandleRange DEF ScalarIds, ScalarStride
<1>5. /\ made' \in Nat /\ made' = made + ScalarStride
      /\ buffers' \in [Positions -> 0 .. made']
      /\ memory' \in [1 .. made' -> [size : Nat, value : Values]]
      /\ NoSharing'
      /\ \A s \in Slots, id \in Ids :
           /\ s = slot /\ id \in ScalarIds(i) => ViewAt(s, id)' # NoView
           /\ ~ (s = slot /\ id \in ScalarIds(i)) => ViewAt(s, id)' = ViewAt(s, id)
  BY <1>1, <1>4, AllocateViews DEF Inv
<1>6. TypeOK'
  <2>1. metadata' \in [Slots -> RefType]
    BY <1>1, <1>3 DEF Inv, TypeOK, RefType
  <2>2. refs' \subseteq [slot : Slots, n_scalars : 0 .. MaxS, n_vectors : 0 .. MaxV]
    BY <1>1, <1>3 DEF Inv, TypeOK, RefType
  <2>3. \/ held' = NoPointer
        \/ held' \in [slot : Slots, id : Ids, view : 1 .. made']
    BY <1>1, <1>5 DEF Inv, TypeOK, ScalarStride
  <2>4. writes' \in Nat
    BY <1>1 DEF Inv, TypeOK
  <2>. QED BY <2>1, <2>2, <2>3, <2>4, <1>5 DEF TypeOK, RefType
<1>7. CountsMatch'
  <2>. SUFFICES ASSUME NEW s \in Slots
                PROVE  /\ \A id \in Ids : ViewAt(s, id)' # NoView <=> Knows(metadata'[s], id)
                       /\ metadata'[s].slot \in {-1, s}
    BY DEF CountsMatch
  <2>1. CASE s = slot
    <3>1. metadata'[s] = ref
      BY <1>1, <2>1 DEF Inv, TypeOK
    <3>2. \A id \in Ids : Knows(ref, id) <=> Knows(metadata[s], id) \/ id \in ScalarIds(i)
      BY <1>1, <1>2, <1>3, <2>1, OneMoreScalar
    <3>. QED BY <3>1, <3>2, <1>3, <1>5, <2>1 DEF Inv, CountsMatch
  <2>2. CASE s # slot
    <3>1. metadata'[s] = metadata[s]
      BY <1>1, <2>2 DEF Inv, TypeOK
    <3>. QED BY <3>1, <1>5, <2>2 DEF Inv, CountsMatch
  <2>. QED BY <2>1, <2>2
<1>8. RefsUsable'
  <2>1. ref.n_scalars >= metadata[slot].n_scalars /\ ref.n_vectors >= metadata[slot].n_vectors
    BY <1>2, <1>3 DEF RefType
  <2>. HIDE DEF ref
  <2>. QED BY <2>1, <1>1, <1>3, <1>5, <1>6, <1>7, AllocateRefs
<1>. QED BY <1>5, <1>6, <1>7, <1>8 DEF Inv

(* ... allocate_vector, ...                                                *)
LEMMA AllocateVectorInv ==
  ASSUME Inv, NEW slot \in Slots, NEW sizes \in Sizes, NEW i \in 0 .. MaxV - 1,
         AllocateVector(slot, i, sizes)
  PROVE  Inv'
<1>. DEFINE ref == [slot |-> slot, n_scalars |-> metadata[slot].n_scalars,
                    n_vectors |-> metadata[slot].n_vectors + 1]
<1>1. /\ i = metadata[slot].n_vectors /\ Allocate(slot, VectorHandle(i), VectorStride, sizes)
      /\ metadata' = [metadata EXCEPT ![slot] = ref] /\ refs' = refs \cup {ref}
      /\ held' = held /\ writes' = writes
  BY DEF AllocateVector
<1>2. metadata[slot] \in RefType /\ metadata[slot].n_vectors < MaxV
  BY <1>1, RegistryAssumption DEF Inv, TypeOK, RefType
<1>3. /\ ref \in RefType /\ ref.slot = slot
      /\ ref.n_scalars = metadata[slot].n_scalars /\ ref.n_vectors = metadata[slot].n_vectors + 1
  <2>1. metadata[slot].n_vectors + 1 \in 0 .. MaxV
    BY <1>2, RegistryAssumption DEF RefType
  <2>. QED BY <2>1, <1>2 DEF RefType
<1>4. VectorHandle(i) \in Nat /\ VectorStride \in Nat
      /\ VectorHandle(i) .. VectorHandle(i) + VectorStride - 1 = VectorIds(i)
      /\ VectorIds(i) \subseteq Ids
  BY HandleRange DEF VectorIds, VectorStride
<1>5. /\ made' \in Nat /\ made' = made + VectorStride
      /\ buffers' \in [Positions -> 0 .. made']
      /\ memory' \in [1 .. made' -> [size : Nat, value : Values]]
      /\ NoSharing'
      /\ \A s \in Slots, id \in Ids :
           /\ s = slot /\ id \in VectorIds(i) => ViewAt(s, id)' # NoView
           /\ ~ (s = slot /\ id \in VectorIds(i)) => ViewAt(s, id)' = ViewAt(s, id)
  BY <1>1, <1>4, AllocateViews DEF Inv
<1>6. TypeOK'
  <2>1. metadata' \in [Slots -> RefType]
    BY <1>1, <1>3 DEF Inv, TypeOK, RefType
  <2>2. refs' \subseteq [slot : Slots, n_scalars : 0 .. MaxS, n_vectors : 0 .. MaxV]
    BY <1>1, <1>3 DEF Inv, TypeOK, RefType
  <2>3. \/ held' = NoPointer
        \/ held' \in [slot : Slots, id : Ids, view : 1 .. made']
    BY <1>1, <1>5 DEF Inv, TypeOK, VectorStride
  <2>4. writes' \in Nat
    BY <1>1 DEF Inv, TypeOK
  <2>. QED BY <2>1, <2>2, <2>3, <2>4, <1>5 DEF TypeOK, RefType
<1>7. CountsMatch'
  <2>. SUFFICES ASSUME NEW s \in Slots
                PROVE  /\ \A id \in Ids : ViewAt(s, id)' # NoView <=> Knows(metadata'[s], id)
                       /\ metadata'[s].slot \in {-1, s}
    BY DEF CountsMatch
  <2>1. CASE s = slot
    <3>1. metadata'[s] = ref
      BY <1>1, <2>1 DEF Inv, TypeOK
    <3>2. \A id \in Ids : Knows(ref, id) <=> Knows(metadata[s], id) \/ id \in VectorIds(i)
      BY <1>1, <1>2, <1>3, <2>1, OneMoreVector
    <3>. QED BY <3>1, <3>2, <1>3, <1>5, <2>1 DEF Inv, CountsMatch
  <2>2. CASE s # slot
    <3>1. metadata'[s] = metadata[s]
      BY <1>1, <2>2 DEF Inv, TypeOK
    <3>. QED BY <3>1, <1>5, <2>2 DEF Inv, CountsMatch
  <2>. QED BY <2>1, <2>2
<1>8. RefsUsable'
  <2>1. ref.n_scalars >= metadata[slot].n_scalars /\ ref.n_vectors >= metadata[slot].n_vectors
    BY <1>2, <1>3 DEF RefType
  <2>. HIDE DEF ref
  <2>. QED BY <2>1, <1>1, <1>3, <1>5, <1>6, <1>7, AllocateRefs
<1>. QED BY <1>5, <1>6, <1>7, <1>8 DEF Inv

(* ... swap_slots, ...                                                     *)
LEMMA SwapInv ==
  ASSUME Inv, NEW a \in Slots, NEW b \in Slots, SwapSlots(a, b)
  PROVE  Inv'
<1>. DEFINE Other(s) == IF s = a THEN b ELSE IF s = b THEN a ELSE s
<1>1. TypeOK /\ metadata[a] \in RefType /\ metadata[b] \in RefType
  BY DEF Inv, TypeOK, RefType
<1>2. /\ buffers' \in [Positions -> 0 .. made] /\ NoSharing'
      /\ \A s \in Slots, id \in Ids : ViewAt(s, id)' = ViewAt(Other(s), id)
  BY <1>1, SwapViews DEF Inv
<1>3. \A s \in Slots :
        /\ metadata'[s] \in RefType
        /\ metadata'[s].slot \in {-1, s}
        /\ metadata'[s].n_scalars = metadata[Other(s)].n_scalars
        /\ metadata'[s].n_vectors = metadata[Other(s)].n_vectors
        /\ metadata'[s].n_scalars = metadata[s].n_scalars
        /\ metadata'[s].n_vectors = metadata[s].n_vectors
  BY <1>1 DEF SwapSlots, SameShape, Inv, TypeOK, RefType, CountsMatch
<1>4. TypeOK'
  <2>1. metadata' \in [Slots -> RefType]
    BY <1>1, <1>3 DEF SwapSlots, TypeOK
  <2>. QED BY <1>1, <1>2, <2>1 DEF SwapSlots, TypeOK, RefType
<1>5. CountsMatch'
  <2>1. ASSUME NEW s \in Slots, NEW id \in Ids
        PROVE  ViewAt(s, id)' # NoView <=> Knows(metadata'[s], id)
    <3>1. Other(s) \in Slots
      OBVIOUS
    <3>2. Knows(metadata'[s], id) <=> Knows(metadata[Other(s)], id)
      BY <1>3 DEF Knows
    <3>. QED BY <1>2, <3>1, <3>2 DEF Inv, CountsMatch
  <2>. QED BY <2>1, <1>3 DEF CountsMatch
<1>6. RefsUsable'
  <2>. SUFFICES ASSUME NEW r \in refs
                PROVE  /\ r.n_scalars <= metadata'[r.slot].n_scalars
                       /\ r.n_vectors <= metadata'[r.slot].n_vectors
                       /\ \A id \in Ids : Knows(r, id) => ViewAt(r.slot, id)' # NoView
    BY DEF SwapSlots, RefsUsable
  <2>1. r.slot \in Slots /\ r.n_scalars \in Nat /\ r.n_vectors \in Nat
    BY <1>1 DEF TypeOK
  <2>2. metadata'[r.slot].n_scalars \in Nat /\ metadata'[r.slot].n_vectors \in Nat
    BY <1>3, <2>1, RegistryAssumption DEF RefType
  <2>3. /\ r.n_scalars <= metadata'[r.slot].n_scalars
        /\ r.n_vectors <= metadata'[r.slot].n_vectors
    BY <1>3, <2>1 DEF Inv, RefsUsable
  <2>4. \A id \in Ids : Knows(r, id) => Knows(metadata'[r.slot], id)
    BY <2>1, <2>2, <2>3, KnowsMonotone
  <2>. QED BY <2>1, <2>3, <2>4, <1>5 DEF CountsMatch
<1>. QED BY <1>2, <1>4, <1>5, <1>6 DEF Inv

(* Copying changes what views hold, not where they are. *)
LEMMA DeepCopyInv ==
  ASSUME Inv, NEW dst \in Slots, NEW src \in Slots, DeepCopySlot(dst, src)
  PROVE  Inv'
<1>1. TypeOK /\ made \in Nat /\ memory \in [1 .. made -> [size : Nat, value : Values]]
  BY DEF Inv, TypeOK
<1>2. ASSUME NEW id \in CopiedIds(src) PROVE ViewAt(src, id) \in 1 .. made
  <2>1. id \in Ids /\ ViewAt(src, id) # NoView
    BY DEF CopiedIds, Extent
  <2>2. ViewAt(src, id) \in 0 .. made
    BY <2>1, <1>1, SlotRange DEF ViewAt, TypeOK
  <2>. QED BY <2>1, <2>2, <1>1 DEF NoView
<1>3. ASSUME NEW v, v \in {ViewAt(dst, id) : id \in CopiedIds(src)}
      PROVE  SourceOf(dst, src, v) \in 1 .. made
  <2>1. \E id \in CopiedIds(src) : ViewAt(dst, id) = v
    BY <1>3
  <2>2. (CHOOSE id \in CopiedIds(src) : ViewAt(dst, id) = v) \in CopiedIds(src)
    BY <2>1
  <2>. QED BY <2>2, <1>2 DEF SourceOf
<1>4. memory' \in [1 .. made -> [size : Nat, value : Values]]
  BY <1>1, <1>3 DEF DeepCopySlot
<1>5. TypeOK'
  BY <1>1, <1>4 DEF DeepCopySlot, TypeOK
<1>. QED BY <1>5 DEF DeepCopySlot, Inv, NoSharing, CountsMatch, RefsUsable, ViewAt

(* ... taking a pointer ...                                                *)
LEMMA TakePointerInv ==
  ASSUME Inv, NEW ref \in refs, NEW id \in Ids, TakePointer(ref, id)
  PROVE  Inv'
<1>1. ref.slot \in Slots /\ ViewAt(ref.slot, id) # NoView
  BY DEF TakePointer, Inv, TypeOK, RefsUsable
<1>2. ViewAt(ref.slot, id) \in 0 .. made /\ made \in Nat
  BY <1>1, SlotRange DEF ViewAt, Inv, TypeOK
<1>3. held' \in [slot : Slots, id : Ids, view : 1 .. made]
  BY <1>1, <1>2 DEF TakePointer, NoView
<1>4. TypeOK'
  BY <1>3 DEF TakePointer, Inv, TypeOK
<1>. QED BY <1>4 DEF TakePointer, Inv, NoSharing, CountsMatch, RefsUsable, ViewAt

(* ... and writing through it.                                             *)
LEMMA WritePointerInv ==
  ASSUME Inv, NEW v \in Values, WritePointer(v)
  PROVE  Inv'
<1>1. held \in [slot : Slots, id : Ids, view : 1 .. made]
  BY DEF WritePointer, Inv, TypeOK
<1>2. TypeOK'
  BY <1>1 DEF WritePointer, Inv, TypeOK
<1>. QED BY <1>2 DEF WritePointer, Inv, NoSharing, CountsMatch, RefsUsable, ViewAt

(* Every step keeps the invariant.                                         *)
LEMMA InvInductive == Inv /\ [Next]_vars => Inv'
<1>. SUFFICES ASSUME Inv, [Next]_vars PROVE Inv'
  OBVIOUS
<1>1. ASSUME UNCHANGED vars PROVE Inv'
  BY <1>1 DEF vars, Inv, TypeOK, NoSharing, CountsMatch, RefsUsable, ViewAt
<1>. QED
  BY <1>1, AllocateScalarInv, AllocateVectorInv, TakePointerInv, WritePointerInv,
     DeepCopyInv, SwapInv DEF Next

(* Every reachable state satisfies the invariant. *)
LEMMA Invariance == Spec => []Inv
BY InitInv, InvInductive, PTL DEF Spec

(* Positions, views and refs keep to their ranges. *)
THEOREM RegistryTypes == Spec => []TypeOK
BY Invariance, PTL DEF Inv

(* However slots are allocated, copied and swapped, no memory belongs to   *)
(* two buffers of field_registry.                                          *)
THEOREM RegistryNoSharing == Spec => []NoSharing
BY Invariance, PTL DEF Inv

(* The metadata of a slot counts the fields it has. *)
THEOREM RegistryCounts == Spec => []CountsMatch
BY Invariance, PTL DEF Inv

(* A field_ref, once handed out, can be used for good. *)
THEOREM RegistryRefs == Spec => []RefsUsable
BY Invariance, PTL DEF Inv

-----------------------------------------------------------------------------
(* Allocation puts new views only where there were none. *)
LEMMA AllocateKeeps ==
  ASSUME Inv, NEW slot \in Slots, NEW sizes \in Sizes,
         \/ \E i \in 0 .. MaxS - 1 : AllocateScalar(slot, i, sizes)
         \/ \E i \in 0 .. MaxV - 1 : AllocateVector(slot, i, sizes)
  PROVE  \A s \in Slots, id \in Ids :
           ViewAt(s, id) # NoView => ViewAt(s, id)' = ViewAt(s, id)
<1>. SUFFICES ASSUME NEW s \in Slots, NEW id \in Ids, ViewAt(s, id) # NoView
              PROVE  ViewAt(s, id)' = ViewAt(s, id)
  OBVIOUS
<1>1. TypeOK /\ metadata[slot] \in RefType /\ Knows(metadata[s], id)
  BY DEF Inv, TypeOK, CountsMatch, RefType
<1>2. CASE \E i \in 0 .. MaxS - 1 : AllocateScalar(slot, i, sizes)
  <2>1. PICK i \in 0 .. MaxS - 1 : AllocateScalar(slot, i, sizes)
    BY <1>2
  <2>2. i = metadata[slot].n_scalars /\ Allocate(slot, ScalarHandle(i), ScalarStride, sizes)
    BY <2>1 DEF AllocateScalar
  <2>3. [metadata[slot] EXCEPT !.n_scalars = i + 1] \in RefType
    BY <1>1, RegistryAssumption DEF RefType
  <2>4. ~ (s = slot /\ id \in ScalarIds(i))
    BY <1>1, <2>2, <2>3, OneMoreScalar, RegistryAssumption DEF RefType
  <2>5. ScalarHandle(i) \in Nat /\ ScalarStride \in Nat
        /\ ScalarHandle(i) .. ScalarHandle(i) + ScalarStride - 1 = ScalarIds(i)
        /\ ScalarIds(i) \subseteq Ids
    BY HandleRange DEF ScalarIds, ScalarStride
  <2>. QED BY <1>1, <2>2, <2>4, <2>5, AllocateViews
<1>3. CASE \E i \in 0 .. MaxV - 1 : AllocateVector(slot, i, sizes)
  <2>1. PICK i \in 0 .. MaxV - 1 : AllocateVector(slot, i, sizes)
    BY <1>3
  <2>2. i = metadata[slot].n_vectors /\ Allocate(slot, VectorHandle(i), VectorStride, sizes)
    BY <2>1 DEF AllocateVector
  <2>3. [metadata[slot] EXCEPT !.n_vectors = i + 1] \in RefType
    BY <1>1, RegistryAssumption DEF RefType
  <2>4. ~ (s = slot /\ id \in VectorIds(i))
    BY <1>1, <2>2, <2>3, OneMoreVector, RegistryAssumption DEF RefType
  <2>5. VectorHandle(i) \in Nat /\ VectorStride \in Nat
        /\ VectorHandle(i) .. VectorHandle(i) + VectorStride - 1 = VectorIds(i)
        /\ VectorIds(i) \subseteq Ids
    BY HandleRange DEF VectorIds, VectorStride
  <2>. QED BY <1>1, <2>2, <2>4, <2>5, AllocateViews
<1>. QED BY <1>2, <1>3

(* A step that leaves a pointer alone leaves it good, or swaps slots.      *)
LEMMA PointerStep ==
  ASSUME Inv, Next, held' = held, Current(held)
  PROVE  Current(held)' \/ \E a, b \in Slots : SwapSlots(a, b)
<1>1. held \in [slot : Slots, id : Ids, view : 1 .. made]
  BY DEF Inv, TypeOK, Current, NoPointer
<1>2. CASE \E s \in Slots, sizes \in Sizes :
             \/ \E i \in 0 .. MaxS - 1 : AllocateScalar(s, i, sizes)
             \/ \E i \in 0 .. MaxV - 1 : AllocateVector(s, i, sizes)
  BY <1>1, <1>2, AllocateKeeps DEF Current
<1>3. CASE \E ref \in refs, id \in Ids : TakePointer(ref, id)
  BY <1>3 DEF TakePointer, Current, ViewAt
<1>4. CASE \E v \in Values : WritePointer(v)
  BY <1>4 DEF WritePointer, Current, ViewAt
<1>5. CASE \E a, b \in Slots : DeepCopySlot(a, b)
  BY <1>5 DEF DeepCopySlot, Current, ViewAt
<1>. QED BY <1>2, <1>3, <1>4, <1>5 DEF Next

(* The pointers a right-hand-side graph holds stay good as long as slots   *)
(* are copied and not swapped.                                             *)
THEOREM RegistryPointers == Spec => PointersStable
<1>1. Inv /\ [Next]_vars =>
        [held' = held /\ Current(held) =>
           Current(held)' \/ \E a, b \in Slots : SwapSlots(a, b)]_vars
  BY PointerStep
<1>. QED BY <1>1, Invariance, PTL DEF Spec, PointersStable

-----------------------------------------------------------------------------
(* The store behind the positions.  The buffers of a slot that have a view *)
(* are the arrays of the slot.                                             *)
InUse(s) == {id \in Ids : ViewAt(s, id) # NoView}

(* A buffer's name determines it. *)
LEMMA NameInverse ==
  /\ \A id \in Ids : IdOf(NameOf(id)) = id
  /\ \A i, j \in Ids : NameOf(i) = NameOf(j) => i = j
<1>1. ASSUME NEW id \in Ids PROVE IdOf(NameOf(id)) = id
  <2>1. id \in Nat /\ VectorBase = MaxS * 4 /\ MaxS \in Nat /\ VectorBase \in Nat
    BY LayoutSizes, RegistryAssumption DEF VectorBase, ScalarStride
  <2>2. CASE id < VectorBase
    <3>1. IdOf(NameOf(id)) = (id \div 4) * 4 + (id % 4)
      BY <2>2 DEF NameOf, IdOf, ScalarHandle, ScalarStride
    <3>2. \A x \in Nat : (x \div 4) * 4 + (x % 4) = x
      OBVIOUS
    <3> QED
      BY <2>1, <3>1, <3>2
  <2>3. CASE ~(id < VectorBase)
    <3> DEFINE x == id - VectorBase
    <3>1. IdOf(NameOf(id)) = VectorBase + (x \div 12) * 12 + 4 * ((x % 12) \div 4) + (id % 4)
      BY <2>3 DEF NameOf, IdOf, VectorHandle, VectorStride
    <3>2. \A y \in Nat, m \in Nat :
            (y \div 12) * 12 + 4 * ((y % 12) \div 4) + ((m * 4 + y) % 4) = y
      OBVIOUS
    <3>3. x \in Nat /\ id = MaxS * 4 + x
      BY <2>1, <2>3
    <3>4. (x \div 12) * 12 + 4 * ((x % 12) \div 4) + (id % 4) = x
      BY <2>1, <3>2, <3>3
    <3>5. (x \div 12) * 12 \in Int /\ 4 * ((x % 12) \div 4) \in Int /\ id % 4 \in Int
      BY <2>1, <3>3
    <3> QED
      BY <2>1, <3>1, <3>3, <3>4, <3>5
  <2> QED
    BY <2>2, <2>3
<1> QED
  BY <1>1

(* The names of the buffers of a handle. *)
LEMMA HandleNames ==
  /\ \A i \in 0 .. MaxS - 1 :
       /\ \A c \in Components :
            /\ ScalarHandle(i) + c \in ScalarIds(i)
            /\ NameOf(ScalarHandle(i) + c)
                 = [kind |-> "scalar", index |-> i, axis |-> 0, comp |-> c]
       /\ \A id \in ScalarIds(i) : id - ScalarHandle(i) \in Components
  /\ \A i \in 0 .. MaxV - 1 :
       /\ \A a \in Store!Axes, c \in Components :
            /\ VectorHandle(i) + 4 * a + c \in VectorIds(i)
            /\ NameOf(VectorHandle(i) + 4 * a + c)
                 = [kind |-> "vector", index |-> i, axis |-> a, comp |-> c]
       /\ \A id \in VectorIds(i) : \E a \in Store!Axes, c \in Components :
            id = VectorHandle(i) + 4 * a + c
<1>1. MaxS \in Nat /\ MaxV \in Nat /\ VectorBase = MaxS * 4 /\ VectorBase \in Nat
  BY LayoutSizes, RegistryAssumption DEF VectorBase, ScalarStride
<1>2. ASSUME NEW i \in 0 .. MaxS - 1
      PROVE  /\ \A c \in Components :
                  /\ ScalarHandle(i) + c \in ScalarIds(i)
                  /\ NameOf(ScalarHandle(i) + c)
                       = [kind |-> "scalar", index |-> i, axis |-> 0, comp |-> c]
             /\ \A id \in ScalarIds(i) : id - ScalarHandle(i) \in Components
  <2>1. ASSUME NEW c \in Components
        PROVE  /\ ScalarHandle(i) + c \in ScalarIds(i)
               /\ ScalarHandle(i) + c < VectorBase
               /\ (ScalarHandle(i) + c) \div 4 = i /\ (ScalarHandle(i) + c) % 4 = c
    BY <1>1 DEF ScalarHandle, ScalarIds, ScalarStride, Components
  <2>2. \A id \in ScalarIds(i) : id - ScalarHandle(i) \in Components
    BY <1>1 DEF ScalarHandle, ScalarIds, ScalarStride, Components
  <2> QED
    BY <2>1, <2>2 DEF NameOf
<1>3. ASSUME NEW i \in 0 .. MaxV - 1
      PROVE  /\ \A a \in Store!Axes, c \in Components :
                  /\ VectorHandle(i) + 4 * a + c \in VectorIds(i)
                  /\ NameOf(VectorHandle(i) + 4 * a + c)
                       = [kind |-> "vector", index |-> i, axis |-> a, comp |-> c]
             /\ \A id \in VectorIds(i) : \E a \in Store!Axes, c \in Components :
                  id = VectorHandle(i) + 4 * a + c
  <2>1. ASSUME NEW a \in Store!Axes, NEW c \in Components
        PROVE  /\ VectorHandle(i) + 4 * a + c \in VectorIds(i)
               /\ NameOf(VectorHandle(i) + 4 * a + c)
                    = [kind |-> "vector", index |-> i, axis |-> a, comp |-> c]
    <3> DEFINE h == VectorHandle(i) + 4 * a + c
    <3>1. /\ a \in {0, 1, 2} /\ c \in {0, 1, 2, 3} /\ i \in Nat
          /\ h = MaxS * 4 + i * 12 + 4 * a + c
      BY <1>1 DEF VectorHandle, VectorStride, Components, Store!Axes
    <3>2. ~(h < VectorBase) /\ h - VectorBase = 12 * i + 4 * a + c /\ h \in Int
      BY <1>1, <3>1
    <3>3. \A y \in {0, 1, 2} : \A z \in {0, 1, 2, 3} : \A x, m \in Nat :
            /\ (12 * x + 4 * y + z) \div 12 = x
            /\ ((12 * x + 4 * y + z) % 12) \div 4 = y
            /\ (m * 4 + x * 12 + 4 * y + z) % 4 = z
      OBVIOUS
    <3>4. (h - VectorBase) \div 12 = i /\ ((h - VectorBase) % 12) \div 4 = a /\ h % 4 = c
      BY <1>1, <3>1, <3>2, <3>3
    <3>5. h \in VectorIds(i)
      BY <1>1, <3>1 DEF VectorIds, VectorHandle, VectorStride
    <3> QED
      BY <3>2, <3>4, <3>5 DEF NameOf
  <2>2. ASSUME NEW id \in VectorIds(i)
        PROVE  \E a \in Store!Axes, c \in Components : id = VectorHandle(i) + 4 * a + c
    <3> DEFINE x == id - VectorHandle(i)
    <3>1. x \in 0 .. 11 /\ VectorHandle(i) \in Int /\ id \in Int
      BY <1>1 DEF VectorIds, VectorHandle, VectorStride
    <3>2. \A y \in 0 .. 11 : y \div 4 \in 0 .. 2 /\ y % 4 \in 0 .. 3 /\ y = 4 * (y \div 4) + (y % 4)
      OBVIOUS
    <3>3. x \div 4 \in Store!Axes /\ x % 4 \in Components
      BY <3>1, <3>2 DEF Store!Axes, Components
    <3>4. id = VectorHandle(i) + 4 * (x \div 4) + (x % 4)
      <4>1. \A h, k \in Int : k - h \in 0 .. 11 =>
              k = h + 4 * ((k - h) \div 4) + ((k - h) % 4)
        OBVIOUS
      <4> QED
        BY <3>1, <4>1
    <3> QED
      BY <3>3, <3>4
  <2> QED
    BY <2>1, <2>2
<1> QED
  BY <1>2, <1>3

(* The names of the arrays of a field. *)
LEMMA FieldNames ==
  /\ \A i \in 0 .. MaxS - 1 : {NameOf(id) : id \in ScalarIds(i)} = Store!ScalarNames(i)
  /\ \A i \in 0 .. MaxV - 1 : {NameOf(id) : id \in VectorIds(i)} = Store!VectorNames(i)
<1>1. ASSUME NEW i \in 0 .. MaxS - 1
      PROVE  {NameOf(id) : id \in ScalarIds(i)} = Store!ScalarNames(i)
  <2> DEFINE Name(c) == [kind |-> "scalar", index |-> i, axis |-> 0, comp |-> c]
  <2>1. \A c \in Components : ScalarHandle(i) + c \in ScalarIds(i)
                              /\ NameOf(ScalarHandle(i) + c) = Name(c)
    BY HandleNames
  <2>2. \A id \in ScalarIds(i) : \E c \in Components : id = ScalarHandle(i) + c
    <3> TAKE id \in ScalarIds(i)
    <3>1. id - ScalarHandle(i) \in Components
      BY HandleNames
    <3>2. id \in Int /\ ScalarHandle(i) \in Int
      BY HandleRange DEF ScalarIds
    <3> QED
      BY <3>1, <3>2
  <2>3. Store!ScalarNames(i) = {Name(c) : c \in Components}
    BY DEF Store!ScalarNames, Store!Components, Components
  <2> HIDE DEF Name
  <2> QED
    BY <2>1, <2>2, <2>3
<1>2. ASSUME NEW i \in 0 .. MaxV - 1
      PROVE  {NameOf(id) : id \in VectorIds(i)} = Store!VectorNames(i)
  <2> DEFINE Name(a, c) == [kind |-> "vector", index |-> i, axis |-> a, comp |-> c]
             Id(a, c) == VectorHandle(i) + 4 * a + c
  <2>1. \A a \in Store!Axes, c \in Components :
          Id(a, c) \in VectorIds(i) /\ NameOf(Id(a, c)) = Name(a, c)
    BY HandleNames
  <2>2. \A id \in VectorIds(i) : \E a \in Store!Axes, c \in Components : id = Id(a, c)
    BY HandleNames
  <2>3. Store!VectorNames(i) = {Name(a, c) : a \in Store!Axes, c \in Components}
    BY DEF Store!VectorNames, Store!Components, Components
  <2> HIDE DEF Name, Id
  <2> QED
    BY <2>1, <2>2, <2>3
<1> QED
  BY <1>1, <1>2

(* The arrays of a slot, and what they hold. *)
LEMMA FieldsOf ==
  /\ DOMAIN Fields = Slots
  /\ \A s \in Slots :
       /\ Fields[s] = [n \in DOMAIN Fields[s] |-> Fields[s][n]]
       /\ DOMAIN Fields[s] = {NameOf(id) : id \in InUse(s)}
       /\ \A id \in InUse(s) : Fields[s][NameOf(id)] = memory[ViewAt(s, id)]
<1> SUFFICES ASSUME NEW s \in Slots
             PROVE  /\ Fields[s] = [n \in DOMAIN Fields[s] |-> Fields[s][n]]
                    /\ DOMAIN Fields[s] = {NameOf(id) : id \in InUse(s)}
                    /\ \A id \in InUse(s) : Fields[s][NameOf(id)] = memory[ViewAt(s, id)]
  BY DEF Fields
<1>1. Fields[s] = [n \in {NameOf(id) : id \in InUse(s)} |-> memory[ViewAt(s, IdOf(n))]]
  BY DEF Fields, InUse
<1>2. \A id \in InUse(s) : IdOf(NameOf(id)) = id
  BY NameInverse DEF InUse
<1> QED
  BY <1>1, <1>2

(* A function of slots whose arrays are those of the next state. *)
IsNext(g) ==
  /\ DOMAIN g = Slots /\ g = [s \in DOMAIN g |-> g[s]]
  /\ \A s \in Slots :
       /\ g[s] = [n \in DOMAIN g[s] |-> g[s][n]]
       /\ DOMAIN g[s] = {NameOf(id) : id \in InUse(s)'}
       /\ \A id \in InUse(s)' : g[s][NameOf(id)] = memory'[ViewAt(s, id)']

(* It is the only one.                                                     *)
LEMMA NextFields ==
  ASSUME NEW g, IsNext(g)
  PROVE  Fields' = g
<1>1. Fields' = [s \in Slots |->
                   [n \in {NameOf(id) : id \in InUse(s)'} |-> memory'[ViewAt(s, IdOf(n))']]]
  BY DEF Fields, InUse
<1>0. /\ DOMAIN g = Slots /\ g = [s \in DOMAIN g |-> g[s]]
      /\ \A s \in Slots :
           /\ g[s] = [n \in DOMAIN g[s] |-> g[s][n]]
           /\ DOMAIN g[s] = {NameOf(id) : id \in InUse(s)'}
           /\ \A id \in InUse(s)' : g[s][NameOf(id)] = memory'[ViewAt(s, id)']
  BY DEF IsNext
<1>2. ASSUME NEW s \in Slots
      PROVE  g[s] = [n \in {NameOf(id) : id \in InUse(s)'} |-> memory'[ViewAt(s, IdOf(n))']]
  <2>1. ASSUME NEW n \in DOMAIN g[s] PROVE g[s][n] = memory'[ViewAt(s, IdOf(n))']
    <3>1. PICK id \in InUse(s)' : n = NameOf(id)
      BY <1>0, <2>1
    <3>2. IdOf(n) = id
      BY <3>1, NameInverse DEF InUse
    <3> QED
      BY <1>0, <3>1, <3>2
  <2> QED
    BY <1>0, <2>1
<1> QED
  BY <1>0, <1>1, <1>2

-----------------------------------------------------------------------------
(* Every view made is in a buffer: none is lost to an allocation or a      *)
(* swap, so a pointer writes to an array of the store.                     *)
Placed == \A v \in 1 .. made : \E s \in Slots, id \in Ids : ViewAt(s, id) = v

(* What the store's steps rest on.                                         *)
StoreInv == Inv /\ Placed

(* A view is in one buffer only. *)
LEMMA OneBuffer ==
  ASSUME Inv, NEW s \in Slots, NEW t \in Slots, NEW i \in Ids, NEW j \in Ids,
         ViewAt(s, i) # NoView, ViewAt(s, i) = ViewAt(t, j)
  PROVE  s = t /\ i = j
<1>1. At(s, i) \in Positions /\ At(t, j) \in Positions
  BY SlotRange
<1>2. At(s, i) = At(t, j)
  BY <1>1 DEF ViewAt, Inv, NoSharing
<1> QED
  BY <1>2, AtInjective

-----------------------------------------------------------------------------
(* New views are numbered in the order of the buffers they are put in and  *)
(* hold zeros of the sizes asked for.                                      *)
LEMMA AllocateContents ==
  ASSUME TypeOK, NEW slot \in Slots, NEW h \in Nat, NEW n \in Nat,
         h .. h + n - 1 \subseteq Ids, NEW sizes \in Sizes, Allocate(slot, h, n, sizes)
  PROVE  /\ \A id \in h .. h + n - 1 :
              /\ ViewAt(slot, id)' = made + 1 + (id - h)
              /\ memory'[ViewAt(slot, id)'] = [size |-> sizes[(id - h) % 4], value |-> 0]
         /\ \A v \in 1 .. made : memory'[v] = memory[v]
<1>1. made \in Nat
  BY DEF TypeOK
<1>2. ASSUME NEW id \in h .. h + n - 1
      PROVE  /\ ViewAt(slot, id)' = made + 1 + (id - h)
             /\ memory'[ViewAt(slot, id)'] = [size |-> sizes[(id - h) % 4], value |-> 0]
  <2>1. id \in Ids /\ id \in Nat /\ At(slot, 0) \in Nat
        /\ At(slot, id) = At(slot, 0) + id /\ At(slot, h) = At(slot, 0) + h
        /\ At(slot, id) \in Positions
    BY SlotRange
  <2>2. At(slot, id) \in At(slot, h) .. At(slot, h) + n - 1
        /\ made + 1 + At(slot, id) - At(slot, h) = made + 1 + (id - h)
    <3> HIDE DEF At
    <3> QED
      BY <1>1, <2>1
  <2>3. ViewAt(slot, id)' = made + 1 + (id - h)
    <3>1. ViewAt(slot, id)' = made + 1 + At(slot, id) - At(slot, h)
      BY <2>1, <2>2 DEF ViewAt, Allocate
    <3> QED
      BY <2>2, <3>1
  <2>4. memory'[made + 1 + (id - h)] = [size |-> sizes[(id - h) % 4], value |-> 0]
    <3> DEFINE v == made + 1 + (id - h)
    <3>1. v \in 1 .. made + n /\ ~(v <= made) /\ v - made - 1 = id - h
      BY <1>1
    <3> HIDE DEF v
    <3>2. memory'[v] = [size |-> sizes[(v - made - 1) % 4], value |-> 0]
      BY <3>1 DEF Allocate
    <3> QED
      BY <3>1, <3>2 DEF v
  <2> QED
    BY <2>3, <2>4
<1>3. ASSUME NEW v \in 1 .. made PROVE memory'[v] = memory[v]
  <2>1. v \in 1 .. made + n /\ v <= made
    BY <1>1
  <2> QED
    BY <2>1 DEF Allocate
<1> QED
  BY <1>2, <1>3

(* Allocation at buffers without a view adds the arrays named after them,  *)
(* changes no other, and loses no view.                                    *)
LEMMA AllocateAdds ==
  ASSUME StoreInv, NEW slot \in Slots, NEW h \in Nat, NEW n \in Nat,
         h .. h + n - 1 \subseteq Ids, NEW sizes \in Sizes, Allocate(slot, h, n, sizes),
         \A id \in h .. h + n - 1 : ViewAt(slot, id) = NoView,
         \A id \in h .. h + n - 1 : NameOf(id).comp = (id - h) % 4
  PROVE  /\ Fields' = Store!Added(Fields, slot, {NameOf(id) : id \in h .. h + n - 1}, sizes)
         /\ Placed'
<1> DEFINE R == h .. h + n - 1
           names == {NameOf(id) : id \in R}
           g == Store!Added(Fields, slot, names, sizes)
<1>1. /\ made \in Nat /\ made' = made + n
      /\ \A s \in Slots, id \in Ids :
           ~ (s = slot /\ id \in R) => ViewAt(s, id)' = ViewAt(s, id)
      /\ \A s \in Slots, id \in Ids : s = slot /\ id \in R => ViewAt(s, id)' # NoView
  <2>1. TypeOK /\ made \in Nat
    BY DEF StoreInv, Inv, TypeOK
  <2> QED
    BY <2>1, AllocateViews
<1>2. /\ \A id \in R :
           /\ ViewAt(slot, id)' = made + 1 + (id - h)
           /\ memory'[ViewAt(slot, id)'] = [size |-> sizes[(id - h) % 4], value |-> 0]
      /\ \A v \in 1 .. made : memory'[v] = memory[v]
  BY AllocateContents DEF StoreInv, Inv
<1>3. \A s \in Slots, id \in Ids : ViewAt(s, id) # NoView => ViewAt(s, id) \in 1 .. made
  <2>1. \A s \in Slots, id \in Ids : ViewAt(s, id) \in 0 .. made
    BY SlotRange DEF ViewAt, StoreInv, Inv, TypeOK
  <2> QED
    BY <1>1, <2>1 DEF NoView
<1>4. InUse(slot)' = InUse(slot) \cup R /\ InUse(slot) \cap R = {}
      /\ \A s \in Slots : s # slot => InUse(s)' = InUse(s)
  BY <1>1 DEF InUse
<1>5. Placed'
  <2> SUFFICES ASSUME NEW v \in 1 .. made + n
               PROVE  \E s \in Slots, id \in Ids : ViewAt(s, id)' = v
    BY <1>1 DEF Placed
  <2>1. CASE v <= made
    <3>1. PICK s \in Slots, id \in Ids : ViewAt(s, id) = v
      BY <1>1, <2>1 DEF StoreInv, Placed
    <3>2. ViewAt(s, id) # NoView
      BY <3>1 DEF NoView
    <3>3. ViewAt(s, id)' = v
      BY <1>1, <3>1, <3>2
    <3> QED
      BY <3>3
  <2>2. CASE ~(v <= made)
    <3>1. h + (v - made - 1) \in R /\ made + 1 + ((h + (v - made - 1)) - h) = v
      BY <1>1, <2>2
    <3>2. PICK id \in R : made + 1 + (id - h) = v
      BY <3>1
    <3>3. ViewAt(slot, id)' = v
      BY <1>2, <3>2
    <3> QED
      BY <3>3
  <2> QED
    BY <2>1, <2>2
<1>6. Fields' = g
  <2>1. g = [Fields EXCEPT ![slot] =
               [m \in DOMAIN Fields[slot] \cup names |->
                  IF m \in DOMAIN Fields[slot] THEN Fields[slot][m]
                  ELSE [size |-> sizes[m.comp], value |-> 0]]]
    BY DEF Store!Added
  <2>2. /\ DOMAIN g = Slots /\ g = [s \in DOMAIN g |-> g[s]]
        /\ \A s \in Slots : s # slot => g[s] = Fields[s]
        /\ g[slot] = [m \in DOMAIN Fields[slot] \cup names |->
                        IF m \in DOMAIN Fields[slot] THEN Fields[slot][m]
                        ELSE [size |-> sizes[m.comp], value |-> 0]]
    BY <2>1, FieldsOf
  <2> HIDE DEF g
  <2>3. ASSUME NEW s \in Slots
        PROVE  /\ g[s] = [m \in DOMAIN g[s] |-> g[s][m]]
               /\ DOMAIN g[s] = {NameOf(id) : id \in InUse(s)'}
               /\ \A id \in InUse(s)' : g[s][NameOf(id)] = memory'[ViewAt(s, id)']
    <3>1. /\ Fields[s] = [m \in DOMAIN Fields[s] |-> Fields[s][m]]
          /\ DOMAIN Fields[s] = {NameOf(id) : id \in InUse(s)}
          /\ \A id \in InUse(s) : Fields[s][NameOf(id)] = memory[ViewAt(s, id)]
      BY FieldsOf
    <3>2. ASSUME NEW id \in InUse(s)
          PROVE  memory'[ViewAt(s, id)'] = memory[ViewAt(s, id)]
      <4>1. id \in Ids /\ ViewAt(s, id) # NoView /\ ~(s = slot /\ id \in R)
        BY <1>4 DEF InUse
      <4> QED
        BY <1>1, <1>2, <1>3, <4>1
    <3>3. CASE s # slot
      BY <1>4, <2>2, <3>1, <3>2, <3>3
    <3>4. CASE s = slot
      <4>1. g[s] = [m \in DOMAIN g[s] |-> g[s][m]] /\ DOMAIN g[s] = DOMAIN Fields[s] \cup names
        BY <2>2, <3>4
      <4>2. DOMAIN g[s] = {NameOf(id) : id \in InUse(s)'}
        BY <1>4, <3>1, <3>4, <4>1
      <4>3. ASSUME NEW id \in InUse(s)
            PROVE  g[s][NameOf(id)] = memory'[ViewAt(s, id)']
        <5>1. NameOf(id) \in DOMAIN Fields[s]
          BY <3>1
        <5>2. g[s][NameOf(id)] = Fields[s][NameOf(id)]
          BY <2>2, <3>4, <5>1
        <5> QED
          BY <3>1, <3>2, <5>2
      <4>4. ASSUME NEW id \in R
            PROVE  g[s][NameOf(id)] = memory'[ViewAt(s, id)']
        <5>1. NameOf(id) \notin DOMAIN Fields[s]
          <6>1. \A i \in InUse(s) : i \in Ids /\ id \in Ids /\ i # id
            BY <1>4, <3>4 DEF InUse
          <6> QED
            BY <3>1, <6>1, NameInverse
        <5>2. NameOf(id) \in names
          OBVIOUS
        <5>3. g[s][NameOf(id)] = [size |-> sizes[NameOf(id).comp], value |-> 0]
          BY <2>2, <3>4, <5>1, <5>2
        <5> QED
          BY <1>2, <3>4, <5>3
      <4> QED
        BY <1>4, <3>4, <4>1, <4>2, <4>3, <4>4
    <3> QED
      BY <3>3, <3>4
  <2>4. ASSUME NEW x, x = g PROVE Fields' = x
    <3>1. DOMAIN x = Slots
      BY <2>2, <2>4
    <3>2. x = [s \in DOMAIN x |-> x[s]]
      BY <2>2, <2>4
    <3>3. \A s \in Slots :
            /\ x[s] = [m \in DOMAIN x[s] |-> x[s][m]]
            /\ DOMAIN x[s] = {NameOf(id) : id \in InUse(s)'}
            /\ \A id \in InUse(s)' : x[s][NameOf(id)] = memory'[ViewAt(s, id)']
      BY <2>3, <2>4
    <3> QED
      <4>1. IsNext(x)
        BY <3>1, <3>2, <3>3 DEF IsNext
      <4> QED
        BY <4>1, NextFields
  <2> QED
    BY <2>4
<1> QED
  BY <1>5, <1>6

-----------------------------------------------------------------------------
(* Every operation is an operation of the store, or changes no array. *)

(* The buffers in use are those of the fields the metadata counts. *)
LEMMA UsedByField ==
  ASSUME Inv, NEW s \in Slots
  PROVE  /\ metadata[s] \in RefType
         /\ \A id \in Ids : id \in InUse(s) <=> Knows(metadata[s], id)
         /\ \A j \in 0 .. metadata[s].n_scalars - 1 : Store!ScalarNames(j) \subseteq DOMAIN Fields[s]
         /\ \A j \in 0 .. metadata[s].n_vectors - 1 : Store!VectorNames(j) \subseteq DOMAIN Fields[s]
<1>1. metadata[s] \in RefType
  BY DEF Inv, TypeOK, RefType
<1>2. \A id \in Ids : id \in InUse(s) <=> Knows(metadata[s], id)
  BY DEF Inv, CountsMatch, InUse
<1>3. DOMAIN Fields[s] = {NameOf(id) : id \in InUse(s)}
  BY FieldsOf
<1>4. ASSUME NEW j \in 0 .. metadata[s].n_scalars - 1
      PROVE  Store!ScalarNames(j) \subseteq DOMAIN Fields[s]
  <2>1. j \in 0 .. MaxS - 1
    BY <1>1, RegistryAssumption DEF RefType
  <2>2. ScalarIds(j) \subseteq Ids /\ {NameOf(id) : id \in ScalarIds(j)} = Store!ScalarNames(j)
    BY <2>1, HandleRange, FieldNames
  <2>3. \A id \in ScalarIds(j) : Knows(metadata[s], id)
    BY DEF Knows
  <2> QED
    BY <1>2, <1>3, <2>2, <2>3
<1>5. ASSUME NEW j \in 0 .. metadata[s].n_vectors - 1
      PROVE  Store!VectorNames(j) \subseteq DOMAIN Fields[s]
  <2>1. j \in 0 .. MaxV - 1
    BY <1>1, RegistryAssumption DEF RefType
  <2>2. VectorIds(j) \subseteq Ids /\ {NameOf(id) : id \in VectorIds(j)} = Store!VectorNames(j)
    BY <2>1, HandleRange, FieldNames
  <2>3. \A id \in VectorIds(j) : Knows(metadata[s], id)
    BY DEF Knows
  <2> QED
    BY <1>2, <1>3, <2>2, <2>3
<1> QED
  BY <1>1, <1>2, <1>4, <1>5

(* allocate_scalar adds the arrays of one scalar, ...                      *)
LEMMA AllocateScalarStores ==
  ASSUME StoreInv, NEW slot \in Slots, NEW sizes \in Sizes, NEW i \in 0 .. MaxS - 1,
         AllocateScalar(slot, i, sizes)
  PROVE  Store!AddScalar(slot, i, sizes) /\ Placed'
<1> DEFINE h == ScalarHandle(i)
<1>1. i = metadata[slot].n_scalars /\ Allocate(slot, h, ScalarStride, sizes)
  BY DEF AllocateScalar
<1>2. /\ metadata[slot] \in RefType
      /\ \A id \in Ids : id \in InUse(slot) <=> Knows(metadata[slot], id)
      /\ \A j \in 0 .. i - 1 : Store!ScalarNames(j) \subseteq DOMAIN Fields[slot]
  BY <1>1, UsedByField DEF StoreInv
<1>3. h \in Nat /\ ScalarStride \in Nat /\ h .. h + ScalarStride - 1 = ScalarIds(i)
      /\ ScalarIds(i) \subseteq Ids
  BY HandleRange DEF ScalarIds, ScalarStride
<1>4. \A id \in ScalarIds(i) : id \notin InUse(slot)
  <2>1. [metadata[slot] EXCEPT !.n_scalars = i + 1] \in RefType
    BY <1>1, <1>2, RegistryAssumption DEF RefType
  <2>2. \A id \in Ids : ~ (Knows(metadata[slot], id) /\ id \in ScalarIds(i))
    BY <1>1, <1>2, <2>1, OneMoreScalar, RegistryAssumption DEF RefType
  <2> QED
    BY <1>2, <1>3, <2>2
<1>5. \A id \in ScalarIds(i) : NameOf(id).comp = (id - h) % 4
  <2> TAKE id \in ScalarIds(i)
  <2>1. id - h \in Components
    BY HandleNames
  <2>2. id \in Int /\ h \in Int /\ id = h + (id - h)
    BY <1>3 DEF Ids
  <2>3. NameOf(h + (id - h)).comp = id - h
    <3>1. \A c \in Components :
            NameOf(h + c) = [kind |-> "scalar", index |-> i, axis |-> 0, comp |-> c]
      BY HandleNames
    <3> HIDE DEF h
    <3>2. ASSUME NEW c \in Components PROVE NameOf(h + c).comp = c
      <4>1. NameOf(h + c) = [kind |-> "scalar", index |-> i, axis |-> 0, comp |-> c]
        BY <3>1
      <4> QED
        BY <4>1
    <3> QED
      BY <2>1, <3>2
  <2>4. (id - h) % 4 = id - h
    BY <2>1 DEF Components
  <2> QED
    BY <2>2, <2>3, <2>4
<1>6. /\ Fields' = Store!Added(Fields, slot, {NameOf(id) : id \in ScalarIds(i)}, sizes)
      /\ Placed'
  <2>1. \A id \in ScalarIds(i) : ViewAt(slot, id) = NoView
    BY <1>3, <1>4 DEF InUse
  <2> HIDE DEF h
  <2> QED
    BY <1>1, <1>3, <1>5, <2>1, AllocateAdds
<1>7. {NameOf(id) : id \in ScalarIds(i)} = Store!ScalarNames(i)
  BY FieldNames
<1>8. Store!ScalarNames(i) \cap DOMAIN Fields[slot] = {}
  <2>1. DOMAIN Fields[slot] = {NameOf(id) : id \in InUse(slot)}
    BY FieldsOf
  <2>2. \A x \in ScalarIds(i), y \in InUse(slot) : NameOf(x) # NameOf(y)
    BY <1>3, <1>4, NameInverse DEF InUse
  <2> QED
    BY <1>7, <2>1, <2>2
<1> QED
  BY <1>2, <1>6, <1>7, <1>8 DEF Store!AddScalar

(* ... allocate_vector those of one vector.                                *)
LEMMA AllocateVectorStores ==
  ASSUME StoreInv, NEW slot \in Slots, NEW sizes \in Sizes, NEW i \in 0 .. MaxV - 1,
         AllocateVector(slot, i, sizes)
  PROVE  Store!AddVector(slot, i, sizes) /\ Placed'
<1> DEFINE h == VectorHandle(i)
<1>1. i = metadata[slot].n_vectors /\ Allocate(slot, h, VectorStride, sizes)
  BY DEF AllocateVector
<1>2. /\ metadata[slot] \in RefType
      /\ \A id \in Ids : id \in InUse(slot) <=> Knows(metadata[slot], id)
      /\ \A j \in 0 .. i - 1 : Store!VectorNames(j) \subseteq DOMAIN Fields[slot]
  BY <1>1, UsedByField DEF StoreInv
<1>3. h \in Nat /\ VectorStride \in Nat /\ h .. h + VectorStride - 1 = VectorIds(i)
      /\ VectorIds(i) \subseteq Ids
  BY HandleRange DEF VectorIds, VectorStride
<1>4. \A id \in VectorIds(i) : id \notin InUse(slot)
  <2>1. [metadata[slot] EXCEPT !.n_vectors = i + 1] \in RefType
    BY <1>1, <1>2, RegistryAssumption DEF RefType
  <2>2. \A id \in Ids : ~ (Knows(metadata[slot], id) /\ id \in VectorIds(i))
    BY <1>1, <1>2, <2>1, OneMoreVector, RegistryAssumption DEF RefType
  <2> QED
    BY <1>2, <1>3, <2>2
<1>5. \A id \in VectorIds(i) : NameOf(id).comp = (id - h) % 4
  <2> TAKE id \in VectorIds(i)
  <2>1. PICK a \in Store!Axes, c \in Components : id = h + 4 * a + c
    BY HandleNames
  <2>2. NameOf(id).comp = c
    <3>1. NameOf(h + 4 * a + c) = [kind |-> "vector", index |-> i, axis |-> a, comp |-> c]
      BY HandleNames
    <3> QED
      BY <2>1, <3>1
  <2>3. (id - h) % 4 = c
    <3>1. \A x \in Nat : \A y \in {0, 1, 2} : \A z \in {0, 1, 2, 3} : ((x + 4 * y + z) - x) % 4 = z
      OBVIOUS
    <3>2. a \in {0, 1, 2} /\ c \in {0, 1, 2, 3}
      BY DEF Store!Axes, Components
    <3> HIDE DEF h
    <3> QED
      BY <1>3, <2>1, <3>1, <3>2
  <2> QED
    BY <2>2, <2>3
<1>6. /\ Fields' = Store!Added(Fields, slot, {NameOf(id) : id \in VectorIds(i)}, sizes)
      /\ Placed'
  <2>1. \A id \in VectorIds(i) : ViewAt(slot, id) = NoView
    BY <1>3, <1>4 DEF InUse
  <2> HIDE DEF h
  <2> QED
    BY <1>1, <1>3, <1>5, <2>1, AllocateAdds
<1>7. {NameOf(id) : id \in VectorIds(i)} = Store!VectorNames(i)
  BY FieldNames
<1>8. Store!VectorNames(i) \cap DOMAIN Fields[slot] = {}
  <2>1. DOMAIN Fields[slot] = {NameOf(id) : id \in InUse(slot)}
    BY FieldsOf
  <2>2. \A x \in VectorIds(i), y \in InUse(slot) : NameOf(x) # NameOf(y)
    BY <1>3, <1>4, NameInverse DEF InUse
  <2> QED
    BY <1>7, <2>1, <2>2
<1> QED
  BY <1>2, <1>6, <1>7, <1>8 DEF Store!AddVector

(* A write through a pointer, current or not, sets one array.              *)
LEMMA WriteStores ==
  ASSUME StoreInv, NEW v \in Values, WritePointer(v)
  PROVE  Store!Set /\ Placed'
<1>1. /\ TypeOK /\ held \in [slot : Slots, id : Ids, view : 1 .. made]
      /\ memory \in [1 .. made -> [size : Nat, value : Values]]
  BY DEF WritePointer, StoreInv, Inv, TypeOK
<1> DEFINE w == held.view
<1>2. /\ w \in 1 .. made /\ buffers' = buffers /\ made' = made
      /\ memory' = [memory EXCEPT ![w].value = v]
  BY <1>1 DEF WritePointer
<1>3. Placed'
  BY <1>2 DEF StoreInv, Placed, ViewAt
<1>4. PICK s \in Slots, id \in Ids : ViewAt(s, id) = w
  BY <1>2 DEF StoreInv, Placed
<1>5. id \in InUse(s)
  BY <1>2, <1>4 DEF InUse, NoView
<1> DEFINE n == NameOf(id)
<1>6. /\ \A t \in Slots : InUse(t)' = InUse(t)
      /\ \A t \in Slots, j \in Ids : ViewAt(t, j)' = ViewAt(t, j)
  BY <1>2 DEF InUse, ViewAt
<1>7. ASSUME NEW t \in Slots, NEW j \in InUse(t)
      PROVE  memory'[ViewAt(t, j)] = IF t = s /\ j = id
                                     THEN [memory[ViewAt(t, j)] EXCEPT !.value = v]
                                     ELSE memory[ViewAt(t, j)]
  <2>1. j \in Ids /\ ViewAt(t, j) # NoView
    BY DEF InUse
  <2>2. ViewAt(t, j) \in 1 .. made
    <3>1. ViewAt(t, j) \in 0 .. made
      BY <1>1, <2>1, SlotRange DEF ViewAt, TypeOK
    <3> QED
      BY <1>1, <2>1, <3>1 DEF TypeOK, NoView
  <2>3. ViewAt(t, j) = w <=> t = s /\ j = id
    BY <1>4, <2>1, OneBuffer DEF StoreInv
  <2> QED
    BY <1>1, <1>2, <2>2, <2>3
<1>8. Fields' = [Fields EXCEPT ![s][n].value = v]
  <2> DEFINE g == [Fields EXCEPT ![s][n].value = v]
  <2>1. n \in DOMAIN Fields[s]
    BY <1>5, FieldsOf
  <2>2. /\ DOMAIN g = Slots /\ g = [t \in DOMAIN g |-> g[t]]
        /\ \A t \in Slots : t # s => g[t] = Fields[t]
        /\ g[s] = [Fields[s] EXCEPT ![n] = [Fields[s][n] EXCEPT !.value = v]]
    BY FieldsOf
  <2> HIDE DEF g
  <2>3. ASSUME NEW t \in Slots
        PROVE  /\ g[t] = [m \in DOMAIN g[t] |-> g[t][m]]
               /\ DOMAIN g[t] = {NameOf(j) : j \in InUse(t)'}
               /\ \A j \in InUse(t)' : g[t][NameOf(j)] = memory'[ViewAt(t, j)']
    <3>1. /\ Fields[t] = [m \in DOMAIN Fields[t] |-> Fields[t][m]]
          /\ DOMAIN Fields[t] = {NameOf(j) : j \in InUse(t)}
          /\ \A j \in InUse(t) : Fields[t][NameOf(j)] = memory[ViewAt(t, j)]
      BY FieldsOf
    <3>2. \A j \in InUse(t)' : j \in InUse(t) /\ j \in Ids /\ ViewAt(t, j)' = ViewAt(t, j)
      BY <1>6 DEF InUse
    <3>3. CASE t # s
      <4>1. g[t] = Fields[t] /\ InUse(t)' = InUse(t)
        BY <1>6, <2>2, <3>3
      <4>2. ASSUME NEW j \in InUse(t) PROVE g[t][NameOf(j)] = memory'[ViewAt(t, j)]
        <5>1. memory'[ViewAt(t, j)] = memory[ViewAt(t, j)]
          BY <1>7, <3>3
        <5> QED
          BY <3>1, <4>1, <5>1
      <4> QED
        BY <3>1, <3>2, <4>1, <4>2
    <3>4. CASE t = s
      <4>1. /\ g[t] = [m \in DOMAIN g[t] |-> g[t][m]] /\ DOMAIN g[t] = DOMAIN Fields[t]
            /\ \A m \in DOMAIN Fields[t] :
                 g[t][m] = IF m = n THEN [Fields[t][m] EXCEPT !.value = v] ELSE Fields[t][m]
        BY <2>2, <3>1, <3>4
      <4>2. \A j \in InUse(t) : NameOf(j) = n <=> j = id
        BY <1>5, NameInverse DEF InUse
      <4>3. ASSUME NEW j \in InUse(t) PROVE g[t][NameOf(j)] = memory'[ViewAt(t, j)]
        <5>1. memory'[ViewAt(t, j)] = IF j = id THEN [memory[ViewAt(t, j)] EXCEPT !.value = v]
                                      ELSE memory[ViewAt(t, j)]
          BY <1>7, <3>4
        <5>2. Fields[t][NameOf(j)] = memory[ViewAt(t, j)] /\ NameOf(j) \in DOMAIN Fields[t]
          BY <3>1
        <5>3. g[t][NameOf(j)] = IF j = id THEN [memory[ViewAt(t, j)] EXCEPT !.value = v]
                                ELSE memory[ViewAt(t, j)]
          BY <4>1, <4>2, <5>2
        <5> QED
          BY <5>1, <5>3
      <4> QED
        BY <1>6, <3>1, <3>2, <4>1, <4>3
    <3> QED
      BY <3>3, <3>4
  <2>4. ASSUME NEW x, x = g PROVE Fields' = x
    <3>1. DOMAIN x = Slots
      BY <2>2, <2>4
    <3>2. x = [t \in DOMAIN x |-> x[t]]
      BY <2>2, <2>4
    <3>3. \A t \in Slots :
            /\ x[t] = [m \in DOMAIN x[t] |-> x[t][m]]
            /\ DOMAIN x[t] = {NameOf(j) : j \in InUse(t)'}
            /\ \A j \in InUse(t)' : x[t][NameOf(j)] = memory'[ViewAt(t, j)']
      BY <2>3, <2>4
    <3>4. IsNext(x)
      BY <3>1, <3>2, <3>3 DEF IsNext
    <3> QED
      BY <3>4, NextFields
  <2> QED
    BY <2>4 DEF g
<1>9. n \in DOMAIN Fields[s]
  BY <1>5, FieldsOf
<1> HIDE DEF n
<1> QED
  BY <1>3, <1>8, <1>9 DEF Store!Set, Slots, Store!Slots

(* What deep_copy_slot does, buffer by buffer. *)
LEMMA DeepCopyContents ==
  ASSUME Inv, NEW dst \in Slots, NEW src \in Slots, DeepCopySlot(dst, src)
  PROVE  /\ CopiedIds(src) \subseteq InUse(src) \cap InUse(dst)
         /\ \A id \in InUse(src) : id \in CopiedIds(src) <=> memory[ViewAt(src, id)].size > 0
         /\ \A id \in CopiedIds(src) :
              memory[ViewAt(dst, id)].size = memory[ViewAt(src, id)].size
         /\ \A t \in Slots : \A id \in InUse(t) :
              memory'[ViewAt(t, id)] = IF t = dst /\ id \in CopiedIds(src)
                                       THEN memory[ViewAt(src, id)]
                                       ELSE memory[ViewAt(t, id)]
<1> DEFINE C == CopiedIds(src)
           V == {ViewAt(dst, id) : id \in C}
<1>1. /\ TypeOK /\ made \in Nat /\ memory \in [1 .. made -> [size : Nat, value : Values]]
  BY DEF Inv, TypeOK
<1>2. \A t \in Slots : \A id \in InUse(t) : id \in Ids /\ ViewAt(t, id) \in 1 .. made
  <2> TAKE t \in Slots
  <2> TAKE id \in InUse(t)
  <2>1. id \in Ids /\ ViewAt(t, id) # NoView
    BY DEF InUse
  <2>2. ViewAt(t, id) \in 0 .. made
    BY <1>1, <2>1, SlotRange DEF ViewAt, TypeOK
  <2> QED
    BY <1>1, <2>1, <2>2 DEF NoView
<1>3. \A id \in C : id \in Ids /\ Extent(src, id) > 0 /\ Extent(dst, id) = Extent(src, id)
  BY DEF CopiedIds, DeepCopySlot
<1>4. C \subseteq InUse(src) \cap InUse(dst)
  <2> SUFFICES ASSUME NEW id \in C PROVE id \in InUse(src) /\ id \in InUse(dst)
    OBVIOUS
  <2>1. ViewAt(src, id) # NoView
    BY <1>3 DEF Extent
  <2>2. ViewAt(dst, id) # NoView
    BY <1>3 DEF Extent
  <2> QED
    BY <1>3, <2>1, <2>2 DEF InUse
<1>5. ASSUME NEW id \in InUse(src) PROVE id \in C <=> memory[ViewAt(src, id)].size > 0
  BY DEF InUse, CopiedIds, Extent
<1>6. ASSUME NEW id \in C PROVE memory[ViewAt(dst, id)].size = memory[ViewAt(src, id)].size
  <2>1. ViewAt(src, id) # NoView /\ ViewAt(dst, id) # NoView
    BY <1>4 DEF InUse
  <2> QED
    BY <1>3, <2>1 DEF Extent
<1>7. ASSUME NEW t \in Slots, NEW id \in InUse(t)
      PROVE  memory'[ViewAt(t, id)] = IF t = dst /\ id \in C THEN memory[ViewAt(src, id)]
                                      ELSE memory[ViewAt(t, id)]
  <2> DEFINE v == ViewAt(t, id)
  <2>1. v \in 1 .. made /\ v # NoView /\ id \in Ids
    BY <1>2 DEF InUse
  <2>2. \A j \in C : ViewAt(dst, j) = v => t = dst /\ j = id
    <3> TAKE j \in C
    <3>1. j \in Ids
      BY <1>3
    <3> QED
      BY <2>1, <3>1, OneBuffer
  <2>3. memory'[v] = IF v \in V THEN [memory[v] EXCEPT !.value = memory[SourceOf(dst, src, v)].value]
                     ELSE memory[v]
    <3> HIDE DEF v
    <3> QED
      BY <2>1 DEF DeepCopySlot
  <2>4. CASE t = dst /\ id \in C
    <3>1. v \in V
      BY <2>4
    <3>2. (CHOOSE j \in C : ViewAt(dst, j) = v) = id
      BY <2>2, <2>4
    <3>3. SourceOf(dst, src, v) = ViewAt(src, id)
      BY <3>2 DEF SourceOf
    <3> DEFINE w == ViewAt(src, id)
    <3>4. w \in 1 .. made /\ memory[v].size = memory[w].size
      BY <1>2, <1>4, <1>6, <2>4
    <3>5. memory'[v] = [memory[v] EXCEPT !.value = memory[w].value]
      BY <2>3, <3>1, <3>3
    <3>6. memory[v] \in [size : Nat, value : Values] /\ memory[w] \in [size : Nat, value : Values]
      BY <1>1, <2>1, <3>4
    <3> HIDE DEF v, w
    <3>7. memory'[v] = memory[w]
      BY <3>4, <3>5, <3>6
    <3> QED
      BY <2>4, <3>7 DEF v, w
  <2>5. CASE ~(t = dst /\ id \in C)
    <3>1. v \notin V
      BY <2>2, <2>5
    <3> QED
      BY <2>3, <2>5, <3>1
  <2> QED
    BY <2>4, <2>5
<1> QED
  BY <1>4, <1>5, <1>6, <1>7

(* deep_copy_slot copies the arrays of the source that hold anything.      *)
LEMMA DeepCopyStores ==
  ASSUME StoreInv, NEW dst \in Slots, NEW src \in Slots, DeepCopySlot(dst, src)
  PROVE  Store!Copy(dst, src) /\ Placed'
<1> DEFINE C == CopiedIds(src)
           copied == {n \in DOMAIN Fields[src] : Fields[src][n].size > 0}
<1>1. /\ C \subseteq InUse(src) \cap InUse(dst)
      /\ \A id \in InUse(src) : id \in C <=> memory[ViewAt(src, id)].size > 0
      /\ \A id \in C : memory[ViewAt(dst, id)].size = memory[ViewAt(src, id)].size
      /\ \A t \in Slots : \A id \in InUse(t) :
           memory'[ViewAt(t, id)] = IF t = dst /\ id \in C THEN memory[ViewAt(src, id)]
                                    ELSE memory[ViewAt(t, id)]
  BY DeepCopyContents DEF StoreInv
<1>2. buffers' = buffers /\ made' = made
  BY DEF DeepCopySlot
<1>3. Placed'
  BY <1>2 DEF StoreInv, Placed, ViewAt
<1>4. /\ \A t \in Slots : InUse(t)' = InUse(t)
      /\ \A t \in Slots, j \in Ids : ViewAt(t, j)' = ViewAt(t, j)
  BY <1>2 DEF InUse, ViewAt
<1>5. /\ DOMAIN Fields = Slots
      /\ \A s \in Slots :
           /\ Fields[s] = [n \in DOMAIN Fields[s] |-> Fields[s][n]]
           /\ DOMAIN Fields[s] = {NameOf(id) : id \in InUse(s)}
           /\ \A id \in InUse(s) : Fields[s][NameOf(id)] = memory[ViewAt(s, id)]
  BY FieldsOf
<1>6. copied = {NameOf(id) : id \in C}
  <2>1. ASSUME NEW n \in copied PROVE n \in {NameOf(id) : id \in C}
    <3>1. PICK id \in InUse(src) : n = NameOf(id)
      BY <1>5
    <3>2. memory[ViewAt(src, id)].size > 0
      BY <1>5, <3>1
    <3> QED
      BY <1>1, <3>1, <3>2
  <2>2. ASSUME NEW id \in C PROVE NameOf(id) \in copied
    <3>1. id \in InUse(src) /\ memory[ViewAt(src, id)].size > 0
      BY <1>1
    <3>2. NameOf(id) \in DOMAIN Fields[src] /\ Fields[src][NameOf(id)] = memory[ViewAt(src, id)]
      BY <1>5, <3>1
    <3> QED
      BY <3>1, <3>2
  <2> QED
    BY <2>1, <2>2
<1>7. \A n \in copied : n \in DOMAIN Fields[dst] /\ Fields[dst][n].size = Fields[src][n].size
  <2> SUFFICES ASSUME NEW id \in C
               PROVE  /\ NameOf(id) \in DOMAIN Fields[dst]
                      /\ Fields[dst][NameOf(id)].size = Fields[src][NameOf(id)].size
    BY <1>6
  <2>1. id \in InUse(dst) /\ id \in InUse(src)
    BY <1>1
  <2>2. /\ Fields[dst][NameOf(id)] = memory[ViewAt(dst, id)]
        /\ Fields[src][NameOf(id)] = memory[ViewAt(src, id)]
    BY <1>5, <2>1
  <2> QED
    BY <1>1, <1>5, <2>1, <2>2
<1> DEFINE row == [n \in DOMAIN Fields[dst] |->
                     IF n \in copied THEN Fields[src][n] ELSE Fields[dst][n]]
           g == [Fields EXCEPT ![dst] = row]
<1>8. Fields' = g
  <2> HIDE DEF copied
  <2>1. /\ DOMAIN row = DOMAIN Fields[dst] /\ row = [n \in DOMAIN row |-> row[n]]
        /\ \A n \in DOMAIN Fields[dst] :
             row[n] = IF n \in copied THEN Fields[src][n] ELSE Fields[dst][n]
    OBVIOUS
  <2>2. /\ DOMAIN g = Slots /\ g = [t \in DOMAIN g |-> g[t]]
        /\ \A t \in Slots : t # dst => g[t] = Fields[t]
        /\ g[dst] = row
    <3> HIDE DEF row
    <3> QED
      BY <1>5
  <2> HIDE DEF row, g
  <2>3. ASSUME NEW t \in Slots
        PROVE  /\ g[t] = [m \in DOMAIN g[t] |-> g[t][m]]
               /\ DOMAIN g[t] = {NameOf(j) : j \in InUse(t)'}
               /\ \A j \in InUse(t)' : g[t][NameOf(j)] = memory'[ViewAt(t, j)']
    <3>1. /\ Fields[t] = [m \in DOMAIN Fields[t] |-> Fields[t][m]]
          /\ DOMAIN Fields[t] = {NameOf(j) : j \in InUse(t)}
          /\ \A j \in InUse(t) : Fields[t][NameOf(j)] = memory[ViewAt(t, j)]
      BY <1>5
    <3>2. \A j \in InUse(t)' : j \in InUse(t) /\ ViewAt(t, j)' = ViewAt(t, j)
      BY <1>4 DEF InUse
    <3>3. CASE t # dst
      <4>1. g[t] = Fields[t] /\ InUse(t)' = InUse(t)
        BY <1>4, <2>2, <3>3
      <4>2. ASSUME NEW j \in InUse(t) PROVE g[t][NameOf(j)] = memory'[ViewAt(t, j)]
        <5>1. memory'[ViewAt(t, j)] = memory[ViewAt(t, j)]
          BY <1>1, <3>3
        <5> QED
          BY <3>1, <4>1, <5>1
      <4> QED
        BY <3>1, <3>2, <4>1, <4>2
    <3>4. CASE t = dst
      <4>1. /\ g[t] = [m \in DOMAIN g[t] |-> g[t][m]] /\ DOMAIN g[t] = DOMAIN Fields[t]
            /\ \A m \in DOMAIN Fields[t] :
                 g[t][m] = IF m \in copied THEN Fields[src][m] ELSE Fields[t][m]
        BY <2>1, <2>2, <3>4
      <4>2. ASSUME NEW j \in InUse(t) PROVE NameOf(j) \in copied <=> j \in C
        BY <1>1, <1>6, NameInverse DEF InUse
      <4>3. ASSUME NEW j \in InUse(t) PROVE g[t][NameOf(j)] = memory'[ViewAt(t, j)]
        <5>1. memory'[ViewAt(t, j)] = IF j \in C THEN memory[ViewAt(src, j)]
                                      ELSE memory[ViewAt(t, j)]
          BY <1>1, <3>4
        <5>2. Fields[t][NameOf(j)] = memory[ViewAt(t, j)] /\ NameOf(j) \in DOMAIN Fields[t]
          BY <3>1
        <5>3. j \in C => Fields[src][NameOf(j)] = memory[ViewAt(src, j)]
          BY <1>1, <1>5
        <5>4. g[t][NameOf(j)] = IF j \in C THEN Fields[src][NameOf(j)] ELSE Fields[t][NameOf(j)]
          BY <4>1, <4>2, <5>2
        <5> QED
          BY <5>1, <5>2, <5>3, <5>4
      <4> QED
        BY <1>4, <3>1, <3>2, <4>1, <4>3
    <3> QED
      BY <3>3, <3>4
  <2>4. ASSUME NEW x, x = g PROVE Fields' = x
    <3>1. DOMAIN x = Slots
      BY <2>2, <2>4
    <3>2. x = [t \in DOMAIN x |-> x[t]]
      BY <2>2, <2>4
    <3>3. \A t \in Slots :
            /\ x[t] = [m \in DOMAIN x[t] |-> x[t][m]]
            /\ DOMAIN x[t] = {NameOf(j) : j \in InUse(t)'}
            /\ \A j \in InUse(t)' : x[t][NameOf(j)] = memory'[ViewAt(t, j)']
      BY <2>3, <2>4
    <3>4. IsNext(x)
      BY <3>1, <3>2, <3>3 DEF IsNext
    <3> QED
      BY <3>4, NextFields
  <2> QED
    BY <2>4
<1> QED
  BY <1>3, <1>7, <1>8 DEF Store!Copy

(* swap_slots exchanges two slots of the same shape.                       *)
LEMMA SwapStores ==
  ASSUME StoreInv, NEW a \in Slots, NEW b \in Slots, SwapSlots(a, b)
  PROVE  Store!Exchange(a, b) /\ Placed'
<1> DEFINE Other(s) == IF s = a THEN b ELSE IF s = b THEN a ELSE s
<1>1. TypeOK /\ memory' = memory /\ made' = made /\ made \in Nat
  BY DEF SwapSlots, StoreInv, Inv, TypeOK
<1>2. \A s \in Slots, id \in Ids : ViewAt(s, id)' = ViewAt(Other(s), id)
  BY <1>1, SwapViews
<1>3. \A s \in Slots : Other(s) \in Slots /\ Other(Other(s)) = s
  OBVIOUS
<1>4. \A s \in Slots : InUse(s)' = InUse(Other(s))
  BY <1>2 DEF InUse
<1>5. Placed'
  <2> SUFFICES ASSUME NEW v \in 1 .. made PROVE \E s \in Slots, id \in Ids : ViewAt(s, id)' = v
    BY <1>1 DEF Placed
  <2>1. PICK s \in Slots, id \in Ids : ViewAt(s, id) = v
    BY DEF StoreInv, Placed
  <2>2. Other(s) \in Slots /\ ViewAt(Other(s), id)' = v
    BY <1>2, <1>3, <2>1
  <2> QED
    BY <2>2
<1>6. /\ DOMAIN Fields = Slots
      /\ \A s \in Slots :
           /\ Fields[s] = [n \in DOMAIN Fields[s] |-> Fields[s][n]]
           /\ DOMAIN Fields[s] = {NameOf(id) : id \in InUse(s)}
           /\ \A id \in InUse(s) : Fields[s][NameOf(id)] = memory[ViewAt(s, id)]
  BY FieldsOf
<1>7. DOMAIN Fields[a] = DOMAIN Fields[b]
  <2>1. \A id \in Ids : Knows(metadata[a], id) <=> Knows(metadata[b], id)
    BY DEF SwapSlots, SameShape, Knows
  <2>2. InUse(a) = InUse(b)
    BY <2>1 DEF StoreInv, Inv, CountsMatch, InUse
  <2> QED
    BY <1>6, <2>2
<1> DEFINE g == [Fields EXCEPT ![a] = Fields[b], ![b] = Fields[a]]
<1>8. Fields' = g
  <2>1. /\ DOMAIN g = Slots /\ g = [s \in DOMAIN g |-> g[s]]
        /\ \A s \in Slots : g[s] = Fields[Other(s)]
    BY <1>6
  <2> HIDE DEF g, Other
  <2>2. ASSUME NEW s \in Slots
        PROVE  /\ g[s] = [m \in DOMAIN g[s] |-> g[s][m]]
               /\ DOMAIN g[s] = {NameOf(id) : id \in InUse(s)'}
               /\ \A id \in InUse(s)' : g[s][NameOf(id)] = memory'[ViewAt(s, id)']
    <3>1. \A id \in InUse(s)' : id \in InUse(Other(s)) /\ ViewAt(s, id)' = ViewAt(Other(s), id)
      BY <1>2, <1>4 DEF InUse
    <3> QED
      BY <1>1, <1>3, <1>4, <1>6, <2>1, <3>1
  <2>3. ASSUME NEW x, x = g PROVE Fields' = x
    <3>1. DOMAIN x = Slots
      BY <2>1, <2>3
    <3>2. x = [s \in DOMAIN x |-> x[s]]
      BY <2>1, <2>3
    <3>3. \A s \in Slots :
            /\ x[s] = [m \in DOMAIN x[s] |-> x[s][m]]
            /\ DOMAIN x[s] = {NameOf(id) : id \in InUse(s)'}
            /\ \A id \in InUse(s)' : x[s][NameOf(id)] = memory'[ViewAt(s, id)']
      BY <2>2, <2>3
    <3>4. IsNext(x)
      BY <3>1, <3>2, <3>3 DEF IsNext
    <3> QED
      BY <3>4, NextFields
  <2> QED
    BY <2>3
<1> QED
  BY <1>5, <1>7, <1>8 DEF Store!Exchange

(* An empty registry is an empty store.                                    *)
LEMMA StoreInit == Init => StoreInv /\ Store!Init
<1> SUFFICES ASSUME Init PROVE StoreInv /\ Store!Init
  OBVIOUS
<1>1. Inv /\ Placed
  BY InitInv DEF Init, Placed
<1>2. \A s \in Slots : InUse(s) = {}
  BY SlotRange DEF Init, InUse, ViewAt
<1>3. \A s \in Slots : Fields[s] = [n \in {} |-> 0]
  BY <1>2, FieldsOf
<1>4. Fields = [s \in Slots |-> [n \in {} |-> 0]]
  BY <1>3, FieldsOf DEF Fields
<1> QED
  BY <1>1, <1>4 DEF StoreInv, Store!Init, Store!Slots, Slots

(* A step of the registry is a step of the store, or none.                 *)
LEMMA StoreStep == StoreInv /\ [Next]_vars => Placed' /\ [Store!Next]_Fields
<1> SUFFICES ASSUME StoreInv, [Next]_vars PROVE Placed' /\ [Store!Next]_Fields
  OBVIOUS
<1>1. Store!Slots = Slots
  BY DEF Store!Slots, Slots
<1>2. ASSUME NEW s \in Slots, NEW sizes \in Sizes, NEW i \in 0 .. MaxS - 1,
             AllocateScalar(s, i, sizes)
      PROVE  Placed' /\ Store!Next
  BY <1>1, <1>2, AllocateScalarStores DEF Store!Next
<1>3. ASSUME NEW s \in Slots, NEW sizes \in Sizes, NEW i \in 0 .. MaxV - 1,
             AllocateVector(s, i, sizes)
      PROVE  Placed' /\ Store!Next
  BY <1>1, <1>3, AllocateVectorStores DEF Store!Next
<1>4. ASSUME NEW v \in Values, WritePointer(v) PROVE Placed' /\ Store!Next
  BY <1>4, WriteStores DEF Store!Next
<1>5. ASSUME NEW a \in Slots, NEW b \in Slots, DeepCopySlot(a, b) PROVE Placed' /\ Store!Next
  BY <1>1, <1>5, DeepCopyStores DEF Store!Next
<1>6. ASSUME NEW a \in Slots, NEW b \in Slots, SwapSlots(a, b) PROVE Placed' /\ Store!Next
  BY <1>1, <1>6, SwapStores DEF Store!Next
<1>7. ASSUME buffers' = buffers, made' = made, memory' = memory
      PROVE  Placed' /\ Fields' = Fields
  BY <1>7 DEF StoreInv, Placed, Fields, ViewAt
<1>8. CASE UNCHANGED vars
  BY <1>7, <1>8 DEF vars
<1>9. CASE \E ref \in refs, id \in Ids : TakePointer(ref, id)
  BY <1>7, <1>9 DEF TakePointer
<1> QED
  BY <1>2, <1>3, <1>4, <1>5, <1>6, <1>8, <1>9 DEF Next

(* The registry has value semantics, for any number of slots and fields:   *)
(* with positions, views and handles forgotten it is a store of named      *)
(* arrays.                                                                 *)
THEOREM RegistryIsStore == Spec => IsStore
<1>1. StoreInv /\ [Next]_vars => StoreInv' /\ [Store!Next]_Fields
  BY InvInductive, StoreStep DEF StoreInv
<1> QED
  BY <1>1, StoreInit, PTL DEF Spec, IsStore, Store!Spec
=============================================================================
