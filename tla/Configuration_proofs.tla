------------------------ MODULE Configuration_proofs ------------------------
(***************************************************************************)
(* Proofs about the set-up of a simulation: the handles it is made with,   *)
(* the walks over the points of its mesh, and that what is set up is what  *)
(* its table describes, for which division in the field of StencilField is *)
(* shown to be one.                                                        *)
(***************************************************************************)
EXTENDS Configuration, FiniteSetTheorems, WellFoundedInduction, TLAPS

-----------------------------------------------------------------------------
(* Handles *)

(* Types, and one owner of every implementation. *)
HandleInv == HandleTypeOK /\ OneOwner

(* The first handles own nothing and nothing exists. *)
LEMMA HandleInitInv == HandleInit => HandleInv
BY HandleAssumption DEF HandleInit, HandleInv, HandleTypeOK, OneOwner, NoneShared, NoneDangling, NoneLost

(* An operation keeps the ownership of every implementation. *)
LEMMA HandleStepInv == HandleInv /\ [HandleNext]_handleVars => HandleInv'
<1> SUFFICES ASSUME HandleInv, [HandleNext]_handleVars PROVE HandleInv'
  OBVIOUS
<1> USE HandleAssumption DEF HandleInv, HandleTypeOK, OneOwner, NoneShared, NoneDangling, NoneLost
<1>1. CASE UNCHANGED handleVars
  BY <1>1 DEF handleVars
<1>2. ASSUME NEW x \in Holders, DefaultConstruct(x) PROVE HandleInv'
  BY <1>2 DEF DefaultConstruct
<1>3. ASSUME NEW x \in Holders, NEW c \in Contents, Construct(x, c) PROVE HandleInv'
  BY <1>3 DEF Construct
<1>4. ASSUME NEW x \in Holders, NEW y \in Holders, CopyConstruct(x, y) PROVE HandleInv'
  BY <1>4 DEF CopyConstruct
<1>5. ASSUME NEW x \in Holders, NEW y \in Holders, MoveConstruct(x, y) PROVE HandleInv'
  BY <1>5 DEF MoveConstruct
<1>6. ASSUME NEW x \in Holders, NEW y \in Holders, CopyAssign(x, y) PROVE HandleInv'
  BY <1>6 DEF CopyAssign, Deleted
<1>7. ASSUME NEW x \in Holders, NEW y \in Holders, MoveAssign(x, y) PROVE HandleInv'
  BY <1>7 DEF MoveAssign, Deleted
<1>8. ASSUME NEW x \in Holders, NEW y \in Holders, Swap(x, y) PROVE HandleInv'
  BY <1>8 DEF Swap
<1>9. ASSUME NEW x \in Holders, Destroy(x) PROVE HandleInv'
  BY <1>9 DEF Destroy, Deleted
<1> QED
  BY <1>1, <1>2, <1>3, <1>4, <1>5, <1>6, <1>7, <1>8, <1>9 DEF HandleNext

(* Ownership holds throughout: no implementation is deleted twice, used    *)
(* after its end or lost.                                                  *)
THEOREM HandlesOwnOnce == HandleSpec => []OneOwner
<1>1. HandleInit => HandleInv
  BY HandleInitInv
<1>2. HandleInv /\ [HandleNext]_handleVars => HandleInv'
  BY HandleStepInv
<1>3. HandleInv => OneOwner
  BY DEF HandleInv
<1> QED
  BY <1>1, <1>2, <1>3, PTL DEF HandleSpec

-----------------------------------------------------------------------------
(* Each operation is one of a value, or changes no value. *)
LEMMA HandleStepRefines ==
  HandleInv /\ [HandleNext]_handleVars => [Values!Next]_Value
<1> SUFFICES ASSUME HandleInv, [HandleNext]_handleVars PROVE Values!Next \/ UNCHANGED Value
  OBVIOUS
<1> USE HandleAssumption DEF HandleInv, HandleTypeOK, OneOwner, NoneShared, NoneDangling, NoneLost, Value
<1>1. CASE UNCHANGED handleVars
  BY <1>1 DEF handleVars
<1>2. ASSUME NEW x \in Holders, DefaultConstruct(x) PROVE Values!Create(x)
  <2>1. Value' = [z \in Holders |-> IF z = x THEN Null ELSE Value[z]]
    BY <1>2 DEF DefaultConstruct
  <2>2. Value' = [Value EXCEPT ![x] = Null]
    BY <2>1
  <2>3. Value[x] = Absent
    BY <1>2 DEF DefaultConstruct
  <2> QED
    BY <2>2, <2>3 DEF Values!Create, Values!Assign
<1>3. ASSUME NEW x \in Holders, NEW c \in Contents, Construct(x, c) PROVE Values!Create(x)
  <2>1. Value' = [z \in Holders |-> IF z = x THEN c ELSE Value[z]]
    BY <1>3 DEF Construct
  <2>2. Value' = [Value EXCEPT ![x] = c]
    BY <2>1
  <2>3. Value[x] = Absent
    BY <1>3 DEF Construct
  <2> QED
    BY <2>2, <2>3 DEF Values!Create, Values!Assign
<1>4. ASSUME NEW x \in Holders, NEW y \in Holders, CopyConstruct(x, y) PROVE Values!Copy(x, y)
  <2>1. Value' = [z \in Holders |-> IF z = x THEN Value[y] ELSE Value[z]]
    BY <1>4 DEF CopyConstruct
  <2>2. Value' = [Value EXCEPT ![x] = Value[y]]
    BY <2>1
  <2>3. Value[y] # Absent
    BY <1>4 DEF CopyConstruct
  <2> QED
    BY <2>2, <2>3 DEF Values!Copy, Values!Assign
<1>5. ASSUME NEW x \in Holders, NEW y \in Holders, MoveConstruct(x, y) PROVE Values!Move(x, y)
  <2>1. Value' = [z \in Holders |-> IF z = y THEN Null ELSE IF z = x THEN Value[y] ELSE Value[z]]
    BY <1>5 DEF MoveConstruct
  <2>2. Value' = [Value EXCEPT ![x] = Value[y], ![y] = Null]
    BY <2>1
  <2>3. x # y /\ Value[y] # Absent
    BY <1>5 DEF MoveConstruct
  <2> QED
    BY <2>2, <2>3 DEF Values!Move, Values!Assign
<1>6. ASSUME NEW x \in Holders, NEW y \in Holders, CopyAssign(x, y) PROVE Values!Copy(x, y)
  <2>1. Value' = [z \in Holders |-> IF z = x THEN Value[y] ELSE Value[z]]
    BY <1>6 DEF CopyAssign, Deleted
  <2>2. Value' = [Value EXCEPT ![x] = Value[y]]
    BY <2>1
  <2>3. Value[y] # Absent
    BY <1>6 DEF CopyAssign, Deleted
  <2> QED
    BY <2>2, <2>3 DEF Values!Copy, Values!Assign
<1>7. ASSUME NEW x \in Holders, NEW y \in Holders, MoveAssign(x, y) PROVE Values!Move(x, y)
  <2>1. Value' = [z \in Holders |-> IF z = y THEN Null ELSE IF z = x THEN Value[y] ELSE Value[z]]
    BY <1>7 DEF MoveAssign, Deleted
  <2>2. Value' = [Value EXCEPT ![x] = Value[y], ![y] = Null]
    BY <2>1
  <2>3. x # y /\ Value[y] # Absent
    BY <1>7 DEF MoveAssign, Deleted
  <2> QED
    BY <2>2, <2>3 DEF Values!Move, Values!Assign
<1>8. ASSUME NEW x \in Holders, NEW y \in Holders, Swap(x, y) PROVE Values!Exchange(x, y)
  <2>1. Value' = [z \in Holders |-> IF z = y THEN Value[x] ELSE IF z = x THEN Value[y] ELSE Value[z]]
    BY <1>8 DEF Swap
  <2>2. Value' = [Value EXCEPT ![x] = Value[y], ![y] = Value[x]]
    BY <2>1
  <2>3. Value[x] # Absent /\ Value[y] # Absent
    BY <1>8 DEF Swap
  <2> QED
    BY <2>2, <2>3 DEF Values!Exchange, Values!Assign
<1>9. ASSUME NEW x \in Holders, Destroy(x) PROVE Values!Destroy(x)
  <2>1. Value' = [z \in Holders |-> IF z = x THEN Absent ELSE Value[z]]
    BY <1>9 DEF Destroy, Deleted
  <2>2. Value' = [Value EXCEPT ![x] = Absent]
    BY <2>1
  <2>3. Value[x] # Absent
    BY <1>9 DEF Destroy, Deleted
  <2> QED
    BY <2>2, <2>3 DEF Values!Destroy, Values!Assign
<1>10. CASE HandleNext
  <2> HIDE DEF Value
  <2> QED
    BY <1>2, <1>3, <1>4, <1>5, <1>6, <1>7, <1>8, <1>9, <1>10 DEF HandleNext, Values!Next
<1> QED
  BY <1>1, <1>10

(* Handles behave as values: a copy is independent of its original, a move *)
(* takes the value along.                                                  *)
THEOREM HandlesImplementValues == HandleSpec => HandlesAreValues
<1>1. HandleInit => Values!Init
  BY HandleAssumption DEF HandleInit, Values!Init, Value
<1>2. HandleInit => HandleInv
  BY HandleInitInv
<1>3. HandleInv /\ [HandleNext]_handleVars => HandleInv'
  BY HandleStepInv
<1>4. HandleInv /\ [HandleNext]_handleVars => [Values!Next]_Value
  BY HandleStepRefines
<1> QED
  BY <1>1, <1>2, <1>3, <1>4, PTL DEF HandleSpec, HandlesAreValues, Values!Spec

-----------------------------------------------------------------------------
(* Division *)

(* Quotient and remainder. *)
LEMMA Quotient ==
  ASSUME NEW a \in Int, NEW q \in Nat \ {0}
  PROVE  /\ a \div q \in Int /\ a % q \in 0 .. q - 1
         /\ a = q * (a \div q) + (a % q)
  OBVIOUS

(* They are determined. *)
LEMMA QuotientIs ==
  ASSUME NEW q \in Nat \ {0}, NEW a \in Int, NEW r \in 0 .. q - 1
  PROVE  (q * a + r) \div q = a /\ (q * a + r) % q = r
  OBVIOUS

(* Of two multiples the one with the greater factor is at least one step   *)
(* ahead.                                                                  *)
LEMMA StepAhead ==
  ASSUME NEW q \in Nat \ {0}, NEW a \in Int, NEW b \in Int, a < b
  PROVE  a * q + q <= b * q
<1>1. PICK e \in Nat : b = (a + 1) + e
  BY b - (a + 1) \in Nat
<1>2. b * q = (a * q + q) + e * q
  BY <1>1
<1>3. e * q >= 0
  OBVIOUS
<1>4. PICK x \in Int, y \in Int, z \in Int : x = a * q /\ y = b * q /\ z = e * q
  OBVIOUS
<1> QED
  BY <1>2, <1>3, <1>4

-----------------------------------------------------------------------------
(* Strided views *)

(* An iterator of v at position p: what it has passed, and what it is      *)
(* short of a multiple of the stride, make up p strides.                   *)
Stands(v, a, p) ==
  /\ p \in 0 .. StrideSize(v)
  /\ a.cur \in 0 .. v.len /\ a.missing \in Nat
  /\ a.cur + a.missing = p * v.stride
  /\ a.missing > 0 => a.cur = v.len

(* A view that can be walked. *)
Striding(v) == v.len \in Nat \ {0} /\ v.stride \in Nat \ {0}

(* The positions of a view reach its end, and none but the last does.      *)
LEMMA SizeReaches ==
  ASSUME NEW v, Striding(v)
  PROVE  /\ StrideSize(v) \in Nat
         /\ v.len <= StrideSize(v) * v.stride
         /\ \A p \in 0 .. StrideSize(v) - 1 : p * v.stride < v.len
<1>1. PICK l \in Nat \ {0}, q \in Nat \ {0} : l = v.len /\ q = v.stride
  BY DEF Striding
<1>2. PICK m \in Int, r \in 0 .. q - 1 : m = (l + (q - 1)) \div q /\ l + (q - 1) = q * m + r
  <2>1. l + (q - 1) \in Int
    OBVIOUS
  <2>2. PICK a \in Int : a = l + (q - 1)
    BY <2>1
  <2> QED
    BY <2>2, Quotient
<1>3. StrideSize(v) = m
  <2>1. (l + q) - 1 = l + (q - 1)
    OBVIOUS
  <2> QED
    BY <1>1, <1>2, <2>1 DEF StrideSize
<1>4. PICK y \in Int : y = q * m /\ y = m * q
  OBVIOUS
<1>5. y >= l /\ y < l + q
  BY <1>2, <1>4
<1>6. m >= 0
  <2> SUFFICES ASSUME m < 0 PROVE FALSE
    OBVIOUS
  <2>1. m * q + q <= 0 * q
    BY StepAhead
  <2> QED
    BY <1>4, <1>5, <2>1
<1>7. ASSUME NEW p \in 0 .. m - 1 PROVE p * q < l
  <2>1. p * q + q <= m * q
    BY StepAhead
  <2>2. PICK z \in Int : z = p * q
    OBVIOUS
  <2> QED
    BY <1>4, <1>5, <2>1, <2>2
<1> QED
  BY <1>1, <1>3, <1>4, <1>5, <1>6, <1>7

(* An iterator is at the end exactly in the last position, and is short of *)
(* nothing before.                                                         *)
LEMMA StandsWhere ==
  ASSUME NEW v, Striding(v), NEW a, NEW p, Stands(v, a, p)
  PROVE  /\ p < StrideSize(v) => a.cur = p * v.stride /\ a.cur < v.len /\ a.missing = 0
         /\ p = StrideSize(v) => a.cur = v.len
<1>1. PICK l \in Nat \ {0}, q \in Nat \ {0} : l = v.len /\ q = v.stride
  BY DEF Striding
<1>2. PICK c \in 0 .. l, m \in Nat, z \in Int :
        c = a.cur /\ m = a.missing /\ z = p * v.stride /\ c + m = z /\ (m > 0 => c = l)
  BY <1>1 DEF Stands
<1>3. p \in 0 .. StrideSize(v) /\ StrideSize(v) \in Nat
  BY SizeReaches DEF Stands
<1>4. CASE p < StrideSize(v)
  <2>1. p \in 0 .. StrideSize(v) - 1
    BY <1>3, <1>4
  <2>2. p * v.stride < v.len
    BY <2>1, SizeReaches
  <2>3. z < l
    BY <1>1, <1>2, <2>2
  <2>4. m = 0 /\ c = z /\ c < l
    BY <1>2, <2>3
  <2>5. a.cur = p * v.stride /\ a.cur < v.len /\ a.missing = 0
    <3>1. a.cur = p * v.stride
      BY <1>2, <2>4, Zenon
    <3> QED
      BY <1>1, <1>2, <2>4, <3>1
  <2>6. p # StrideSize(v)
    BY <1>3, <1>4
  <2> QED
    BY <2>5, <2>6, Zenon
<1>5. CASE p = StrideSize(v)
  <2>1. v.len <= p * v.stride
    BY <1>5, SizeReaches
  <2>2. l <= z
    BY <1>1, <1>2, <2>1
  <2>3. c = l
    BY <1>2, <2>2
  <2>4. a.cur = v.len
    BY <1>1, <1>2, <2>3, Zenon
  <2>5. ~(p < StrideSize(v))
    BY <1>3, <1>5
  <2> QED
    BY <2>4, <2>5, Zenon
<1> QED
  BY <1>3, <1>4, <1>5

(* The two ends. *)
LEMMA EndsStand ==
  ASSUME NEW v, Striding(v)
  PROVE  Stands(v, StrideBegin(v), 0) /\ Stands(v, StrideEnd(v), StrideSize(v))
<1>1. PICK l \in Nat \ {0}, q \in Nat \ {0} : l = v.len /\ q = v.stride
  BY DEF Striding
<1>2. PICK b \in Int, r \in 0 .. q - 1 : r = l % q /\ l = q * b + r
  <2>1. l \div q \in Int /\ l % q \in 0 .. q - 1 /\ l = q * (l \div q) + (l % q)
    BY Quotient
  <2> QED
    BY <2>1
<1>3. PICK m \in Nat : m = StrideSize(v)
  BY SizeReaches
<1>4. PICK short \in Int : short = (q - r) % q
  OBVIOUS
<1>5. short \in Nat /\ l + short = m * q
  <2>1. CASE r = 0
    <3>1. short = 0
      BY <1>4, <2>1
    <3>2. (l + q) - 1 = q * b + (q - 1)
      BY <1>2, <2>1
    <3>3. m = b
      <4>1. (q * b + (q - 1)) \div q = b
        BY QuotientIs
      <4> QED
        BY <1>1, <1>3, <3>2, <4>1 DEF StrideSize
    <3> QED
      BY <1>2, <2>1, <3>1, <3>3
  <2>2. CASE r # 0
    <3>1. short = q - r
      BY <1>4, <2>2
    <3>2. (l + q) - 1 = q * (b + 1) + (r - 1)
      BY <1>2
    <3>3. m = b + 1
      <4>1. (q * (b + 1) + (r - 1)) \div q = b + 1
        BY <2>2, QuotientIs
      <4> QED
        BY <1>1, <1>3, <3>2, <4>1 DEF StrideSize
    <3>4. m * q = q * b + q
      BY <3>3
    <3> QED
      BY <1>2, <3>1, <3>4
  <2> QED
    BY <2>1, <2>2
<1>6. StrideEnd(v).cur = l /\ StrideEnd(v).missing = short
  BY <1>1, <1>2, <1>4 DEF StrideEnd
<1>7. Stands(v, StrideEnd(v), StrideSize(v))
  BY <1>1, <1>3, <1>5, <1>6 DEF Stands
<1>8. Stands(v, StrideBegin(v), 0)
  <2>1. 0 * v.stride = 0
    BY <1>1
  <2> QED
    BY <1>1, <1>3, <2>1 DEF Stands, StrideBegin
<1> QED
  BY <1>7, <1>8

(* Advancing by some strides. *)
LEMMA ReachedStands ==
  ASSUME NEW v, Striding(v), NEW a, NEW p, Stands(v, a, p), NEW k \in Nat \ {0}, p + k <= StrideSize(v),
         NEW far, far = v.stride * k
  PROVE  Stands(v, Reached(v, a, far), p + k)
<1>1. PICK l \in Nat \ {0}, q \in Nat \ {0} : l = v.len /\ q = v.stride
  BY DEF Striding
<1>2. p \in Nat /\ StrideSize(v) \in Nat /\ p < StrideSize(v)
  BY SizeReaches DEF Stands
<1>3. a.cur = p * q /\ a.cur < l /\ a.missing = 0
  BY <1>1, <1>2, StandsWhere
<1>4. PICK c \in Int, z \in Int : c = p * q /\ z = (p + k) * q
  BY <1>2
<1>5. z = c + far /\ far \in Nat /\ c \in 0 .. l
  <2>1. (p + k) * q = p * q + q * k
    BY <1>2
  <2>2. q * k \in Nat /\ p * q \in Nat
    BY <1>2
  <2> QED
    BY <1>1, <1>3, <1>4, <2>1, <2>2
<1>6. CASE far <= l - c
  <2>1. Reached(v, a, far).cur = c + far /\ Reached(v, a, far).missing = 0
    BY <1>1, <1>3, <1>4, <1>6 DEF Reached
  <2>2. p + k \in 0 .. StrideSize(v)
    BY <1>2
  <2> QED
    BY <1>1, <1>4, <1>5, <1>6, <2>1, <2>2 DEF Stands
<1>7. CASE ~(far <= l - c)
  <2>1. Reached(v, a, far).cur = l /\ Reached(v, a, far).missing = far - (l - c)
    BY <1>1, <1>3, <1>4, <1>7 DEF Reached
  <2>2. p + k \in 0 .. StrideSize(v)
    BY <1>2
  <2> QED
    BY <1>1, <1>4, <1>5, <1>7, <2>1, <2>2 DEF Stands
<1> QED
  BY <1>6, <1>7

(* Going back by some strides. *)
LEMMA BackStands ==
  ASSUME NEW v, Striding(v), NEW a, NEW p, Stands(v, a, p), NEW k \in Nat \ {0}, k <= p,
         NEW b, b.cur = (a.cur + a.missing) - v.stride * k, b.missing = 0
  PROVE  Stands(v, b, p - k)
<1>1. PICK l \in Nat \ {0}, q \in Nat \ {0} : l = v.len /\ q = v.stride
  BY DEF Striding
<1>2. p \in Nat /\ StrideSize(v) \in Nat /\ p <= StrideSize(v) /\ p - k \in 0 .. StrideSize(v) - 1
  BY SizeReaches DEF Stands
<1>3. (p - k) * q < l
  BY <1>1, <1>2, SizeReaches
<1>4. PICK e \in Nat : e = p - k
  BY <1>2
<1>5. p * q - q * k = e * q /\ e * q >= 0 /\ e * q \in Int
  BY <1>2, <1>4
<1>6. a.cur + a.missing = p * q
  BY <1>1 DEF Stands
<1>7. b.cur = e * q
  BY <1>1, <1>5, <1>6
<1>8. p - k \in 0 .. StrideSize(v)
  BY <1>2
<1> QED
  BY <1>1, <1>3, <1>4, <1>5, <1>7, <1>8 DEF Stands

(* Distances to the two ends. *)
LEMMA DistancesAre ==
  ASSUME NEW v, Striding(v), NEW a, NEW p, Stands(v, a, p)
  PROVE  /\ a.cur = IF p * v.stride < v.len THEN p * v.stride ELSE v.len
         /\ StrideDistance(v, a, StrideBegin(v)) = p
         /\ StrideDistance(v, a, StrideEnd(v)) = p - StrideSize(v)
         /\ StrideDistance(v, StrideEnd(v), a) = StrideSize(v) - p
<1>1. PICK l \in Nat \ {0}, q \in Nat \ {0} : l = v.len /\ q = v.stride
  BY DEF Striding
<1>2. PICK m \in Nat : m = StrideSize(v)
  BY SizeReaches
<1>3. PICK c \in 0 .. l, s0 \in Nat : c = a.cur /\ s0 = a.missing /\ (s0 > 0 => c = l)
  BY <1>1 DEF Stands
<1>4. p \in 0 .. m /\ c + s0 = p * q
  BY <1>1, <1>2, <1>3 DEF Stands
<1>5. PICK short \in Nat : short = StrideEnd(v).missing /\ l + short = m * q
  <2>1. Stands(v, StrideEnd(v), StrideSize(v)) /\ StrideEnd(v).cur = v.len
    BY EndsStand DEF StrideEnd
  <2> QED
    BY <1>1, <1>2, <2>1 DEF Stands
<1>6. /\ p < m => c = p * q /\ c < l /\ s0 = 0
      /\ p = m => c = l
  BY <1>1, <1>2, <1>3, StandsWhere
<1>7. a.cur = IF p * v.stride < v.len THEN p * v.stride ELSE v.len
  <2>1. CASE p < m
    BY <1>1, <1>3, <1>6, <2>1
  <2>2. CASE p = m
    <3>1. ~(p * q < l)
      BY <1>5, <2>2
    <3> QED
      BY <1>1, <1>3, <1>6, <2>2, <3>1
  <2> QED
    BY <1>4, <2>1, <2>2
<1>8. StrideDistance(v, a, StrideBegin(v)) = p
  <2>1. StrideBegin(v).cur = 0
    BY DEF StrideBegin
  <2>2. CASE c > 0
    <3>1. StrideDistance(v, a, StrideBegin(v)) = (c + s0) \div q
      BY <1>1, <1>3, <2>1, <2>2 DEF StrideDistance
    <3>2. c + s0 = q * p + 0
      BY <1>4
    <3>3. (q * p + 0) \div q = p
      BY <1>4, QuotientIs
    <3> QED
      BY <3>1, <3>2, <3>3
  <2>3. CASE c = 0
    <3>1. StrideDistance(v, a, StrideBegin(v)) = 0
      BY <1>1, <1>3, <2>1, <2>3 DEF StrideDistance
    <3>2. p * q = 0 * q
      BY <1>3, <1>4, <2>3
    <3>3. ~(0 < p)
      <4> SUFFICES ASSUME 0 < p PROVE FALSE
        OBVIOUS
      <4>1. 0 * q + q <= p * q
        BY <1>4, StepAhead
      <4> QED
        BY <3>2, <4>1
    <3> QED
      BY <1>4, <3>1, <3>3
  <2> QED
    BY <1>3, <2>2, <2>3
<1>9. /\ StrideDistance(v, a, StrideEnd(v)) = p - m
      /\ StrideDistance(v, StrideEnd(v), a) = m - p
  <2>1. StrideEnd(v).cur = l
    BY <1>1 DEF StrideEnd
  <2>2. CASE p < m
    <3>1. StrideDistance(v, a, StrideEnd(v)) = -(((l - c) + short) \div q)
      <4>1. -(c - l) = l - c /\ c - l < 0
        BY <1>6, <2>2
      <4> QED
        BY <1>1, <1>3, <1>5, <2>1, <4>1 DEF StrideDistance
    <3>2. StrideDistance(v, StrideEnd(v), a) = ((l - c) + short) \div q
      <4>1. l - c > 0
        BY <1>6, <2>2
      <4> QED
        BY <1>1, <1>3, <1>5, <2>1, <4>1 DEF StrideDistance
    <3>3. PICK e \in Int : e = m - p
      BY <1>4
    <3>4. (l - c) + short = q * e + 0
      <4>1. m * q - p * q = q * e
        BY <1>4, <3>3
      <4> QED
        BY <1>5, <1>6, <2>2, <4>1
    <3>5. (q * e + 0) \div q = e
      BY QuotientIs
    <3> QED
      BY <1>4, <3>1, <3>2, <3>3, <3>4, <3>5
  <2>3. CASE p = m
    <3>1. c - l = 0 /\ l - c = 0
      BY <1>6, <2>3
    <3>2. StrideDistance(v, a, StrideEnd(v)) = 0 /\ StrideDistance(v, StrideEnd(v), a) = 0
      BY <1>3, <2>1, <3>1 DEF StrideDistance
    <3> QED
      BY <2>3, <3>2
  <2> QED
    BY <1>4, <2>2, <2>3
<1> QED
  BY <1>2, <1>7, <1>8, <1>9

-----------------------------------------------------------------------------
(* Points of a mesh *)

(* The number of points before one in a mesh of n1 x n2 to a plane.        *)
Before(i, j, k, n1, n2) == (i * (n1 * n2) + j * n2) + k

(* An iterator over a mesh of n0 x n1 x n2 points, after p steps.          *)
OnPoint(a, n0, n1, n2, p) ==
  \E i \in 0 .. n0, j \in 0 .. n1 - 1, k \in 0 .. n2 - 1 :
    /\ a = <<i, j, k>> /\ (i = n0 => j = 0 /\ k = 0)
    /\ p = Before(i, j, k, n1, n2)

(* It starts before the first point. *)
LEMMA BeginOnPoint ==
  ASSUME NEW n0 \in Nat \ {0}, NEW n1 \in Nat \ {0}, NEW n2 \in Nat \ {0},
         NEW lens, lens[1] = n0, lens[2] = n1, lens[3] = n2
  PROVE  OnPoint(ProductBegin(lens), n0, n1, n2, 0)
<1>1. ProductBegin(lens) = <<0, 0, 0>>
  BY DEF ProductBegin
<1>2. 0 = (0 * (n1 * n2) + 0 * n2) + 0
  <2>1. n1 * n2 \in Int
    OBVIOUS
  <2> QED
    BY <2>1
<1> QED
  BY <1>1, <1>2 DEF OnPoint, Before

(* A step that is not from the end goes to the next point. *)
LEMMA NextOnPoint ==
  ASSUME NEW n0 \in Nat \ {0}, NEW n1 \in Nat \ {0}, NEW n2 \in Nat \ {0},
         NEW lens, lens[1] = n0, lens[2] = n1, lens[3] = n2,
         NEW a, NEW p \in Int, OnPoint(a, n0, n1, n2, p), a # ProductEnd(lens)
  PROVE  OnPoint(ProductNext(lens, a), n0, n1, n2, p + 1)
<1>1. PICK i \in 0 .. n0, j \in 0 .. n1 - 1, k \in 0 .. n2 - 1 :
        /\ a = <<i, j, k>> /\ (i = n0 => j = 0 /\ k = 0)
        /\ p = (i * (n1 * n2) + j * n2) + k
  BY DEF OnPoint, Before
<1>2. i < n0
  BY <1>1 DEF ProductEnd
<1>3. PICK q \in Nat, x \in Int, y \in Int : q = n1 * n2 /\ x = i * q /\ y = j * n2 /\ p = (x + y) + k
  <2>1. n1 * n2 \in Nat /\ i * (n1 * n2) \in Int /\ j * n2 \in Int
    OBVIOUS
  <2> QED
    BY <1>1, <2>1
<1>4. CASE k + 1 # n2
  <2>1. ProductNext(lens, a) = <<i, j, k + 1>>
    BY <1>1, <1>4 DEF ProductNext
  <2>2. k + 1 \in 0 .. n2 - 1 /\ p + 1 = (i * (n1 * n2) + j * n2) + (k + 1)
    BY <1>3, <1>4
  <2>3. PICK w \in 0 .. n2 - 1 :
          w = k + 1 /\ i # n0 /\ ProductNext(lens, a) = <<i, j, w>> /\ p + 1 = Before(i, j, w, n1, n2)
    BY <1>2, <2>1, <2>2 DEF Before
  <2> QED
    BY <2>3 DEF OnPoint
<1>5. CASE k + 1 = n2 /\ j + 1 # n1
  <2>1. ProductNext(lens, a) = <<i, j + 1, 0>>
    BY <1>1, <1>5 DEF ProductNext
  <2>2. (j + 1) * n2 = y + n2
    BY <1>3
  <2>3. j + 1 \in 0 .. n1 - 1 /\ 0 \in 0 .. n2 - 1
    BY <1>5
  <2>4. p + 1 = (i * (n1 * n2) + (j + 1) * n2) + 0
    BY <1>3, <1>5, <2>2
  <2>5. PICK e \in 0 .. n1 - 1, w \in 0 .. n2 - 1 :
          e = j + 1 /\ w = 0 /\ i # n0
          /\ ProductNext(lens, a) = <<i, e, w>> /\ p + 1 = Before(i, e, w, n1, n2)
    BY <1>2, <2>1, <2>3, <2>4 DEF Before
  <2> QED
    BY <2>5 DEF OnPoint
<1>6. CASE k + 1 = n2 /\ j + 1 = n1
  <2>1. ProductNext(lens, a) = <<i + 1, 0, 0>>
    BY <1>1, <1>6 DEF ProductNext
  <2>2. (i + 1) * q = x + q /\ 0 * n2 = 0
    BY <1>3
  <2>3. q = y + n2
    <3>1. (j + 1) * n2 = j * n2 + n2
      OBVIOUS
    <3> QED
      BY <1>3, <1>6, <3>1
  <2>4. p + 1 = ((i + 1) * (n1 * n2) + 0 * n2) + 0
    BY <1>3, <1>6, <2>2, <2>3
  <2>5. i + 1 \in 0 .. n0 /\ 0 \in 0 .. n1 - 1 /\ 0 \in 0 .. n2 - 1
    BY <1>2
  <2>6. PICK e \in 0 .. n0, g \in 0 .. n1 - 1, w \in 0 .. n2 - 1 :
          /\ g = 0 /\ w = 0 /\ ProductNext(lens, a) = <<e, g, w>>
          /\ p + 1 = Before(e, g, w, n1, n2)
    BY <2>1, <2>4, <2>5 DEF Before
  <2> QED
    BY <2>6 DEF OnPoint
<1> QED
  BY <1>4, <1>5, <1>6

(* The end is reached after as many steps as there are points. *)
LEMMA EndOnPoint ==
  ASSUME NEW n0 \in Nat \ {0}, NEW n1 \in Nat \ {0}, NEW n2 \in Nat \ {0},
         NEW lens, lens[1] = n0, lens[2] = n1, lens[3] = n2,
         NEW a, NEW p, OnPoint(a, n0, n1, n2, p)
  PROVE  a = ProductEnd(lens) <=> p = ProductSize(lens)
<1>1. PICK i \in 0 .. n0, j \in 0 .. n1 - 1, k \in 0 .. n2 - 1 :
        /\ a = <<i, j, k>> /\ (i = n0 => j = 0 /\ k = 0)
        /\ p = (i * (n1 * n2) + j * n2) + k
  BY DEF OnPoint, Before
<1>2. PICK q \in Nat \ {0}, y \in Int : q = n1 * n2 /\ y = j * n2
  <2>1. n1 * n2 \in Nat \ {0} /\ j * n2 \in Int
    OBVIOUS
  <2> QED
    BY <2>1
<1>3. y + k < q
  <2>1. j * n2 + n2 <= n1 * n2
    BY StepAhead
  <2> QED
    BY <1>2, <2>1
<1>4. PICK x \in Int, z \in Int : x = i * q /\ z = n0 * q /\ p = (x + y) + k
  BY <1>1, <1>2
<1>5. ProductSize(lens) = z
  <2>1. n0 * n1 * n2 = n0 * (n1 * n2)
    OBVIOUS
  <2> QED
    BY <1>2, <1>4, <2>1 DEF ProductSize
<1>6. CASE i = n0
  <2>1. a = ProductEnd(lens)
    BY <1>1, <1>6 DEF ProductEnd
  <2>2. y = 0 /\ k = 0
    BY <1>1, <1>2, <1>6
  <2> QED
    BY <1>4, <1>5, <1>6, <2>1, <2>2
<1>7. CASE i < n0
  <2>1. a # ProductEnd(lens)
    BY <1>1, <1>7 DEF ProductEnd
  <2>2. i * q + q <= n0 * q
    BY <1>7, StepAhead
  <2> QED
    BY <1>3, <1>4, <1>5, <2>1, <2>2
<1> QED
  BY <1>6, <1>7

(* The numberings of the directions agree at a point. *)
LEMMA NumberingsAgree ==
  ASSUME NEW n, NEW p, \A e \in Dirs : n[e] \in Nat \ {0} /\ p[e] \in Int, NEW d \in Dirs
  PROVE  /\ BoundsIndex(n, d, p) = UcIjk2Dir(n, d, p)
         /\ UcDir(n, d, <<p[SlowDir(d)], p[FastDir(d)], p[d]>>) = UcIjk2Dir(n, d, p)
         /\ OnBoundary(n, d, FALSE, p) => UcIjk2Dir(n, d, p) % n[d] = 0
<1>1. SlowDir(d) \in Dirs /\ FastDir(d) \in Dirs
  BY DEF SlowDir, FastDir, Dirs
<1>2. PICK q \in Nat \ {0}, f \in Nat \ {0} : q = n[d] /\ f = n[FastDir(d)]
  BY <1>1
<1>3. PICK x \in Int, y \in Int, z \in Int : x = p[SlowDir(d)] /\ y = p[FastDir(d)] /\ z = p[d]
  BY <1>1
<1>4. UcIjk2Dir(n, d, p) = q * (f * x + y) + z
  BY <1>2, <1>3 DEF UcIjk2Dir
<1>5. BoundsIndex(n, d, p) = (x * q * f + y * q) + z
  BY <1>2, <1>3 DEF BoundsIndex
<1>6. UcDir(n, d, <<x, y, z>>) = q * (f * x + y) + z
  BY <1>2 DEF UcDir
<1>7. x * q * f + y * q = q * (f * x + y)
  OBVIOUS
<1>8. ASSUME z = 0 PROVE (q * (f * x + y) + z) % q = 0
  <2>1. PICK w \in Int : w = f * x + y
    OBVIOUS
  <2>2. (q * w + 0) % q = 0
    BY QuotientIs
  <2> QED
    BY <1>8, <2>1, <2>2
<1>9. OnBoundary(n, d, FALSE, p) => z = 0
  BY <1>3 DEF OnBoundary
<1> QED
  BY <1>2, <1>3, <1>4, <1>5, <1>6, <1>7, <1>8, <1>9

(* A transposition gives the same point in the other order. *)
LEMMA TransposeAgrees ==
  ASSUME NEW p, NEW d \in Dirs, NEW e \in Dirs
  PROVE  Transpose(d, e, <<p[d], p[FastDir(d)], p[SlowDir(d)]>>) = <<p[e], p[FastDir(e)], p[SlowDir(e)]>>
<1>1. CASE d = 0
  BY <1>1 DEF Dirs, Transpose, FastDir, SlowDir
<1>2. CASE d = 1
  BY <1>2 DEF Dirs, Transpose, FastDir, SlowDir
<1>3. CASE d = 2
  BY <1>3 DEF Dirs, Transpose, FastDir, SlowDir
<1> QED
  BY <1>1, <1>2, <1>3 DEF Dirs

-----------------------------------------------------------------------------
(* Walks *)

(* Extents and the points of a mesh, once read. *)
MeshTyped ==
  /\ \A e \in Dirs : ext[e] \in Int
  /\ cart # NoMesh => \A e \in Dirs : cart.n[e] \in Nat \ {0}

(* Where the iterators are. *)
WalkInv ==
  /\ MeshTyped
  /\ pc \notin {"visit", "line"} => pos = 0
  /\ pc = "visit" =>
       cart # NoMesh /\ pos \in Int /\ OnPoint(it, cart.n[0], cart.n[1], cart.n[2], pos)
  /\ pc = "line" => Striding(line) /\ Stands(line, at, pos)

(* They agree. *)
LEMMA WalkInvAgrees == WalkInv => WalksAgree
<1> SUFFICES ASSUME WalkInv PROVE WalksAgree
  OBVIOUS
<1>1. ASSUME pc = "visit"
      PROVE  LET n == cart.n
                 p == [e \in Dirs |-> it[e + 1]]
                 in(d) == <<p[d], p[FastDir(d)], p[SlowDir(d)]>>
             IN  /\ pos = it[1] * StrideOf(n, 0) + it[2] * StrideOf(n, 1) + it[3] * StrideOf(n, 2)
                 /\ it = ProductEnd(Lens) <=> pos = ProductSize(Lens)
                 /\ \A d \in Dirs :
                      /\ BoundsIndex(n, d, p) = UcIjk2Dir(n, d, p)
                      /\ UcDir(n, d, <<p[SlowDir(d)], p[FastDir(d)], p[d]>>) = UcIjk2Dir(n, d, p)
                      /\ \A e \in Dirs : Transpose(d, e, in(d)) = in(e)
                      /\ OnBoundary(n, d, FALSE, p) => UcIjk2Dir(n, d, p) % n[d] = 0
  <2>1. PICK n0 \in Nat \ {0}, n1 \in Nat \ {0}, n2 \in Nat \ {0} :
          n0 = cart.n[0] /\ n1 = cart.n[1] /\ n2 = cart.n[2]
    BY <1>1 DEF WalkInv, MeshTyped, Dirs
  <2>2. OnPoint(it, n0, n1, n2, pos)
    BY <1>1, <2>1 DEF WalkInv
  <2>3. PICK i \in 0 .. n0, j \in 0 .. n1 - 1, k \in 0 .. n2 - 1 :
          it = <<i, j, k>> /\ pos = (i * (n1 * n2) + j * n2) + k
    BY <2>2 DEF OnPoint, Before
  <2> DEFINE p == [e \in Dirs |-> it[e + 1]]
  <2>4. \A e \in Dirs : cart.n[e] \in Nat \ {0} /\ p[e] \in Int
    BY <1>1, <2>3 DEF WalkInv, MeshTyped, Dirs
  <2>5. Lens[1] = n0 /\ Lens[2] = n1 /\ Lens[3] = n2
    BY <2>1 DEF Lens
  <2>6. it = ProductEnd(Lens) <=> pos = ProductSize(Lens)
    <3> HIDE DEF Lens
    <3> QED
      BY <2>2, <2>5, EndOnPoint
  <2>7. pos = it[1] * StrideOf(cart.n, 0) + it[2] * StrideOf(cart.n, 1) + it[3] * StrideOf(cart.n, 2)
    BY <2>1, <2>3 DEF StrideOf
  <2> HIDE DEF p
  <2>8. \A d \in Dirs :
          /\ BoundsIndex(cart.n, d, p) = UcIjk2Dir(cart.n, d, p)
          /\ UcDir(cart.n, d, <<p[SlowDir(d)], p[FastDir(d)], p[d]>>) = UcIjk2Dir(cart.n, d, p)
          /\ OnBoundary(cart.n, d, FALSE, p) => UcIjk2Dir(cart.n, d, p) % cart.n[d] = 0
    BY <2>4, NumberingsAgree
  <2>9. \A d, e \in Dirs :
          Transpose(d, e, <<p[d], p[FastDir(d)], p[SlowDir(d)]>>) = <<p[e], p[FastDir(e)], p[SlowDir(e)]>>
    BY TransposeAgrees
  <2> QED
    BY <2>6, <2>7, <2>8, <2>9, Zenon DEF p
<1>2. ASSUME pc = "line"
      PROVE  /\ at.cur = IF pos * line.stride < line.len THEN pos * line.stride ELSE line.len
             /\ StrideDistance(line, at, StrideBegin(line)) = pos
             /\ StrideDistance(line, at, StrideEnd(line)) = pos - StrideSize(line)
             /\ StrideDistance(line, StrideEnd(line), at) = StrideSize(line) - pos
  BY <1>2, DistancesAre DEF WalkInv
<1> QED
  BY <1>1, <1>2, Zenon DEF WalksAgree

(* Nothing is visited at first. *)
LEMMA WalkStart == ConfigInit => WalkInv
BY DEF ConfigInit, NothingRead, WalkInv, MeshTyped, Zeros, Three, Dirs

(* Extents that are read are integers. *)
LEMMA ExtentsTyped ==
  ASSUME tbl \in Tables, CartesianFromLua # <<>>, NEW e \in Dirs
  PROVE  CartesianFromLua[1].ext[e] \in Int
<1>1. Has(tbl, "mesh") /\ Has(tbl.mesh, "index_extents")
  BY Zenon DEF CartesianFromLua
<1>2. PICK g \in Seq(Int) : g = tbl.mesh.index_extents
  BY <1>1, ConfigurationAssumption DEF MeshTable
<1>3. CartesianFromLua[1].ext = Triple(g, [x \in Dirs |-> 1])
  BY <1>2 DEF CartesianFromLua
<1>4. Triple(g, [x \in Dirs |-> 1])[e] = IF e < Len(g) THEN g[e + 1] ELSE 1
  BY DEF Triple, Entry, Three, Dirs
<1>5. e < Len(g) => g[e + 1] \in Int
  <2>1. e \in Nat /\ Len(g) \in Nat
    BY DEF Dirs
  <2>2. e < Len(g) => e + 1 \in 1 .. Len(g)
    BY <2>1
  <2> QED
    BY <2>2
<1> QED
  BY <1>3, <1>4, <1>5

(* Before the visit nothing moves the iterators. *)
LEMMA SetupKeepsWalks ==
  ASSUME WalkInv, tbl \in Tables,
         \/ ChooseSystem \/ ReadCartesian \/ BuildMesh \/ ReadBoundaries \/ ReadScheme
         \/ ReadSolution \/ NoConditions \/ ConstructHeat \/ FinishHeat \/ ConstructOther
         \/ ReadIntegrator \/ ReadController \/ ReadIo \/ BuildCycle
  PROVE  WalkInv'
<1>1. pc \notin {"visit", "line"} /\ pc' \notin {"visit", "line"} /\ pos' = pos
  BY DEF ChooseSystem, ReadCartesian, BuildMesh, ReadBoundaries, ReadScheme, ReadSolution, NoConditions,
         ConstructHeat, FinishHeat, ConstructOther, ReadIntegrator, ReadController, ReadIo, BuildCycle,
         At, Then, visit
<1>2. MeshTyped'
  <2>1. CASE ReadCartesian
    <3>1. ext' = ext \/ (CartesianFromLua # <<>> /\ ext' = CartesianFromLua[1].ext)
      BY <2>1 DEF ReadCartesian
    <3>2. cart' = cart
      BY <2>1 DEF ReadCartesian
    <3>3. \A e \in Dirs : ext'[e] \in Int
      BY <3>1, ExtentsTyped DEF WalkInv, MeshTyped
    <3> QED
      BY <3>2, <3>3 DEF WalkInv, MeshTyped
  <2>2. CASE BuildMesh
    <3>1. ext' = ext /\ (cart' = cart \/ cart' = Cartesian)
      BY <2>2 DEF BuildMesh
    <3>2. ASSUME NEW e \in Dirs PROVE Cartesian.n[e] \in Nat \ {0}
      <4>1. Cartesian.n[e] = IF ext[e] > 0 THEN ext[e] ELSE 1
        BY DEF Cartesian
      <4> QED
        BY <4>1 DEF WalkInv, MeshTyped
    <3> QED
      BY <3>1, <3>2 DEF WalkInv, MeshTyped
  <2>3. CASE ~ReadCartesian /\ ~BuildMesh
    <3>1. ext' = ext /\ cart' = cart
      BY <2>3 DEF ChooseSystem, ReadBoundaries, ReadScheme, ReadSolution, NoConditions,
         ConstructHeat, FinishHeat, ConstructOther, ReadIntegrator, ReadController, ReadIo, BuildCycle, parsed
    <3> QED
      BY <3>1 DEF WalkInv, MeshTyped
  <2> QED
    BY <2>1, <2>2, <2>3
<1> QED
  BY <1>1, <1>2 DEF WalkInv

(* The visit goes from point to point. *)
LEMMA VisitKeepsWalks == ASSUME WalkInv, StartVisit \/ VisitPoint PROVE WalkInv'
<1>1. ext' = ext /\ cart' = cart /\ cart # NoMesh /\ pc' = "visit"
  BY DEF StartVisit, VisitPoint, Then, parsed, At, WalkInv
<1>2. MeshTyped'
  BY <1>1 DEF WalkInv, MeshTyped
<1>3. PICK n0 \in Nat \ {0}, n1 \in Nat \ {0}, n2 \in Nat \ {0} :
        n0 = cart.n[0] /\ n1 = cart.n[1] /\ n2 = cart.n[2]
  BY <1>1 DEF WalkInv, MeshTyped, Dirs
<1>4. PICK lens : lens = Lens
  OBVIOUS
<1>5. lens[1] = n0 /\ lens[2] = n1 /\ lens[3] = n2
  BY <1>3, <1>4 DEF Lens
<1>6. pos' \in Int /\ OnPoint(it', n0, n1, n2, pos')
  <2>1. CASE StartVisit
    <3>1. it' = ProductBegin(lens) /\ pos' = 0
      BY <1>4, <2>1 DEF StartVisit, At, WalkInv
    <3> QED
      BY <1>5, <3>1, BeginOnPoint
  <2>2. CASE VisitPoint
    <3>1. it' = ProductNext(lens, it) /\ pos' = pos + 1 /\ it # ProductEnd(lens) /\ pc = "visit"
      BY <1>4, <2>2 DEF VisitPoint, At
    <3>2. pos \in Int /\ OnPoint(it, n0, n1, n2, pos)
      BY <1>3, <3>1 DEF WalkInv
    <3> QED
      BY <1>5, <3>1, <3>2, NextOnPoint
  <2> QED
    BY <2>1, <2>2
<1> QED
  BY <1>1, <1>2, <1>3, <1>6 DEF WalkInv

(* A line starts at one of its ends. *)
LEMMA ChosenStands == ASSUME WalkInv, ChooseLine PROVE WalkInv'
<1>1. ext' = ext /\ cart' = cart /\ cart # NoMesh /\ pc' = "line"
  BY DEF ChooseLine, Then, parsed, At, WalkInv
<1>2. MeshTyped'
  BY <1>1 DEF WalkInv, MeshTyped
<1>3. PICK n0 \in Nat \ {0}, n1 \in Nat \ {0}, n2 \in Nat \ {0} :
        n0 = cart.n[0] /\ n1 = cart.n[1] /\ n2 = cart.n[2]
  BY <1>1 DEF WalkInv, MeshTyped, Dirs
<1>4. PICK d \in Dirs, first \in 0 .. PointCount(cart.n) - 1 :
        LET v == [len |-> PointCount(cart.n) - first, stride |-> StrideOf(cart.n, d)]
        IN  /\ line' = v
            /\ \/ at' = StrideBegin(v) /\ pos' = 0
               \/ at' = StrideEnd(v) /\ pos' = StrideSize(v)
  BY DEF ChooseLine
<1>5. PointCount(cart.n) \in Nat /\ StrideOf(cart.n, d) \in Nat \ {0}
  <2>1. n0 * n1 * n2 \in Nat /\ n1 * n2 \in Nat \ {0}
    OBVIOUS
  <2> QED
    BY <1>3, <2>1 DEF PointCount, StrideOf, Dirs
<1>6. PICK v : v = [len |-> PointCount(cart.n) - first, stride |-> StrideOf(cart.n, d)]
  OBVIOUS
<1>7. Striding(v)
  BY <1>5, <1>6 DEF Striding
<1>8. line' = v /\ Stands(v, at', pos')
  BY <1>4, <1>6, <1>7, EndsStand
<1> QED
  BY <1>1, <1>2, <1>7, <1>8 DEF WalkInv

(* A walk along it goes from position to position. *)
LEMMA WalkStands == ASSUME WalkInv, LineNext \/ LinePrev \/ LineJump PROVE WalkInv'
<1>1. /\ ext' = ext /\ cart' = cart /\ line' = line /\ pc = "line" /\ pc' = "line"
      /\ pos' \in 0 .. StrideSize(line)
  BY DEF LineNext, LinePrev, LineJump, Walk, Then, parsed, At
<1>2. MeshTyped'
  BY <1>1 DEF WalkInv, MeshTyped
<1>3. Striding(line) /\ Stands(line, at, pos)
  BY <1>1 DEF WalkInv
<1>4. PICK size \in Nat : size = StrideSize(line)
  BY <1>3, SizeReaches
<1>5. pos \in 0 .. size /\ pos' \in 0 .. size
  BY <1>1, <1>3, <1>4 DEF Stands
<1>6. PICK l \in Nat \ {0}, q \in Nat \ {0} : l = line.len /\ q = line.stride
  BY <1>3 DEF Striding
<1>7. at.cur \in Int /\ at.missing \in Int
  BY <1>3, <1>6 DEF Stands
<1>8. Stands(line, at', pos')
  <2>1. CASE LineNext
    <3>1. at' = Reached(line, at, line.stride) /\ pos' = pos + 1
      BY <2>1 DEF LineNext, Walk, StrideNext
    <3>2. line.stride = line.stride * 1
      BY <1>6
    <3> QED
      BY <1>3, <1>4, <1>5, <3>1, <3>2, ReachedStands
  <2>2. CASE LinePrev
    <3>1. at' = StridePrev(line, at) /\ pos' = pos - 1 /\ 1 <= pos
      BY <1>5, <2>2 DEF LinePrev, Walk
    <3>2. at'.cur = (at.cur + at.missing) - line.stride * 1 /\ at'.missing = 0
      BY <1>6, <1>7, <3>1 DEF StridePrev
    <3> QED
      BY <1>3, <3>1, <3>2, BackStands
  <2>3. CASE LineJump
    <3>1. PICK k \in Int : at' = StridePlus(line, at, k) /\ pos' = pos + k
      BY <2>3, ConfigurationAssumption DEF LineJump, Walk
    <3>2. CASE k > 0
      <4>1. PICK far : far = line.stride * k
        OBVIOUS
      <4>2. at' = Reached(line, at, far)
        BY <3>1, <3>2, <4>1 DEF StridePlus
      <4>3. k \in Nat \ {0} /\ pos + k <= StrideSize(line)
        BY <1>4, <1>5, <3>1, <3>2
      <4> QED
        BY <1>3, <3>1, <4>1, <4>2, <4>3, ReachedStands
    <3>3. CASE k < 0
      <4>1. at' = [cur |-> at.cur + line.stride * k + at.missing, missing |-> 0]
        BY <3>1, <3>3 DEF StridePlus
      <4>2. PICK j \in Nat \ {0} : j = -k
        BY <3>3
      <4>3. at'.cur = (at.cur + at.missing) - line.stride * j /\ at'.missing = 0
        <5>1. q * k = -(q * j)
          BY <4>2
        <5> QED
          BY <1>6, <1>7, <4>1, <5>1
      <4>4. j <= pos /\ pos' = pos - j
        BY <1>5, <3>1, <4>2
      <4> QED
        BY <1>3, <4>3, <4>4, BackStands
    <3>4. CASE k = 0
      BY <1>3, <1>5, <3>1, <3>4 DEF StridePlus
    <3> QED
      BY <3>2, <3>3, <3>4
  <2> QED
    BY <2>1, <2>2, <2>3
<1> QED
  BY <1>1, <1>2, <1>3, <1>8 DEF WalkInv

(* Every step keeps the iterators where they agree. *)
LEMMA WalkStep == ASSUME WalkInv, tbl \in Tables, [ConfigNext]_configVars PROVE WalkInv'
<1>1. CASE Statement
  <2>1. pc' = pc /\ ext' = ext /\ cart' = cart /\ it' = it /\ line' = line /\ at' = at /\ pos' = pos
    BY <1>1 DEF Statement, parsed, visit
  <2> QED
    BY <2>1 DEF WalkInv, MeshTyped
<1>2. CASE UNCHANGED configVars
  <2>1. pc' = pc /\ ext' = ext /\ cart' = cart /\ it' = it /\ line' = line /\ at' = at /\ pos' = pos
    BY <1>2 DEF configVars, parsed, visit
  <2> QED
    BY <2>1 DEF WalkInv, MeshTyped
<1>3. CASE \/ ChooseSystem \/ ReadCartesian \/ BuildMesh \/ ReadBoundaries \/ ReadScheme
           \/ ReadSolution \/ NoConditions \/ ConstructHeat \/ FinishHeat \/ ConstructOther
           \/ ReadIntegrator \/ ReadController \/ ReadIo \/ BuildCycle
  BY <1>3, SetupKeepsWalks
<1>4. CASE StartVisit \/ VisitPoint
  BY <1>4, VisitKeepsWalks
<1>5. CASE ChooseLine
  BY <1>5, ChosenStands
<1>6. CASE LineNext \/ LinePrev \/ LineJump
  BY <1>6, WalkStands
<1> QED
  BY <1>1, <1>2, <1>3, <1>4, <1>5, <1>6 DEF ConfigNext

(* On any mesh and along any line, however it is walked: positions, points *)
(* and numberings agree.                                                   *)
THEOREM WalksStayTogether == ConfigSpec => []WalksAgree
<1> DEFINE Inv == WalkInv /\ tbl \in Tables
<1>1. ConfigInit => Inv
  BY WalkStart DEF ConfigInit
<1>2. Inv /\ [ConfigNext]_configVars => Inv'
  <2> SUFFICES ASSUME WalkInv, tbl \in Tables, [ConfigNext]_configVars PROVE WalkInv' /\ (tbl \in Tables)'
    OBVIOUS
  <2>1. tbl' = tbl
    BY DEF ConfigNext, Statement, ChooseSystem, ReadCartesian, BuildMesh, ReadBoundaries, ReadScheme,
           ReadSolution, NoConditions, ConstructHeat, FinishHeat, ConstructOther, ReadIntegrator,
           ReadController, ReadIo, BuildCycle, StartVisit, VisitPoint, ChooseLine, LineNext, LinePrev,
           LineJump, Walk, At, configVars
  <2> QED
    BY <2>1, WalkStep
<1>3. Inv => WalksAgree
  BY WalkInvAgrees
<1> HIDE DEF Inv
<1> QED
  BY <1>1, <1>2, <1>3, PTL DEF ConfigSpec

-----------------------------------------------------------------------------
(* The field *)

(* A set of naturals that is not empty has a least element. *)
LEMMA LeastNat ==
  ASSUME NEW T, T \subseteq Nat, T # {}
  PROVE  \E x \in T : \A y \in T : x <= y
<1> DEFINE Below == {p \in Nat \X Nat : p[1] < p[2]}
<1>1. IsWellFoundedOn(Below, Nat)
  <2>1. Below = OpToRel(<, Nat)
    BY DEF OpToRel
  <2> QED
    BY <2>1, NatLessThanWellFounded
<1> HIDE DEF Below
<1>2. PICK x \in T : \A y \in T : <<y, x>> \notin Below
  BY <1>1, WFMin
<1>3. ASSUME NEW y \in T PROVE x <= y
  <2>1. <<y, x>> \notin Below
    BY <1>2
  <2>2. <<y, x>> \in Nat \X Nat /\ <<y, x>>[1] = y /\ <<y, x>>[2] = x
    BY <1>2
  <2>3. ~(y < x)
    BY <2>1, <2>2 DEF Below
  <2> QED
    BY <1>2, <2>3
<1> QED
  BY <1>2, <1>3

(* Induction: a set with 0 and with every successor up to m has all        *)
(* numbers up to m.                                                        *)
LEMMA Induction ==
  ASSUME NEW m \in Nat, NEW T, 0 \in T, \A i \in 0 .. m - 1 : i \in T => i + 1 \in T
  PROVE  0 .. m \subseteq T
<1> SUFFICES ASSUME ~(0 .. m \subseteq T) PROVE FALSE
  OBVIOUS
<1> DEFINE Rest == (0 .. m) \ T
<1>0. Rest \subseteq Nat /\ Rest # {}
  OBVIOUS
<1>1. PICK x \in Rest : \A y \in Rest : x <= y
  <2> HIDE DEF Rest
  <2> QED
    BY <1>0, LeastNat
<1>2. x # 0 /\ x - 1 \in 0 .. m - 1 /\ x - 1 \in T
  BY <1>1
<1> QED
  BY <1>1, <1>2

(* No number up to the root of the prime divides it. *)
LEMMA NoSmallDivisor ==
  ASSUME NEW b \in 2 .. 180, NEW c \in Int
  PROVE  b * c # Prime
BY DEF Prime

(* What is needed of its value. *)
LEMMA PrimeSize == Prime \in Nat /\ Prime > 180 /\ Prime < 32761
BY DEF Prime

(* It is a prime. *)
LEMMA PrimeIsPrime ==
  ASSUME NEW a \in 2 .. Prime - 1
  PROVE  Prime % a \in 1 .. a - 1
<1>1. Prime \div a \in Int /\ Prime % a \in 0 .. a - 1 /\ Prime = a * (Prime \div a) + (Prime % a)
  <2>1. a \in Nat \ {0} /\ Prime \in Int
    BY PrimeSize
  <2> QED
    BY <2>1, Quotient
<1>2. PICK c \in Int, r \in 0 .. a - 1 : r = Prime % a /\ Prime = a * c + r
  BY <1>1
<1>p. a \in Int /\ Prime \in Nat /\ Prime > 180 /\ Prime < 32761
  BY PrimeSize
<1>3. ASSUME r = 0 PROVE FALSE
  <2>1. a * c = Prime /\ c * a = Prime
    BY <1>2, <1>3, <1>p
  <2>2. a > 180
    <3> SUFFICES ASSUME a <= 180 PROVE FALSE
      BY <1>p
    <3>1. a \in 2 .. 180
      BY <1>p
    <3> QED
      BY <2>1, <3>1, NoSmallDivisor
  <2>3. c > 0
    <3> SUFFICES ASSUME c <= 0 PROVE FALSE
      OBVIOUS
    <3>1. PICK d \in Nat : c = -d
      BY -c \in Nat
    <3>2. a * c = -(a * d) /\ a * d >= 0
      BY <1>p, <2>2, <3>1
    <3> QED
      BY <1>p, <2>1, <3>2
  <2>4. c # 1
    BY <1>p, <2>1
  <2>5. c > 180
    <3> SUFFICES ASSUME c <= 180 PROVE FALSE
      OBVIOUS
    <3>1. c \in 2 .. 180
      BY <2>3, <2>4
    <3>2. c * a # Prime
      BY <1>p, <3>1, NoSmallDivisor
    <3> QED
      BY <2>1, <3>2
  <2>6. PICK d \in Nat, e \in Nat : a = 181 + d /\ c = 181 + e
    BY <1>p, <2>2, <2>5, a - 181 \in Nat, c - 181 \in Nat
  <2>7. a * c = 32761 + 181 * d + 181 * e + d * e /\ d * e >= 0
    BY <2>6
  <2>8. PICK f \in Nat : f = d * e
    BY <2>6
  <2> QED
    BY <1>p, <2>1, <2>6, <2>7, <2>8
<1> QED
  BY <1>2, <1>3

(* Numbers that are the same element. *)
Same(a, b) == \E k \in Int : a = b + Prime * k

(* They have one residue. *)
LEMMA SameIs ==
  ASSUME NEW a \in Int, NEW b \in Int, Same(a, b)
  PROVE  a % Prime = b % Prime
<1>1. PICK k \in Int : a = b + Prime * k
  BY DEF Same
<1>2. PICK q \in Int, r \in 0 .. Prime - 1 : b = Prime * q + r /\ r = b % Prime
  <2>1. Prime \in Nat \ {0}
    BY PrimeSize
  <2> QED
    BY <2>1, Quotient
<1>3. Prime * (q + k) = Prime * q + Prime * k /\ q + k \in Int /\ Prime \in Nat \ {0}
      /\ Prime * q \in Int /\ Prime * k \in Int
  BY PrimeSize
<1>4. a = Prime * (q + k) + r
  BY <1>1, <1>2, <1>3
<1> QED
  BY <1>2, <1>3, <1>4, QuotientIs

(* A number and its residue are. *)
LEMMA SameResidue ==
  ASSUME NEW a \in Int
  PROVE  a % Prime \in 0 .. Prime - 1 /\ Same(a % Prime, a)
<1>1. PICK q \in Int, r \in 0 .. Prime - 1 : a = Prime * q + r /\ r = a % Prime
  <2>1. Prime \in Nat \ {0}
    BY PrimeSize
  <2> QED
    BY <2>1, Quotient
<1>2. Prime * q \in Int /\ Prime * (-q) = -(Prime * q) /\ -q \in Int /\ r \in Int
  BY PrimeSize
<1>3. r = a + Prime * (-q)
  BY <1>1, <1>2
<1> QED
  BY <1>1, <1>2, <1>3 DEF Same

(* Sums, differences and products of the same are the same. *)
LEMMA SameOperations ==
  ASSUME NEW a \in Int, NEW b \in Int, NEW c \in Int, NEW d \in Int, Same(a, b), Same(c, d)
  PROVE  Same(a + c, b + d) /\ Same(a - c, b - d) /\ Same(a * c, b * d)
<1>1. PICK k \in Int : a = b + Prime * k
  BY DEF Same
<1>2. PICK l \in Int : c = d + Prime * l
  BY DEF Same
<1>0. Prime \in Nat
  BY PrimeSize
<1>3. a + c = (b + d) + Prime * (k + l)
  BY <1>0, <1>1, <1>2
<1>4. a - c = (b - d) + Prime * (k - l)
  BY <1>0, <1>1, <1>2
<1>5. a * c = b * d + Prime * (b * l + k * d + Prime * (k * l))
  <2>1. PICK u \in Int, v \in Int : u = Prime * k /\ v = Prime * l
    BY <1>0
  <2>2. a * c = b * d + b * v + u * d + u * v
    BY <1>1, <1>2, <2>1
  <2>3. b * v = Prime * (b * l) /\ u * d = Prime * (k * d) /\ u * v = Prime * (Prime * (k * l))
    BY <1>0, <2>1
  <2>4. PICK e \in Int, f \in Int, g \in Int : e = b * l /\ f = k * d /\ g = Prime * (k * l)
    BY <1>0
  <2>5. Prime * (e + f + g) = Prime * e + Prime * f + Prime * g
    BY <1>0, <2>4
  <2>6. b * v \in Int /\ u * d \in Int /\ u * v \in Int /\ b * d \in Int
    BY <2>1
  <2>7. b * v = Prime * e /\ u * d = Prime * f /\ u * v = Prime * g
    BY <2>3, <2>4
  <2>8. a * c = b * d + Prime * e + Prime * f + Prime * g
    BY <2>2, <2>7
  <2>9. Prime * e \in Int /\ Prime * f \in Int /\ Prime * g \in Int
    BY <2>6, <2>7
  <2>10. a * c = b * d + Prime * (e + f + g)
    BY <2>5, <2>6, <2>8, <2>9
  <2> QED
    BY <2>4, <2>10
<1>6. k + l \in Int /\ k - l \in Int /\ b * l + k * d + Prime * (k * l) \in Int
  BY <1>0
<1> QED
  BY <1>3, <1>4, <1>5, <1>6 DEF Same

(* A number is the same as itself. *)
LEMMA SameSelf == ASSUME NEW a \in Int PROVE Same(a, a)
<1>1. a = a + Prime * 0 /\ 0 \in Int
  BY PrimeSize
<1> QED
  BY <1>1 DEF Same

(* Being the same is symmetric. *)
LEMMA SameTurned == ASSUME NEW a \in Int, NEW b \in Int, Same(a, b) PROVE Same(b, a)
<1>1. PICK k \in Int : a = b + Prime * k
  BY DEF Same
<1>2. b = a + Prime * (-k) /\ -k \in Int
  BY <1>1, PrimeSize
<1> QED
  BY <1>2 DEF Same

(* And transitive. *)
LEMMA SameFollows ==
  ASSUME NEW a \in Int, NEW b \in Int, NEW c \in Int, Same(a, b), Same(b, c)
  PROVE  Same(a, c)
<1>1. PICK k \in Int : a = b + Prime * k
  BY DEF Same
<1>2. PICK l \in Int : b = c + Prime * l
  BY DEF Same
<1>3. a = c + Prime * (k + l) /\ k + l \in Int
  BY <1>1, <1>2, PrimeSize
<1> QED
  BY <1>3 DEF Same

(* One more value of the recursion of Reciprocal. *)
Inverted(f, a) == IF a = 1 THEN 1 ELSE (-(Prime \div a) * f[Prime % a]) % Prime

(* A solution of it up to m. *)
Inverts(f, m) == f = [a \in 1 .. m |-> Inverted(f, a)]

(* There is one. *)
LEMMA InvertsExists ==
  ASSUME NEW m \in 0 .. Prime - 1
  PROVE  \E f : Inverts(f, m)
<1> DEFINE Good == {l \in 0 .. m : \E f : Inverts(f, l)}
<1>0. m \in Nat /\ m <= Prime - 1
  BY PrimeSize
<1>1. 0 \in Good
  <2> DEFINE f == [a \in 1 .. 0 |-> 0]
  <2>1. Inverts(f, 0)
    BY DEF Inverts
  <2> QED
    BY <1>0, <2>1
<1>2. ASSUME NEW l \in 0 .. m - 1, l \in Good PROVE l + 1 \in Good
  <2>1. PICK f : Inverts(f, l)
    BY <1>2
  <2>2. \A a \in 1 .. l : f[a] = Inverted(f, a)
    BY <2>1 DEF Inverts
  <2>3. PICK new : new = Inverted(f, l + 1)
    OBVIOUS
  <2> DEFINE g == [a \in 1 .. l + 1 |-> IF a = l + 1 THEN new ELSE f[a]]
  <2>4. ASSUME NEW a \in 1 .. l + 1 PROVE g[a] = Inverted(g, a)
    <3>1. g[a] = Inverted(f, a)
      BY <2>2, <2>3
    <3>2. CASE a = 1
      BY <3>1, <3>2 DEF Inverted
    <3>3. CASE a # 1
      <4>1. a \in 2 .. Prime - 1
        BY <1>0, <3>3, PrimeSize
      <4>2. PICK b \in 1 .. a - 1 : b = Prime % a
        <5>1. Prime % a \in 1 .. a - 1
          BY <4>1, PrimeIsPrime
        <5> QED
          BY <5>1
      <4>3. b \in 1 .. l + 1 /\ b # l + 1
        BY <4>2
      <4>4. g[b] = f[b]
        BY <4>3
      <4> HIDE DEF g
      <4> QED
        BY <3>1, <4>2, <4>4 DEF Inverted
    <3> QED
      BY <3>2, <3>3
  <2>5. g = [a \in 1 .. l + 1 |-> g[a]]
    OBVIOUS
  <2> HIDE DEF g
  <2>6. Inverts(g, l + 1)
    BY <2>4, <2>5, Zenon DEF Inverts
  <2> QED
    BY <1>0, <2>6
<1> HIDE DEF Good
<1>3. m \in Good
  <2>1. 0 .. m \subseteq Good
    BY <1>0, <1>1, <1>2, Induction
  <2> QED
    BY <1>0, <2>1
<1> QED
  BY <1>3 DEF Good

(* Reciprocal is one. *)
LEMMA ReciprocalIs ==
  ASSUME NEW a \in 1 .. Prime - 1
  PROVE  Reciprocal[a] = Inverted(Reciprocal, a)
<1>1. Reciprocal = CHOOSE f : Inverts(f, Prime - 1)
  BY DEF Reciprocal, Inverts, Inverted
<1>2. Prime - 1 \in 0 .. Prime - 1
  BY DEF Prime
<1>3. Inverts(Reciprocal, Prime - 1)
  BY <1>1, <1>2, InvertsExists, Zenon
<1> QED
  BY <1>3 DEF Inverts

(* And gives inverses. *)
LEMMA ReciprocalInverts ==
  ASSUME NEW a \in 1 .. Prime - 1
  PROVE  Reciprocal[a] \in Int /\ Same(a * Reciprocal[a], 1)
<1> DEFINE HasInverse(b) == Reciprocal[b] \in Int /\ Same(b * Reciprocal[b], 1)
           Good == {l \in 0 .. a : \A b \in 1 .. l : HasInverse(b)}
<1>0. a \in Nat /\ a <= Prime - 1
  BY PrimeSize
<1>1. 0 \in Good
  BY <1>0
<1>2. ASSUME NEW l \in 0 .. a - 1, l \in Good PROVE l + 1 \in Good
  <2>1. HasInverse(l + 1)
    <3>1. l + 1 \in 1 .. Prime - 1
      BY <1>0, PrimeSize
    <3>2. CASE l = 0
      <4>1. Reciprocal[1] = 1
        BY <3>1, <3>2, ReciprocalIs DEF Inverted
      <4> QED
        BY <3>2, <4>1, SameSelf
    <3>3. CASE l # 0
      <4>1. PICK b \in 2 .. Prime - 1 : b = l + 1
        BY <1>0, <3>3, PrimeSize
      <4>2. PICK q \in Int, r \in 1 .. b - 1 : q = Prime \div b /\ r = Prime % b /\ Prime = b * q + r
        <5>1. b \in Nat \ {0} /\ Prime \in Int
          BY PrimeSize
        <5>2. Prime \div b \in Int /\ Prime % b \in 0 .. b - 1 /\ Prime = b * (Prime \div b) + (Prime % b)
          BY <5>1, Quotient
        <5>3. Prime % b \in 1 .. b - 1
          BY PrimeIsPrime
        <5> QED
          BY <5>2, <5>3
      <4>3. HasInverse(r)
        BY <1>2, <4>1, <4>2
      <4>4. PICK x \in Int : x = Reciprocal[r] /\ Same(r * x, 1)
        BY <4>3
      <4>5. Reciprocal[b] = (-(q * x)) % Prime
        <5>1. Reciprocal[b] = Inverted(Reciprocal, b) /\ b # 1
          BY <3>1, <4>1, ReciprocalIs
        <5>2. Inverted(Reciprocal, b) = (-(Prime \div b) * Reciprocal[Prime % b]) % Prime
          BY <5>1 DEF Inverted
        <5>3. -q * x = -(q * x)
          OBVIOUS
        <5> QED
          BY <4>2, <4>4, <5>1, <5>2, <5>3
      <4>6. PICK y \in Int : y = Reciprocal[b] /\ Same(y, -(q * x))
        <5>1. PICK z \in Int : z = -(q * x)
          OBVIOUS
        <5>2. z % Prime \in 0 .. Prime - 1 /\ Same(z % Prime, z)
          BY SameResidue
        <5>3. z % Prime \in Int
          BY <5>2, PrimeSize
        <5> QED
          BY <4>5, <5>1, <5>2, <5>3
      <4>7. Same(b * y, b * (-(q * x)))
        <5>1. b \in Int /\ -(q * x) \in Int /\ Same(b, b)
          BY PrimeSize, SameSelf
        <5> QED
          BY <4>6, <5>1, SameOperations
      <4>8. b * (-(q * x)) = r * x + Prime * (-x)
        <5>1. b * (-(q * x)) = -((b * q) * x) /\ b * q \in Int
          BY PrimeSize
        <5>2. b * q = Prime - r
          BY <4>2, <5>1, PrimeSize
        <5>3. (Prime - r) * x = Prime * x - r * x /\ Prime * (-x) = -(Prime * x)
              /\ r * x \in Int /\ Prime * x \in Int
          BY <4>2, PrimeSize
        <5> QED
          BY <5>1, <5>2, <5>3
      <4>9. Same(b * (-(q * x)), r * x)
        BY <4>8, -x \in Int DEF Same
      <4>10. b * y \in Int /\ b * (-(q * x)) \in Int /\ r * x \in Int /\ 1 \in Int
        BY <4>2, PrimeSize
      <4>11. Same(b * y, r * x)
        BY <4>7, <4>9, <4>10, SameFollows
      <4> QED
        BY <4>1, <4>4, <4>6, <4>10, <4>11, SameFollows
    <3> QED
      BY <3>2, <3>3
  <2>2. \A b \in 1 .. l + 1 : HasInverse(b)
    <3> HIDE DEF HasInverse
    <3> QED
      BY <1>2, <2>1
  <2> QED
    BY <1>0, <2>2
<1> HIDE DEF Good
<1>3. a \in Good
  <2>1. 0 .. a \subseteq Good
    BY <1>0, <1>1, <1>2, Induction
  <2> QED
    BY <1>0, <2>1
<1> QED
  BY <1>3 DEF Good


(* So that it can be named. *)
LEMMA ResidueOf ==
  ASSUME NEW a \in Int
  PROVE  \E c \in Int : c = a % Prime /\ Same(c, a)
<1>1. a % Prime \in 0 .. Prime - 1 /\ Same(a % Prime, a)
  BY SameResidue
<1>2. a % Prime \in Int
  BY <1>1, PrimeSize
<1> QED
  BY <1>1, <1>2

(* What operations of the field stand for. *)
LEMMA FieldIs ==
  ASSUME NEW a \in Int, NEW b \in Int
  PROVE  /\ a ++ b \in 0 .. Prime - 1 /\ Same(a ++ b, a + b)
         /\ a -- b \in 0 .. Prime - 1 /\ Same(a -- b, a - b)
         /\ a ** b \in 0 .. Prime - 1 /\ Same(a ** b, a * b)
<1>1. a ++ b \in 0 .. Prime - 1 /\ Same(a ++ b, a + b)
  BY a + b \in Int, SameResidue DEF ++
<1>2. a -- b \in 0 .. Prime - 1 /\ Same(a -- b, a - b)
  BY a - b \in Int, SameResidue DEF --
<1>3. PICK c \in Int : c = a % Prime /\ Same(c, a)
  BY ResidueOf
<1>8. PICK d \in Int : d = b % Prime /\ Same(d, b)
  BY ResidueOf
<1>4. Same(c * d, a * b)
  BY <1>3, <1>8, SameOperations
<1>9. c * d \in Int /\ a * b \in Int
  OBVIOUS
<1>5. a ** b = (c * d) % Prime
  BY <1>3, <1>8 DEF **
<1>6. (c * d) % Prime \in 0 .. Prime - 1 /\ Same((c * d) % Prime, c * d)
  BY <1>9, SameResidue
<1>7. (c * d) % Prime \in Int
  BY <1>6, PrimeSize
<1> QED
  BY <1>1, <1>2, <1>4, <1>5, <1>6, <1>7, <1>9, SameFollows

(* Residues that are the same are equal. *)
LEMMA SameResidues ==
  ASSUME NEW a \in 0 .. Prime - 1, NEW b \in 0 .. Prime - 1, Same(a, b)
  PROVE  a = b
<1>1. PICK k \in Int : a = b + Prime * k
  BY DEF Same
<1>2. Prime \in Nat \ {0} /\ a \in Int /\ b \in Int
  BY PrimeSize
<1>3. a = Prime * 0 + a /\ a = Prime * k + b
  BY <1>1, <1>2
<1>4. a % Prime = a /\ a % Prime = b
  BY <1>2, <1>3, QuotientIs, 0 \in Int
<1> QED
  BY <1>4

(* Division is multiplication by an inverse. *)
LEMMA DividesBy ==
  ASSUME NEW k \in 1 .. Prime - 1
  PROVE  \E r \in Int :
           /\ Same(k * r, 1)
           /\ \A a \in Int : a // k \in 0 .. Prime - 1 /\ Same(a // k, a * r)
<1>1. PICK r \in Int : r = Reciprocal[k] /\ Same(k * r, 1)
  BY ReciprocalInverts
<1>2. k % Prime = k
  BY PrimeSize
<1>3. ASSUME NEW a \in Int
      PROVE  a // k \in 0 .. Prime - 1 /\ Same(a // k, a * r)
  <2>1. PICK c \in Int : c = a % Prime /\ Same(c, a)
    BY ResidueOf
  <2>2. a // k = c ** r
    BY <1>1, <1>2, <2>1 DEF //
  <2>3. c ** r \in 0 .. Prime - 1 /\ Same(c ** r, c * r)
    BY FieldIs
  <2>4. Same(c * r, a * r)
    BY <2>1, SameSelf, SameOperations
  <2>5. c ** r \in Int /\ c * r \in Int /\ a * r \in Int
    BY <2>3, PrimeSize
  <2> QED
    BY <2>2, <2>3, <2>4, <2>5, SameFollows
<1> QED
  BY <1>1, <1>3

(* Operations on what stands for other numbers. *)
LEMMA FieldOn ==
  ASSUME NEW a \in Int, NEW b \in Int, NEW c \in Int, NEW d \in Int, Same(a, c), Same(b, d)
  PROVE  /\ a ++ b \in Int /\ Same(a ++ b, c + d)
         /\ a -- b \in Int /\ Same(a -- b, c - d)
         /\ a ** b \in Int /\ Same(a ** b, c * d)
<1>1. /\ a + b \in Int /\ a - b \in Int /\ a * b \in Int
      /\ c + d \in Int /\ c - d \in Int /\ c * d \in Int
  OBVIOUS
<1>2. Same(a + b, c + d) /\ Same(a - b, c - d) /\ Same(a * b, c * d)
  BY SameOperations
<1>3. a ++ b \in Int /\ a -- b \in Int /\ a ** b \in Int
  BY FieldIs, PrimeSize
<1>4. Same(a ++ b, a + b) /\ Same(a -- b, a - b) /\ Same(a ** b, a * b)
  BY FieldIs
<1> QED
  BY <1>1, <1>2, <1>3, <1>4, SameFollows

(* A point a part psi of a cell before the second is that part from it. *)
LEMMA PsiNear ==
  ASSUME NEW mn \in Int, NEW d \in Int, NEW psi \in Int, NEW k \in 1 .. Prime - 1
  PROVE  (mn ++ ((1 ** d) // k)) -- (mn ++ ((1 -- psi) ** (d // k))) = psi ** (d // k)
<1>1. PICK r \in Int : \A a \in Int : a // k \in 0 .. Prime - 1 /\ Same(a // k, a * r)
  BY DividesBy
<1>2. PICK h \in Int : h = d // k /\ Same(h, d * r)
  <2>1. d // k \in Int /\ Same(d // k, d * r)
    BY <1>1, PrimeSize
  <2> QED
    BY <2>1
<1>3. PICK f \in Int : f = 1 ** d /\ Same(f, d)
  <2>1. PICK o \in Int : o = 1
    OBVIOUS
  <2>2. o ** d \in Int /\ Same(o ** d, o * d)
    BY SameSelf, FieldOn
  <2>3. o * d = d
    BY <2>1
  <2> QED
    BY <2>1, <2>2, <2>3
<1>4. PICK e \in Int : e = f // k /\ Same(e, h)
  <2>1. f // k \in Int /\ Same(f // k, f * r)
    BY <1>1, PrimeSize
  <2>2. Same(f * r, d * r)
    BY <1>3, SameSelf, SameOperations
  <2>3. f * r \in Int /\ d * r \in Int
    OBVIOUS
  <2>4. Same(f * r, h)
    BY <1>2, <2>2, <2>3, SameFollows, SameTurned
  <2> QED
    BY <2>1, <2>3, <2>4, SameFollows
<1>5. PICK g \in Int : g = (1 -- psi) ** h /\ Same(g, (1 - psi) * h)
  <2>1. 1 -- psi \in Int /\ Same(1 -- psi, 1 - psi) /\ 1 - psi \in Int
    BY FieldIs, PrimeSize
  <2> QED
    BY <2>1, SameSelf, FieldOn
<1>6. PICK a \in Int : a = mn ++ e /\ Same(a, mn + h)
  BY <1>4, SameSelf, FieldOn
<1>7. PICK b \in Int : b = mn ++ g /\ Same(b, mn + (1 - psi) * h)
  <2>1. (1 - psi) * h \in Int
    OBVIOUS
  <2> QED
    BY <1>5, <2>1, SameSelf, FieldOn
<1>8. Same(a -- b, psi * h)
  <2>1. mn + h \in Int /\ mn + (1 - psi) * h \in Int
    OBVIOUS
  <2>2. Same(a -- b, (mn + h) - (mn + (1 - psi) * h))
    BY <1>6, <1>7, <2>1, FieldOn
  <2>3. (1 - psi) * h = h - psi * h /\ psi * h \in Int
    OBVIOUS
  <2>4. (mn + h) - (mn + (1 - psi) * h) = psi * h
    BY <2>3
  <2> QED
    BY <2>2, <2>4
<1>9. a -- b = psi ** h
  <2>1. a -- b \in 0 .. Prime - 1 /\ psi ** h \in 0 .. Prime - 1 /\ Same(psi ** h, psi * h)
    BY FieldIs
  <2>2. a -- b \in Int /\ psi ** h \in Int /\ psi * h \in Int
    BY <2>1, PrimeSize
  <2>3. Same(a -- b, psi ** h)
    BY <1>8, <2>1, <2>2, SameFollows, SameTurned
  <2> QED
    BY <2>1, <2>3, SameResidues
<1> QED
  BY <1>2, <1>3, <1>4, <1>5, <1>6, <1>7, <1>9

(* And one before the last is that part from the last but one. *)
LEMMA PsiFar ==
  ASSUME NEW mn \in Int, NEW mx \in Int, NEW psi \in Int, NEW k \in 1 .. Prime - 1
  PROVE  LET d == mx -- mn
         IN  (mx -- ((1 -- psi) ** (d // k))) -- (mn ++ (((k - 1) ** d) // k)) = psi ** (d // k)
<1>1. PICK r \in Int :
        /\ Same(k * r, 1)
        /\ \A a \in Int : a // k \in 0 .. Prime - 1 /\ Same(a // k, a * r)
  BY DividesBy
<1>0. k \in Int /\ k - 1 \in Int
  BY PrimeSize
<1>10. PICK d \in Int : d = mx -- mn /\ Same(d, mx - mn)
  BY SameSelf, FieldOn
<1>2. PICK h \in Int : h = d // k /\ Same(h, d * r)
  <2>1. d // k \in Int /\ Same(d // k, d * r)
    BY <1>1, PrimeSize
  <2> QED
    BY <2>1
<1>11. Same(mx - mn, k * h)
  <2>1. Same(k * h, k * (d * r))
    BY <1>0, <1>2, d * r \in Int, SameSelf, SameOperations
  <2>2. k * (d * r) = (k * r) * d /\ 1 * d = d /\ k * r \in Int
    BY <1>0
  <2>3. Same(k * (d * r), d)
    BY <1>1, <2>2, SameSelf, SameOperations
  <2>4. k * h \in Int /\ k * (d * r) \in Int /\ mx - mn \in Int
    BY <1>0
  <2>5. Same(k * h, d)
    BY <2>1, <2>3, <2>4, SameFollows
  <2>6. Same(k * h, mx - mn)
    BY <1>10, <2>4, <2>5, SameFollows
  <2> QED
    BY <2>4, <2>6, SameTurned
<1>3. PICK f \in Int : f = (k - 1) ** d /\ Same(f, (k - 1) * d)
  BY <1>0, SameSelf, FieldOn
<1>4. PICK e \in Int : e = f // k /\ Same(e, (k - 1) * h)
  <2>1. f // k \in Int /\ Same(f // k, f * r)
    BY <1>1, PrimeSize
  <2>2. Same(f * r, ((k - 1) * d) * r)
    BY <1>0, <1>3, (k - 1) * d \in Int, SameSelf, SameOperations
  <2>3. Same((k - 1) * h, (k - 1) * (d * r))
    BY <1>0, <1>2, d * r \in Int, SameSelf, SameOperations
  <2>4. ((k - 1) * d) * r = (k - 1) * (d * r)
    BY <1>0
  <2>5. f * r \in Int /\ (k - 1) * h \in Int /\ (k - 1) * (d * r) \in Int
    BY <1>0
  <2>6. Same((k - 1) * (d * r), (k - 1) * h)
    BY <2>3, <2>5, SameTurned
  <2>7. Same(f * r, (k - 1) * h)
    BY <2>2, <2>4, <2>5, <2>6, SameFollows
  <2> QED
    BY <2>1, <2>5, <2>7, SameFollows
<1>5. PICK g \in Int : g = (1 -- psi) ** h /\ Same(g, (1 - psi) * h)
  <2>1. 1 -- psi \in Int /\ Same(1 -- psi, 1 - psi) /\ 1 - psi \in Int
    BY FieldIs, PrimeSize
  <2> QED
    BY <2>1, SameSelf, FieldOn
<1>6. PICK a \in Int : a = mx -- g /\ Same(a, mx - (1 - psi) * h)
  <2>1. (1 - psi) * h \in Int
    OBVIOUS
  <2> QED
    BY <1>5, <2>1, SameSelf, FieldOn
<1>7. PICK b \in Int : b = mn ++ e /\ Same(b, mn + (k - 1) * h)
  <2>1. (k - 1) * h \in Int
    BY <1>0
  <2> QED
    BY <1>4, <2>1, SameSelf, FieldOn
<1>8. Same(a -- b, psi * h)
  <2>1. PICK u \in Int, v \in Int, w \in Int : u = psi * h /\ v = k * h /\ w = mx - mn
    BY <1>0
  <2>2. (1 - psi) * h = h - u /\ (k - 1) * h = v - h
    BY <1>0, <2>1
  <2>3. Same(a -- b, (mx - (h - u)) - (mn + (v - h)))
    <3>1. Same(a, mx - (h - u)) /\ mx - (h - u) \in Int
      BY <1>6, <2>1, <2>2
    <3>2. Same(b, mn + (v - h)) /\ mn + (v - h) \in Int
      BY <1>7, <2>1, <2>2
    <3> QED
      BY <3>1, <3>2, FieldOn
  <2>4. (mx - (h - u)) - (mn + (v - h)) = w - (v - u)
    BY <2>1
  <2>5. Same(w - (v - u), v - (v - u))
    <3>1. Same(w, v) /\ v - u \in Int
      BY <1>11, <2>1
    <3> QED
      BY <3>1, SameSelf, SameOperations
  <2>6. v - (v - u) = u /\ w - (v - u) \in Int /\ a -- b \in Int
    BY FieldIs, PrimeSize
  <2> QED
    BY <2>1, <2>3, <2>4, <2>5, <2>6, SameFollows
<1>9. a -- b = psi ** h
  <2>1. a -- b \in 0 .. Prime - 1 /\ psi ** h \in 0 .. Prime - 1 /\ Same(psi ** h, psi * h)
    BY FieldIs
  <2>2. a -- b \in Int /\ psi ** h \in Int /\ psi * h \in Int
    BY <2>1, PrimeSize
  <2>3. Same(a -- b, psi ** h)
    BY <1>8, <2>1, <2>2, SameFollows, SameTurned
  <2> QED
    BY <2>1, <2>3, SameResidues
<1> QED
  BY <1>2, <1>3, <1>4, <1>5, <1>6, <1>7, <1>9, <1>10

-----------------------------------------------------------------------------
(* Handles on the way *)

(* Whether there is a handle and whether it has an implementation.         *)
Sort(v) == IF v \in Bodies THEN "body" ELSE IF v = Null THEN "null" ELSE "absent"
(* The sorts of all handles. *)
Held == [x \in Holders |-> Sort(s[x])]
(* All there can be. *)
SortMaps == [Holders -> {"body", "null", "absent"}]

(* The operations on handles. *)
Ops ==
  [op : {"new"}, x : Holders, y : Contents]
    \cup [op : {"default", "drop"}, x : Holders, y : {""}]
    \cup [op : {"copy", "move"}, x : Holders, y : Holders]

(* What an operation makes of the handles h. *)
After(h, o) ==
  [z \in Holders |->
    IF z = o.x
    THEN CASE o.op = "new" -> "body"
           [] o.op = "default" -> "null"
           [] o.op \in {"copy", "move"} -> h[o.y]
           [] o.op = "drop" -> "absent"
    ELSE IF o.op = "move" /\ z = o.y THEN "null" ELSE h[z]]

(* The operations ops make g of the handles h. *)
Leads(h, ops, g) ==
  /\ ops \in Seq(Ops)
  /\ \E on \in [0 .. Len(ops) -> SortMaps] :
       /\ on[0] = h /\ on[Len(ops)] = g
       /\ \A i \in 1 .. Len(ops) : on[i] = After(on[i - 1], ops[i])

(* Handles are of one sort after an operation, too. *)
LEMMA AfterSort ==
  ASSUME NEW h \in SortMaps, NEW o \in Ops
  PROVE  After(h, o) \in SortMaps
BY DEF After, SortMaps, Ops

(* No operation, and one. *)
LEMMA LeadsNone ==
  ASSUME NEW h \in SortMaps
  PROVE  Leads(h, <<>>, h) /\ \A g : Leads(h, <<>>, g) => g = h
<1>1. Leads(h, <<>>, h)
  <2> DEFINE on == [i \in 0 .. 0 |-> h]
  <2>1. on \in [0 .. Len(<<>>) -> SortMaps] /\ on[0] = h /\ on[Len(<<>>)] = h
    OBVIOUS
  <2> HIDE DEF on
  <2> QED
    BY <2>1 DEF Leads
<1>2. ASSUME NEW g, Leads(h, <<>>, g) PROVE g = h
  BY <1>2 DEF Leads
<1> QED
  BY <1>1, <1>2

(* One operation alone. *)
LEMMA LeadsOne ==
  ASSUME NEW h \in SortMaps, NEW o \in Ops
  PROVE  Leads(h, <<o>>, After(h, o))
<1>1. PICK g \in SortMaps : g = After(h, o)
  BY AfterSort
<1> DEFINE on == [i \in 0 .. 1 |-> IF i = 0 THEN h ELSE g]
<1>2. on \in [0 .. 1 -> SortMaps] /\ on[0] = h /\ on[1] = g
  BY <1>1
<1> HIDE DEF on
<1>3. <<o>> \in Seq(Ops) /\ Len(<<o>>) = 1 /\ <<o>>[1] = o
  OBVIOUS
<1>4. \A i \in 1 .. 1 : on[i] = After(on[i - 1], <<o>>[i])
  BY <1>1, <1>2, <1>3
<1> QED
  BY <1>1, <1>2, <1>3, <1>4 DEF Leads

(* One list of operations after another. *)
LEMMA LeadsThen ==
  ASSUME NEW h, NEW a, NEW g, NEW b, NEW f, Leads(h, a, g), Leads(g, b, f)
  PROVE  Leads(h, a \o b, f)
<1>0. a \in Seq(Ops) /\ b \in Seq(Ops)
  BY DEF Leads
<1>1. PICK n \in Nat, m \in Nat : n = Len(a) /\ m = Len(b)
  BY <1>0
<1>2. PICK on \in [0 .. n -> SortMaps] :
        on[0] = h /\ on[n] = g /\ \A i \in 1 .. n : on[i] = After(on[i - 1], a[i])
  BY <1>1 DEF Leads
<1>3. PICK at2 \in [0 .. m -> SortMaps] :
        at2[0] = g /\ at2[m] = f /\ \A i \in 1 .. m : at2[i] = After(at2[i - 1], b[i])
  BY <1>1 DEF Leads
<1> DEFINE all == [i \in 0 .. n + m |-> IF i <= n THEN on[i] ELSE at2[i - n]]
<1>4. PICK c : c = a \o b
  OBVIOUS
<1>5. c \in Seq(Ops) /\ Len(c) = n + m
      /\ (\A i \in 1 .. n : c[i] = a[i]) /\ (\A i \in 1 .. m : c[n + i] = b[i])
  BY <1>0, <1>1, <1>4
<1>6. all \in [0 .. n + m -> SortMaps] /\ all[0] = h
  BY <1>2, <1>3
<1>7. all[n + m] = f
  BY <1>2, <1>3
<1>8. ASSUME NEW i \in 1 .. n + m PROVE all[i] = After(all[i - 1], c[i])
  <2>1. CASE i <= n
    <3>1. all[i] = on[i] /\ all[i - 1] = on[i - 1]
      BY <2>1
    <3>2. i \in 1 .. n
      BY <2>1
    <3> HIDE DEF all
    <3> QED
      BY <1>2, <1>5, <3>1, <3>2
  <2>2. CASE i > n
    <3>1. PICK j \in 1 .. m : i = n + j
      BY <2>2, i - n \in 1 .. m
    <3>2. all[i] = at2[j] /\ c[i] = b[j]
      BY <1>5, <3>1
    <3>3. all[i - 1] = at2[j - 1]
      BY <1>2, <1>3, <3>1
    <3> HIDE DEF all
    <3> QED
      BY <1>3, <3>2, <3>3
  <2> QED
    BY <2>1, <2>2
<1> HIDE DEF all
<1> QED
  BY <1>4, <1>5, <1>6, <1>7, <1>8 DEF Leads

(* Once the first of them is done. *)
LEMMA LeadsOn ==
  ASSUME NEW h, NEW ops, NEW g, Leads(h, ops, g), ops # <<>>
  PROVE  Head(ops) \in Ops /\ Leads(After(h, Head(ops)), Tail(ops), g)
<1>0. ops \in Seq(Ops)
  BY DEF Leads
<1>1. PICK n \in Nat : Len(ops) = n + 1
  BY <1>0, Len(ops) - 1 \in Nat
<1>2. PICK on \in [0 .. n + 1 -> SortMaps] :
        on[0] = h /\ on[n + 1] = g /\ \A i \in 1 .. n + 1 : on[i] = After(on[i - 1], ops[i])
  BY <1>1 DEF Leads
<1>3. PICK t : t = Tail(ops)
  OBVIOUS
<1>4. t \in Seq(Ops) /\ Len(t) = n /\ (\A i \in 1 .. n : t[i] = ops[i + 1])
      /\ Head(ops) = ops[1] /\ ops[1] \in Ops
  BY <1>0, <1>1, <1>3
<1> DEFINE rest == [i \in 0 .. n |-> on[i + 1]]
<1>5. rest \in [0 .. n -> SortMaps] /\ rest[0] = After(h, ops[1]) /\ rest[n] = g
  BY <1>1, <1>2
<1>6. ASSUME NEW i \in 1 .. n PROVE rest[i] = After(rest[i - 1], t[i])
  <2>1. rest[i] = on[i + 1] /\ rest[i - 1] = on[i]
    OBVIOUS
  <2>2. i + 1 \in 1 .. n + 1 /\ (i + 1) - 1 = i
    OBVIOUS
  <2> HIDE DEF rest
  <2> QED
    BY <1>2, <1>4, <2>1, <2>2
<1> HIDE DEF rest
<1> QED
  BY <1>3, <1>4, <1>5, <1>6 DEF Leads

(* What the program does is what it has to do. *)
LEMMA StatementDoes ==
  ASSUME HandleInv, Statement, Head(todo) \in Ops
  PROVE  Held' = After(Held, Head(todo)) /\ HandleNext
<1>1. PICK o \in Ops : o = Head(todo)
  OBVIOUS
<1> USE HandleAssumption DEF Held, After, Sort, HandleInv, HandleTypeOK
<1>2. CASE o.op = "new" /\ Construct(o.x, o.y)
  <2>1. PICK x \in Holders, k \in Contents : x = o.x /\ k = o.y
    BY <1>2 DEF Ops
  <2>2. Construct(x, k) /\ o.op = "new"
    BY <1>2, <2>1
  <2>3. Held' = After(Held, o)
    BY <1>1, <2>1, <2>2 DEF Construct
  <2> QED
    BY <1>1, <2>2, <2>3 DEF HandleNext
<1>3. CASE o.op = "default" /\ DefaultConstruct(o.x)
  <2>1. o.x \in Holders
    BY <1>3 DEF Ops
  <2> QED
    BY <1>1, <1>3, <2>1 DEF DefaultConstruct, HandleNext
<1>4. CASE o.op = "copy" /\ CopyConstruct(o.x, o.y)
  <2>1. o.x \in Holders /\ o.y \in Holders
    BY <1>4 DEF Ops
  <2> QED
    BY <1>1, <1>4, <2>1 DEF CopyConstruct, HandleNext
<1>5. CASE o.op = "move" /\ MoveConstruct(o.x, o.y)
  <2>1. o.x \in Holders /\ o.y \in Holders
    BY <1>5 DEF Ops
  <2> QED
    BY <1>1, <1>5, <2>1 DEF MoveConstruct, HandleNext
<1>6. CASE o.op = "drop" /\ Destroy(o.x)
  <2>1. o.x \in Holders
    BY <1>6 DEF Ops
  <2> QED
    BY <1>1, <1>6, <2>1 DEF Destroy, HandleNext
<1> QED
  BY <1>1, <1>2, <1>3, <1>4, <1>5, <1>6, Zenon DEF Statement

(* A handle of another sort. *)
Put(h, x, v) == [h EXCEPT ![x] = v]

(* It is a handle of some sort. *)
LEMMA PutSort ==
  ASSUME NEW h \in SortMaps, NEW x \in Holders, NEW v \in {"body", "null", "absent"}
  PROVE  Put(h, x, v) \in SortMaps
BY DEF Put, SortMaps

(* What each operation does. *)
LEMMA EachLeads ==
  ASSUME NEW h \in SortMaps, NEW x \in Holders, NEW y \in Holders, NEW k \in Contents
  PROVE  /\ Leads(h, <<New(x, k)>>, Put(h, x, "body"))
         /\ Leads(h, <<Default(x)>>, Put(h, x, "null"))
         /\ Leads(h, <<Drop(x)>>, Put(h, x, "absent"))
         /\ Leads(h, <<CopyOf(x, y)>>, Put(h, x, h[y]))
         /\ x # y => Leads(h, <<MoveOf(x, y)>>, Put(Put(h, x, h[y]), y, "null"))
<1>1. /\ New(x, k) \in Ops /\ Default(x) \in Ops /\ Drop(x) \in Ops
      /\ CopyOf(x, y) \in Ops /\ MoveOf(x, y) \in Ops
  BY DEF Ops, New, Default, Drop, CopyOf, MoveOf
<1>2. After(h, New(x, k)) = Put(h, x, "body")
  BY DEF After, Put, New, SortMaps
<1>3. After(h, Default(x)) = Put(h, x, "null")
  BY DEF After, Put, Default, SortMaps
<1>4. After(h, Drop(x)) = Put(h, x, "absent")
  BY DEF After, Put, Drop, SortMaps
<1>5. After(h, CopyOf(x, y)) = Put(h, x, h[y])
  BY DEF After, Put, CopyOf, SortMaps
<1>6. x # y => After(h, MoveOf(x, y)) = Put(Put(h, x, h[y]), y, "null")
  BY DEF After, Put, MoveOf, SortMaps
<1> QED
  BY <1>1, <1>2, <1>3, <1>4, <1>5, <1>6, LeadsOne

(* A result that is handed over. *)
LEMMA HandLeads ==
  ASSUME NEW h \in SortMaps, NEW x \in Holders, NEW y \in Holders, x # y
  PROVE  Leads(h, Hand(x, y), Put(Put(h, x, h[y]), y, "absent"))
<1>1. PICK g \in SortMaps : g = Put(Put(h, x, h[y]), y, "null")
  BY DEF Put, SortMaps
<1>2. Leads(h, <<MoveOf(x, y)>>, g)
  <2>1. PICK o \in Ops : o = MoveOf(x, y)
    BY DEF Ops, MoveOf
  <2>2. After(h, o) = g
    BY <1>1, <2>1 DEF After, Put, MoveOf, SortMaps
  <2> QED
    BY <2>1, <2>2, LeadsOne
<1>3. Leads(g, <<Drop(y)>>, Put(g, y, "absent"))
  <2>1. PICK o \in Ops : o = Drop(y)
    BY DEF Ops, Drop
  <2>2. After(g, o) = Put(g, y, "absent")
    BY <2>1 DEF After, Put, Drop, SortMaps
  <2> QED
    BY <2>1, <2>2, LeadsOne
<1>4. Put(g, y, "absent") = Put(Put(h, x, h[y]), y, "absent")
  BY <1>1 DEF Put, SortMaps
<1>5. Hand(x, y) = <<MoveOf(x, y)>> \o <<Drop(y)>>
  BY DEF Hand
<1> QED
  BY <1>2, <1>3, <1>4, <1>5, LeadsThen

(* No handles but those in x. *)
Only(h, x) == \A z \in Holders \ x : h[z] = "absent"

(* The system is one of the heat equation. *)
IsHeat == system # <<>> /\ system[1].kind = "heat"

(* The handles there are when what a function does with them is done.      *)
Fits(p, h) ==
  /\ p \in {"type", "cartesian", "shapes", "boundaries", "scheme"} => Only(h, {"E2", "E4"})
  /\ p = "solution" => Only(h, {"E2", "E4", "st_opt"})
  /\ p = "construct" => Only(h, {"E2", "E4", "st_opt", "t", "ms_opt"}) /\ h["t"] # "absent"
  /\ p = "assert" =>
       /\ Only(h, {"E2", "E4", "st_opt", "st", "t", "ms_opt", "m_sol"})
       /\ h["t"] # "absent" /\ h["m_sol"] # "absent"
  /\ p \in {"integrator", "controller", "io", "cycle"} =>
       Only(h, {"E2", "E4", "sys_opt"}) /\ h["sys_opt"] = IF IsHeat THEN "body" ELSE "absent"
  /\ p \in {"built", "visit", "line"} =>
       Only(h, {"E2", "E4", "cycle"}) /\ (h["cycle"] = "body" <=> IsHeat)
  /\ p = "failed" => Only(h, {"E2", "E4"})

(* Where the handles are on the way to. *)
HandlesLead == \E g \in SortMaps : Leads(Held, todo, g) /\ Fits(pc, g)

(* When nothing is left to be done they are there. *)
LEMMA HeldFits ==
  ASSUME HandleInv, HandlesLead, todo = <<>>
  PROVE  Held \in SortMaps /\ Fits(pc, Held)
<1>1. Held \in SortMaps
  BY DEF Held, SortMaps, Sort
<1>2. PICK g \in SortMaps : Leads(Held, <<>>, g) /\ Fits(pc, g)
  BY DEF HandlesLead
<1>3. g = Held
  BY <1>1, <1>2, LeadsNone
<1> QED
  BY <1>1, <1>2, <1>3

(* The shared schemes are made first. *)
LEMMA LeadsFirst == ConfigInit => HandlesLead
<1> SUFFICES ASSUME ConfigInit PROVE HandlesLead
  OBVIOUS
<1>0. Places \subseteq Holders /\ "E2_2" \in Contents /\ "E4_2" \in Contents
  BY PlacesAssumption DEF Kinds
<1>1. Held \in SortMaps /\ Only(Held, {})
  BY HandleAssumption DEF Held, SortMaps, Sort, ConfigInit, NothingRead, HandleInit, Only
<1>2. "E2" \in Holders /\ "E4" \in Holders
  BY <1>0 DEF Places
<1>3. PICK g \in SortMaps : g = Put(Held, "E2", "body") /\ Leads(Held, <<New("E2", "E2_2")>>, g)
  BY <1>0, <1>1, <1>2, EachLeads, PutSort
<1>4. PICK f \in SortMaps : f = Put(g, "E4", "body") /\ Leads(g, <<New("E4", "E4_2")>>, f)
  BY <1>0, <1>2, EachLeads, PutSort
<1>5. todo = <<New("E2", "E2_2")>> \o <<New("E4", "E4_2")>> /\ pc = "type"
  BY DEF ConfigInit
<1>6. Leads(Held, todo, f)
  BY <1>3, <1>4, <1>5, LeadsThen
<1>7. Only(f, {"E2", "E4"})
  BY <1>1, <1>2, <1>3, <1>4 DEF Only, Put, SortMaps
<1> QED
  BY <1>5, <1>6, <1>7 DEF HandlesLead, Fits

-----------------------------------------------------------------------------
(* What has been read *)

(* Where the set-up is before there is a mesh. *)
BeforeMesh == {"type", "cartesian", "shapes"}
(* And before there is a system. *)
BeforeSystem == BeforeMesh \cup {"boundaries", "scheme", "solution", "construct", "assert"}

(* Parts are what the table gives, or not yet read.                        *)
TableRead ==
  /\ pc \in BeforeSystem => system = <<>>
  /\ pc \in {"construct", "assert"} => SystemType = "heat"
  /\ pc \in BeforeMesh => cart = NoMesh
  /\ pc \in BeforeSystem \ {"type", "cartesian"} \/ cart # NoMesh =>
       CartesianFromLua # <<>> /\ ext = CartesianFromLua[1].ext /\ dom = CartesianFromLua[1].dom
  /\ pc \in BeforeSystem \ BeforeMesh => cart # NoMesh
  /\ cart # NoMesh => ShapesFromLua # <<>> /\ shapes = ShapesFromLua[1] /\ cart = Cartesian
  /\ cart = NoMesh => shapes = <<>> /\ bcs = <<>>
  /\ bcs # <<>> => bcs = BoundariesFromLua
  /\ system # <<>> => system = <<Built>>
  /\ pc \in {"io", "cycle", "built", "visit", "line"} => controller = StepControllerFromLua
  /\ pc \in {"cycle", "built", "visit", "line"} => io = FieldIoFromLua
  /\ pc \in {"built", "visit", "line"} => Complete
  /\ sample # <<>> => sample[1].parallel = IsThreadSafe(sample[1].kind)

(* Nothing is at first. *)
LEMMA NothingIsRead == ConfigInit => TableRead
BY DEF ConfigInit, NothingRead, TableRead, BeforeMesh, BeforeSystem

(* No step changes the table. *)
LEMMA TableStays == [ConfigNext]_configVars => tbl' = tbl
BY DEF ConfigNext, Statement, ChooseSystem, ReadCartesian, BuildMesh, ReadBoundaries, ReadScheme,
       ReadSolution, NoConditions, ConstructHeat, FinishHeat, ConstructOther, ReadIntegrator,
       ReadController, ReadIo, BuildCycle, StartVisit, VisitPoint, ChooseLine, LineNext, LinePrev,
       LineJump, Walk, At, configVars

(* A mesh has points. *)
LEMMA MeshThere == Cartesian # NoMesh
<1>1. Cartesian.n[0] = IF ext[0] > 0 THEN ext[0] ELSE 1
  BY DEF Cartesian, Dirs
<1>2. NoMesh.n[0] = 0
  BY DEF NoMesh, Zeros, Three
<1>3. Cartesian.n[0] # 0
  <2>1. CASE ext[0] > 0
    <3>1. ext[0] # 0
      BY <2>1
    <3> QED
      BY <1>1, <2>1, <3>1
  <2> QED
    BY <1>1, <2>1
<1> QED
  BY <1>2, <1>3

(* The same is read from the same table. *)
LEMMA TableSame ==
  ASSUME tbl' = tbl
  PROVE  /\ CartesianFromLua' = CartesianFromLua /\ Built' = Built /\ SystemType' = SystemType
         /\ StepControllerFromLua' = StepControllerFromLua /\ FieldIoFromLua' = FieldIoFromLua
<1>1. CartesianFromLua' = CartesianFromLua
  BY DEF CartesianFromLua
<1>2. ShapeTables' = ShapeTables /\ SystemType' = SystemType
  BY DEF ShapeTables, SystemType
<1>3. WaveSource' = WaveSource
  BY <1>2 DEF WaveSource
<1>4. Built' = Built
  BY <1>2, <1>3 DEF Built
<1>5. StepControllerFromLua' = StepControllerFromLua
  BY DEF StepControllerFromLua
<1>6. FieldIoFromLua' = FieldIoFromLua
  BY <1>1 DEF FieldIoFromLua
<1> QED
  BY <1>1, <1>2, <1>4, <1>5, <1>6

(* The same mesh with its shapes. *)
LEMMA MeshSame ==
  ASSUME tbl' = tbl, ext' = ext, dom' = dom
  PROVE  ShapesFromLua' = ShapesFromLua /\ Cartesian' = Cartesian
<1>1. ShapeTables' = ShapeTables
  BY DEF ShapeTables
<1>2. ASSUME NEW t, NEW i PROVE RectFromLua(t, i)' = RectFromLua(t, i)
  BY DEF RectFromLua, RectPlane
<1>3. ShapesFromLua' = ShapesFromLua
  BY <1>1, <1>2 DEF ShapesFromLua
<1>4. Cartesian' = Cartesian
  BY DEF Cartesian
<1> QED
  BY <1>3, <1>4
(* And the same conditions. *)
LEMMA ConditionsSame ==
  ASSUME tbl' = tbl, cart' = cart
  PROVE  BoundariesFromLua' = BoundariesFromLua
<1>1. ShapeTables' = ShapeTables
  BY DEF ShapeTables
<1> QED
  BY <1>1 DEF BoundariesFromLua

(* An action reads its part and leaves the others. *)
LEMMA TableStep ==
  ASSUME TableRead, [ConfigNext]_configVars
  PROVE  TableRead'
<1> USE DEF TableRead, BeforeMesh, BeforeSystem
<1>0. tbl' = tbl
  BY TableStays
<1>1. /\ CartesianFromLua' = CartesianFromLua /\ Built' = Built /\ SystemType' = SystemType
      /\ StepControllerFromLua' = StepControllerFromLua /\ FieldIoFromLua' = FieldIoFromLua
  BY <1>0, TableSame
<1>2. cart' = cart => BoundariesFromLua' = BoundariesFromLua
  BY <1>0, ConditionsSame
<1>3. ext' = ext /\ dom' = dom => ShapesFromLua' = ShapesFromLua /\ Cartesian' = Cartesian
  BY <1>0, MeshSame
<1>4. CASE UNCHANGED configVars \/ Statement
  <2>1. pc' = pc /\ UNCHANGED <<ext, dom, shapes, cart, bcs, system, integrator, controller, io, sample>>
    BY <1>4 DEF Statement, configVars, parsed, parts, visit
  <2> QED
    BY <1>1, <1>2, <1>3, <2>1 DEF Complete
<1>5. CASE ChooseSystem
  <2>1. /\ pc = "type" /\ pc' \in {"cartesian", "integrator"} /\ (system' = system \/ system' = <<Built>>)
        /\ pc' = "cartesian" => system' = system
        /\ UNCHANGED <<ext, dom, shapes, cart, bcs, integrator, controller, io, sample>>
    BY <1>5 DEF ChooseSystem, At, Then, parsed, parts, visit
  <2> QED
    BY <1>1, <1>2, <1>3, <2>1
<1>6. CASE ReadCartesian
  <2>1. /\ pc = "cartesian"
        /\ \/ pc' = "integrator" /\ UNCHANGED <<ext, dom>>
           \/ CartesianFromLua # <<>> /\ pc' = "shapes"
              /\ ext' = CartesianFromLua[1].ext /\ dom' = CartesianFromLua[1].dom
        /\ UNCHANGED <<shapes, cart, bcs, system, integrator, controller, io, sample>>
    BY <1>6 DEF ReadCartesian, At, Then, parts, visit
  <2> QED
    BY <1>1, <1>2, <1>3, <2>1
<1>7. CASE BuildMesh
  <2>1. /\ pc = "shapes"
        /\ \/ pc' = "integrator" /\ UNCHANGED <<shapes, cart>>
           \/ ShapesFromLua # <<>> /\ pc' = "boundaries"
              /\ shapes' = ShapesFromLua[1] /\ cart' = Cartesian
        /\ UNCHANGED <<ext, dom, bcs, system, integrator, controller, io, sample>>
    BY <1>7 DEF BuildMesh, At, Then, parts, visit
  <2> QED
    BY <1>1, <1>2, <1>3, <2>1, MeshThere
<1>8. CASE ReadBoundaries
  <2>1. /\ pc = "boundaries" /\ pc' = "scheme" /\ bcs' = BoundariesFromLua
        /\ UNCHANGED <<ext, dom, shapes, cart, system, integrator, controller, io, sample>>
    BY <1>8 DEF ReadBoundaries, At, Then, parts, visit
  <2> QED
    BY <1>1, <1>2, <1>3, <2>1
<1>9. CASE ReadScheme \/ ReadSolution \/ NoConditions \/ ConstructHeat \/ FinishHeat \/ ConstructOther
  <2>1. /\ pc \in {"scheme", "solution", "construct", "assert"}
        /\ \/ pc' \in {"solution", "construct", "assert", "integrator", "aborted"} /\ system' = system
           \/ pc' = "integrator" /\ system' = <<Built>>
        /\ pc' = "construct" => SystemType = "heat"
        /\ pc' = "assert" => pc = "construct"
        /\ UNCHANGED <<ext, dom, shapes, cart, bcs, integrator, controller, io, sample>>
    BY <1>9 DEF ReadScheme, ReadSolution, NoConditions, ConstructHeat, FinishHeat, ConstructOther,
                At, Then, parsed, parts, visit
  <2> QED
    BY <1>1, <1>2, <1>3, <2>1
<1>10. CASE ReadIntegrator \/ ReadController \/ ReadIo
  <2>1. /\ \/ pc = "integrator" /\ pc' = "controller" /\ UNCHANGED <<controller, io>>
           \/ pc = "controller" /\ pc' = "io" /\ controller' = StepControllerFromLua /\ io' = io
           \/ pc = "io" /\ pc' = "cycle" /\ io' = FieldIoFromLua /\ controller' = controller
        /\ UNCHANGED <<ext, dom, shapes, cart, bcs, system, sample>>
    BY <1>10 DEF ReadIntegrator, ReadController, ReadIo, At, Then, parsed, parts, visit
  <2> QED
    BY <1>1, <1>2, <1>3, <2>1
<1>11. CASE BuildCycle
  <2>1. /\ pc = "cycle" /\ pc' = IF Complete THEN "built" ELSE "failed"
        /\ UNCHANGED <<ext, dom, shapes, cart, bcs, system, integrator, controller, io, sample>>
    BY <1>11 DEF BuildCycle, At, Then, parsed, parts, visit
  <2> QED
    BY <1>1, <1>2, <1>3, <2>1 DEF Complete
<1>12. CASE StartVisit \/ VisitPoint \/ ChooseLine \/ LineNext \/ LinePrev \/ LineJump
  <2>1. /\ pc \in {"built", "visit", "line"} /\ pc' \in {"visit", "line"}
        /\ sample' = sample \/ sample' = <<>> \/ sample'[1].parallel = IsThreadSafe(sample'[1].kind)
        /\ UNCHANGED <<ext, dom, shapes, cart, bcs, system, integrator, controller, io>>
    BY <1>12 DEF StartVisit, VisitPoint, ChooseLine, LineNext, LinePrev, LineJump, Walk, At, Then,
                 parsed, parts, visit
  <2> QED
    BY <1>1, <1>2, <1>3, <2>1 DEF Complete
<1> QED
  BY <1>4, <1>5, <1>6, <1>7, <1>8, <1>9, <1>10, <1>11, <1>12 DEF ConfigNext

-----------------------------------------------------------------------------
(* Where handles are led to *)

(* The named places are places, and what the schemes are made of contents. *)
LEMMA Named ==
  /\ \A x \in Places : x \in Holders
  /\ \A k \in Kinds : k \in Contents
BY PlacesAssumption

(* An operation under way changes nothing of where it leads. *)
LEMMA StatementLeads ==
  ASSUME HandleInv, HandlesLead, Statement
  PROVE  HandlesLead' /\ HandleNext
<1>1. PICK g \in SortMaps : Leads(Held, todo, g) /\ Fits(pc, g)
  BY DEF HandlesLead
<1>2. todo # <<>> /\ todo' = Tail(todo) /\ pc' = pc /\ system' = system
  BY DEF Statement, parts
<1>3. Head(todo) \in Ops /\ Leads(After(Held, Head(todo)), todo', g)
  BY <1>1, <1>2, LeadsOn
<1>4. Held' = After(Held, Head(todo)) /\ HandleNext
  BY <1>3, StatementDoes
<1>5. Fits(pc, g)'
  BY <1>1, <1>2 DEF Fits, IsHeat
<1> QED
  BY <1>3, <1>4, <1>5 DEF HandlesLead

(* A function that does nothing with handles leaves them. *)
LEMMA NothingLeads ==
  ASSUME HandleInv, HandlesLead, todo = <<>>, todo' = <<>>, UNCHANGED handleVars, Fits(pc, Held)'
  PROVE  HandlesLead'
<1>1. Held \in SortMaps /\ Held' = Held
  BY HeldFits DEF Held, handleVars
<1>2. Leads(Held', todo', Held')
  BY <1>1, LeadsNone
<1> QED
  BY <1>1, <1>2 DEF HandlesLead

(* Nor do those that read other parts, or visit the points. *)
LEMMA ReadingLeads ==
  ASSUME HandleInv, HandlesLead, TableRead,
         \/ ChooseSystem \/ ReadCartesian \/ BuildMesh \/ ReadBoundaries
         \/ ReadIntegrator \/ ReadController \/ ReadIo
         \/ StartVisit \/ VisitPoint \/ ChooseLine \/ LineNext \/ LinePrev \/ LineJump
  PROVE  HandlesLead'
<1>1. todo = <<>> /\ todo' = <<>> /\ UNCHANGED handleVars
  BY DEF ChooseSystem, ReadCartesian, BuildMesh, ReadBoundaries, ReadIntegrator, ReadController, ReadIo,
         StartVisit, VisitPoint, ChooseLine, LineNext, LinePrev, LineJump, Walk, At, Then
<1>2. PICK h \in SortMaps : h = Held /\ Fits(pc, h) /\ Held' = h
  BY <1>1, HeldFits DEF Held, handleVars
<1>3. "sys_opt" \in Holders
  BY Named DEF Places
<1>4. CASE ChooseSystem
  <2>1. /\ pc = "type"
        /\ \/ pc' = "cartesian" /\ system' = system
           \/ pc' = "integrator" /\ system' = system
           \/ pc' = "integrator" /\ system' = <<Built>> /\ Built.kind = "inviscid vortex"
    BY <1>4 DEF ChooseSystem, At, Then, parts, Built
  <2>2. system = <<>>
    BY <2>1 DEF TableRead, BeforeSystem, BeforeMesh
  <2>3. pc' = "integrator" => ~IsHeat'
    <3>1. PICK b : b = Built
      OBVIOUS
    <3>2. CASE system' = system
      BY <2>2, <3>2 DEF IsHeat
    <3>3. CASE system' = <<b>> /\ b.kind = "inviscid vortex"
      <4>1. system'[1] = b
        BY <3>3
      <4> QED
        BY <3>3, <4>1 DEF IsHeat
    <3> QED
      BY <2>1, <3>1, <3>2, <3>3
  <2>4. Only(h, {"E2", "E4"})
    BY <1>2, <2>1 DEF Fits
  <2>5. Fits(pc, h)'
    BY <1>3, <2>1, <2>3, <2>4 DEF Fits, Only
  <2> QED
    BY <1>1, <1>2, <2>5, NothingLeads
<1>5. CASE ReadCartesian \/ BuildMesh \/ ReadBoundaries
  <2>1. /\ pc \in {"cartesian", "shapes", "boundaries"} /\ pc' \in {"shapes", "boundaries", "scheme", "integrator"}
        /\ system' = system
    BY <1>5 DEF ReadCartesian, BuildMesh, ReadBoundaries, At, Then, parts
  <2>2. system = <<>>
    BY <2>1 DEF TableRead, BeforeSystem, BeforeMesh
  <2>3. ~IsHeat'
    BY <2>1, <2>2 DEF IsHeat
  <2>4. Only(h, {"E2", "E4"})
    BY <1>2, <2>1 DEF Fits
  <2>5. Fits(pc, h)'
    BY <1>3, <2>1, <2>3, <2>4 DEF Fits, Only
  <2> QED
    BY <1>1, <1>2, <2>5, NothingLeads
<1>6. CASE ReadIntegrator \/ ReadController \/ ReadIo
  <2>1. /\ pc \in {"integrator", "controller", "io"} /\ pc' \in {"controller", "io", "cycle"}
        /\ system' = system
    BY <1>6 DEF ReadIntegrator, ReadController, ReadIo, At, Then
  <2>2. Fits(pc, h)'
    BY <1>2, <2>1 DEF Fits, IsHeat
  <2> QED
    BY <1>1, <1>2, <2>2, NothingLeads
<1>7. CASE StartVisit \/ VisitPoint \/ ChooseLine \/ LineNext \/ LinePrev \/ LineJump
  <2>1. /\ pc \in {"built", "visit", "line"} /\ pc' \in {"visit", "line"} /\ system' = system
    BY <1>7 DEF StartVisit, VisitPoint, ChooseLine, LineNext, LinePrev, LineJump, Walk, At, Then, parts
  <2>2. Fits(pc, h)'
    BY <1>2, <2>1 DEF Fits, IsHeat
  <2> QED
    BY <1>1, <1>2, <2>2, NothingLeads
<1> QED
  BY <1>4, <1>5, <1>6, <1>7

(* The scheme is copied, or made and handed over. *)
LEMMA SchemeLeads == ASSUME HandleInv, HandlesLead, TableRead, ReadScheme PROVE HandlesLead'
<1>1. pc = "scheme" /\ todo = <<>> /\ UNCHANGED handleVars /\ system' = system /\ system = <<>>
  BY DEF ReadScheme, At, parts, TableRead, BeforeSystem
<1>2. PICK h \in SortMaps : h = Held /\ Held' = h /\ Only(h, {"E2", "E4"})
  BY <1>1, HeldFits DEF Held, handleVars, Fits
<1>3. {"E2", "E4", "st_opt", "made", "sys_opt"} \subseteq Holders
  BY Named DEF Places
<1>4. CASE Scheme \in SharedSchemes /\ pc' = "solution" /\ todo' = <<CopyOf("st_opt", Scheme[1])>>
  <2>1. PICK y \in {"E2", "E4"} : y = Scheme[1]
    BY <1>4 DEF SharedSchemes
  <2>2. PICK g \in SortMaps : g = Put(h, "st_opt", h[y])
    BY <1>3, PutSort DEF SortMaps
  <2>3. Leads(h, todo', g)
    <3>1. Leads(h, <<CopyOf("st_opt", y)>>, Put(h, "st_opt", h[y]))
      <4>1. "E2_2" \in Contents
        BY Named DEF Kinds
      <4> QED
        BY <1>3, <4>1, EachLeads
    <3> QED
      BY <1>4, <2>1, <2>2, <3>1
  <2>4. Only(g, {"E2", "E4", "st_opt"})
    BY <1>2, <1>3, <2>2 DEF Only, Put, SortMaps
  <2> QED
    BY <1>2, <1>4, <2>3, <2>4 DEF HandlesLead, Fits
<1>5. CASE Scheme \in MadeSchemes /\ pc' = "solution"
           /\ todo' = <<New("made", Scheme[1])>> \o Hand("st_opt", "made")
  <2>1. PICK k \in Contents : k = Scheme[1]
    BY <1>5, Named DEF Kinds
  <2>2. PICK g \in SortMaps : g = Put(h, "made", "body")
    BY <1>3, PutSort
  <2>3. Leads(h, <<New("made", k)>>, g)
    BY <1>3, <2>2, EachLeads
  <2>4. PICK f \in SortMaps : f = Put(Put(g, "st_opt", g["made"]), "made", "absent")
    BY <1>3, PutSort DEF SortMaps
  <2>5. Leads(g, Hand("st_opt", "made"), f)
    BY <1>3, <2>4, HandLeads
  <2>6. Leads(h, todo', f)
    BY <1>5, <2>1, <2>3, <2>5, LeadsThen
  <2>7. Only(f, {"E2", "E4", "st_opt"})
    BY <1>2, <1>3, <2>2, <2>4 DEF Only, Put, SortMaps
  <2> QED
    BY <1>2, <1>5, <2>6, <2>7 DEF HandlesLead, Fits
<1>6. CASE pc' = "integrator" /\ todo' = <<>>
  <2>1. Fits(pc, h)'
    BY <1>1, <1>2, <1>3, <1>6 DEF Fits, Only, IsHeat
  <2> QED
    BY <1>1, <1>2, <1>6, <2>1, NothingLeads
<1> QED
  BY <1>4, <1>5, <1>6 DEF ReadScheme, Then

(* The solution is made and handed over, or there is none. *)
LEMMA SolutionLeads == ASSUME HandleInv, HandlesLead, ReadSolution PROVE HandlesLead'
<1>1. pc = "solution" /\ pc' = "construct" /\ todo = <<>> /\ UNCHANGED handleVars
  BY DEF ReadSolution, At, Then
<1>2. PICK h \in SortMaps : h = Held /\ Held' = h /\ Only(h, {"E2", "E4", "st_opt"})
  BY <1>1, HeldFits DEF Held, handleVars, Fits
<1>3. {"E2", "E4", "st_opt", "made", "ms_opt", "t"} \subseteq Holders
  BY Named DEF Places
<1>4. ASSUME NEW g \in SortMaps, Leads(h, todo', g), Only(g, {"E2", "E4", "st_opt", "t", "ms_opt"}), g["t"] # "absent"
      PROVE  HandlesLead'
  BY <1>1, <1>2, <1>4 DEF HandlesLead, Fits
<1>5. CASE todo' = <<Default("t")>>
  <2>1. PICK g \in SortMaps : g = Put(h, "t", "null")
    BY <1>3, PutSort
  <2>2. Leads(h, todo', g)
    <3>1. "E2_2" \in Contents
      BY Named DEF Kinds
    <3> QED
      BY <1>3, <1>5, <2>1, <3>1, EachLeads
  <2>3. Only(g, {"E2", "E4", "st_opt", "t", "ms_opt"}) /\ g["t"] # "absent"
    BY <1>2, <1>3, <2>1 DEF Only, Put, SortMaps
  <2> QED
    BY <1>4, <2>2, <2>3
<1>6. ASSUME NEW made, todo' = made \o <<MoveOf("t", "ms_opt")>>,
             NEW g \in SortMaps, Leads(h, made, g),
             Only(g, {"E2", "E4", "st_opt", "ms_opt"}), g["ms_opt"] # "absent"
      PROVE  HandlesLead'
  <2>1. PICK f \in SortMaps : f = Put(Put(g, "t", g["ms_opt"]), "ms_opt", "null")
    BY <1>3, PutSort DEF SortMaps
  <2>2. Leads(g, <<MoveOf("t", "ms_opt")>>, f)
    <3>1. "E2_2" \in Contents
      BY Named DEF Kinds
    <3> QED
      BY <1>3, <2>1, <3>1, EachLeads
  <2>3. Leads(h, todo', f)
    BY <1>6, <2>2, LeadsThen
  <2>4. Only(f, {"E2", "E4", "st_opt", "t", "ms_opt"}) /\ f["t"] # "absent"
    BY <1>3, <1>6, <2>1 DEF Only, Put, SortMaps
  <2> QED
    BY <1>4, <2>3, <2>4
<1>7. ASSUME NEW first, NEW g \in SortMaps, Leads(h, first, g),
             Only(g, {"E2", "E4", "st_opt", "made"}), g["made"] # "absent",
             todo' = (first \o Hand("ms_opt", "made")) \o <<MoveOf("t", "ms_opt")>>
      PROVE  HandlesLead'
  <2>1. PICK f \in SortMaps : f = Put(Put(g, "ms_opt", g["made"]), "made", "absent")
    BY <1>3, PutSort DEF SortMaps
  <2>2. Leads(g, Hand("ms_opt", "made"), f)
    BY <1>3, <2>1, HandLeads
  <2>3. Leads(h, first \o Hand("ms_opt", "made"), f)
    BY <1>7, <2>2, LeadsThen
  <2>4. Only(f, {"E2", "E4", "st_opt", "ms_opt"}) /\ f["ms_opt"] # "absent"
    BY <1>3, <1>7, <2>1 DEF Only, Put, SortMaps
  <2> QED
    BY <1>6, <1>7, <2>3, <2>4
<1>8. ASSUME NEW k \in Contents, NEW x \in {"ms_opt", "made"}
      PROVE  /\ \E g \in SortMaps : /\ Leads(h, <<New(x, k)>>, g) /\ g[x] # "absent"
                                    /\ Only(g, {"E2", "E4", "st_opt", x})
             /\ \E g \in SortMaps : /\ Leads(h, <<Default(x)>>, g) /\ g[x] # "absent"
                                    /\ Only(g, {"E2", "E4", "st_opt", x})
  <2>1. x \in Holders
    BY <1>3
  <2>2. PICK g \in SortMaps : g = Put(h, x, "body")
    BY <2>1, PutSort
  <2>3. PICK f \in SortMaps : f = Put(h, x, "null")
    BY <2>1, PutSort
  <2>4. Leads(h, <<New(x, k)>>, g) /\ Leads(h, <<Default(x)>>, f)
    BY <2>1, <2>2, <2>3, EachLeads
  <2>5. /\ g[x] # "absent" /\ Only(g, {"E2", "E4", "st_opt", x})
        /\ f[x] # "absent" /\ Only(f, {"E2", "E4", "st_opt", x})
    BY <1>2, <2>1, <2>2, <2>3 DEF Only, Put, SortMaps
  <2> QED
    BY <2>4, <2>5
<1>9. CASE todo' = <<New("ms_opt", "lua")>> \o <<MoveOf("t", "ms_opt")>>
  <2>1. "lua" \in Contents
    BY Named DEF Kinds
  <2>2. PICK g \in SortMaps : Leads(h, <<New("ms_opt", "lua")>>, g) /\ g["ms_opt"] # "absent"
                             /\ Only(g, {"E2", "E4", "st_opt", "ms_opt"})
    BY <1>8, <2>1
  <2> QED
    BY <1>6, <1>9, <2>2
<1>10. CASE todo' = (<<Default("made")>> \o Hand("ms_opt", "made")) \o <<MoveOf("t", "ms_opt")>>
  <2>1. "lua" \in Contents
    BY Named DEF Kinds
  <2>2. PICK g \in SortMaps : Leads(h, <<Default("made")>>, g) /\ g["made"] # "absent"
                             /\ Only(g, {"E2", "E4", "st_opt", "made"})
    BY <1>8, <2>1
  <2> QED
    BY <1>7, <1>10, <2>2
<1>11. ASSUME NEW k \in Contents,
              todo' = (<<New("made", k)>> \o Hand("ms_opt", "made")) \o <<MoveOf("t", "ms_opt")>>
       PROVE  HandlesLead'
  <2>1. PICK g \in SortMaps : Leads(h, <<New("made", k)>>, g) /\ g["made"] # "absent"
                             /\ Only(g, {"E2", "E4", "st_opt", "made"})
    BY <1>8
  <2> QED
    BY <1>7, <1>11, <2>1
<1>12. PICK ms : ms = SolutionFromLua(tbl, cart.dims)
  OBVIOUS
<1>13. ms = <<>> \/ (ms # <<>> /\ ms[1].kind \in {"gauss1d", "gauss2d", "gauss3d", "empty", "lua"})
  <2>1. ASSUME NEW d, NEW s1
        PROVE  BuildMsGauss(d, s1).kind \in {"gauss1d", "gauss2d", "gauss3d", "empty"}
    <3>1. CASE d \in 1 .. 3
      BY <3>1 DEF BuildMsGauss
    <3>2. CASE d \notin 1 .. 3
      BY <3>2 DEF BuildMsGauss, Empty
    <3> QED
      BY <3>1, <3>2
  <2> QED
    BY <1>12, <2>1 DEF SolutionFromLua, LuaMms
<1>14. CASE ms = <<>>
  BY <1>5, <1>12, <1>14 DEF ReadSolution, Then
<1>15. CASE ms # <<>>
  <2>1. todo' =
          (CASE ms[1].kind = "lua" -> <<New("ms_opt", "lua")>>
             [] ms[1].kind = "empty" -> <<Default("made")>> \o Hand("ms_opt", "made")
             [] OTHER -> <<New("made", ms[1].kind)>> \o Hand("ms_opt", "made"))
          \o <<MoveOf("t", "ms_opt")>>
    BY <1>12, <1>15 DEF ReadSolution, Then
  <2>2. CASE ms[1].kind = "lua"
    BY <1>9, <2>1, <2>2
  <2>3. CASE ms[1].kind = "empty"
    BY <1>10, <2>1, <2>3
  <2>4. CASE ms[1].kind \in {"gauss1d", "gauss2d", "gauss3d"}
    <3>1. PICK k \in Contents : k = ms[1].kind /\ k \notin {"lua", "empty"}
      BY <2>4, Named DEF Kinds
    <3> QED
      BY <1>11, <2>1, <3>1
  <2> QED
    BY <1>13, <1>15, <2>2, <2>3, <2>4
<1> QED
  BY <1>14, <1>15

(* Without conditions the scheme is dropped. *)
LEMMA NoConditionsLeads == ASSUME HandleInv, HandlesLead, TableRead, NoConditions PROVE HandlesLead'
<1>1. /\ pc = "solution" /\ pc' = "integrator" /\ todo = <<>> /\ UNCHANGED handleVars
      /\ system' = system /\ system = <<>> /\ todo' = <<Drop("st_opt")>>
  BY DEF NoConditions, At, Then, parts, TableRead, BeforeSystem
<1>2. PICK h \in SortMaps : h = Held /\ Held' = h /\ Only(h, {"E2", "E4", "st_opt"})
  BY <1>1, HeldFits DEF Held, handleVars, Fits
<1>3. "st_opt" \in Holders /\ "sys_opt" \in Holders /\ "lua" \in Contents
  BY Named DEF Places, Kinds
<1>4. PICK g \in SortMaps : g = Put(h, "st_opt", "absent")
  BY <1>3, PutSort
<1>5. Leads(h, todo', g)
  BY <1>1, <1>3, <1>4, EachLeads
<1>6. Only(g, {"E2", "E4", "sys_opt"}) /\ g["sys_opt"] = "absent"
  BY <1>2, <1>3, <1>4 DEF Only, Put, SortMaps
<1>7. Fits(pc, g)'
  BY <1>1, <1>6 DEF Fits, IsHeat
<1> QED
  BY <1>2, <1>5, <1>7 DEF HandlesLead

(* heat has a copy of the scheme, and the solution. *)
LEMMA ConstructLeads == ASSUME HandleInv, HandlesLead, ConstructHeat PROVE HandlesLead'
<1>1. /\ pc = "construct" /\ pc' = "assert" /\ todo = <<>> /\ UNCHANGED handleVars
      /\ todo' = <<CopyOf("st", "st_opt")>> \o <<MoveOf("m_sol", "t")>>
  BY DEF ConstructHeat, At, Then
<1>2. PICK h \in SortMaps : /\ h = Held /\ Held' = h /\ h["t"] # "absent"
                           /\ Only(h, {"E2", "E4", "st_opt", "t", "ms_opt"})
  BY <1>1, HeldFits DEF Held, handleVars, Fits
<1>3. {"st_opt", "st", "t", "m_sol"} \subseteq Holders /\ "lua" \in Contents
  BY Named DEF Places, Kinds
<1>4. PICK g \in SortMaps : g = Put(h, "st", h["st_opt"])
  BY <1>3, PutSort DEF SortMaps
<1>5. Leads(h, <<CopyOf("st", "st_opt")>>, g)
  BY <1>3, <1>4, EachLeads
<1>6. PICK f \in SortMaps : f = Put(Put(g, "m_sol", g["t"]), "t", "null")
  BY <1>3, PutSort DEF SortMaps
<1>7. Leads(g, <<MoveOf("m_sol", "t")>>, f)
  BY <1>3, <1>6, EachLeads
<1>8. Leads(h, todo', f)
  BY <1>1, <1>5, <1>7, LeadsThen
<1>9. Only(f, {"E2", "E4", "st_opt", "st", "t", "ms_opt", "m_sol"}) /\ f["t"] # "absent" /\ f["m_sol"] # "absent"
  BY <1>2, <1>3, <1>4, <1>6 DEF Only, Put, SortMaps
<1> QED
  BY <1>1, <1>2, <1>8, <1>9 DEF HandlesLead, Fits

(* The other systems have a copy of the scheme only. *)
LEMMA OtherLeads == ASSUME HandleInv, HandlesLead, ConstructOther PROVE HandlesLead'
<1>1. /\ pc = "solution" /\ pc' = "integrator" /\ todo = <<>> /\ UNCHANGED handleVars
      /\ todo' = (<<CopyOf("st", "st_opt")>> \o <<Drop("st")>>) \o <<Drop("st_opt")>>
      /\ system' = <<Built>> /\ SystemType # "heat"
  BY DEF ConstructOther, At, Then
<1>2. PICK h \in SortMaps : h = Held /\ Held' = h /\ Only(h, {"E2", "E4", "st_opt"})
  BY <1>1, HeldFits DEF Held, handleVars, Fits
<1>3. {"st_opt", "st", "sys_opt"} \subseteq Holders /\ "lua" \in Contents
  BY Named DEF Places, Kinds
<1>4. PICK g \in SortMaps : g = Put(h, "st", h["st_opt"])
  BY <1>3, PutSort DEF SortMaps
<1>5. Leads(h, <<CopyOf("st", "st_opt")>>, g)
  BY <1>3, <1>4, EachLeads
<1>6. PICK f \in SortMaps : f = Put(g, "st", "absent")
  BY <1>3, PutSort
<1>7. PICK e \in SortMaps : e = Put(f, "st_opt", "absent")
  BY <1>3, PutSort
<1>8. Leads(g, <<Drop("st")>>, f) /\ Leads(f, <<Drop("st_opt")>>, e)
  BY <1>3, <1>6, <1>7, EachLeads
<1>9. Leads(h, todo', e)
  BY <1>1, <1>5, <1>8, LeadsThen
<1>10. Only(e, {"E2", "E4", "sys_opt"}) /\ e["sys_opt"] = "absent"
  BY <1>2, <1>3, <1>4, <1>6, <1>7 DEF Only, Put, SortMaps
<1>11. ~IsHeat'
  <2>1. PICK b : b = Built
    OBVIOUS
  <2>2. b.kind # "heat"
    BY <1>1, <2>1 DEF Built
  <2>3. system'[1] = b
    BY <1>1, <2>1
  <2> QED
    BY <2>2, <2>3 DEF IsHeat
<1>12. Fits(pc, e)'
  BY <1>1, <1>10, <1>11 DEF Fits
<1> QED
  BY <1>2, <1>9, <1>12 DEF HandlesLead

(* heat is handed over and the locals end. *)
LEMMA FinishLeads == ASSUME HandleInv, HandlesLead, TableRead, FinishHeat PROVE HandlesLead'
<1>1. pc = "assert" /\ todo = <<>> /\ UNCHANGED handleVars /\ SystemType = "heat"
  BY DEF FinishHeat, At, TableRead
<1>2. PICK h \in SortMaps : /\ h = Held /\ Held' = h /\ h["t"] # "absent" /\ h["m_sol"] # "absent"
                           /\ Only(h, {"E2", "E4", "st_opt", "st", "t", "ms_opt", "m_sol"})
  BY <1>1, HeldFits DEF Held, handleVars, Fits
<1>3. /\ {"st_opt", "st", "t", "ms_opt", "m_sol", "heat_opt", "system", "sys_opt"} \subseteq Holders
      /\ "lua" \in Contents
  BY Named DEF Places, Kinds
<1>4. CASE pc' = "aborted" /\ todo' = <<>>
  <2>1. Leads(h, todo', h)
    BY <1>4, LeadsNone
  <2>2. Fits(pc, h)'
    BY <1>4 DEF Fits
  <2> QED
    BY <1>2, <2>1, <2>2 DEF HandlesLead
<1>5. CASE s["m_sol"] # Null /\ pc' = "integrator" /\ pc' # "aborted"
  <2> DEFINE drops == [i \in 1 .. Cardinality({x \in Locals : s[x] # Absent}) |-> Drop(<<"t", "ms_opt">>[i])]
  <2>1. /\ todo' = ((((Hand("heat_opt", "m_sol") \o <<Drop("st")>>) \o drops)
                    \o <<Drop("st_opt"), MoveOf("system", "heat_opt")>>) \o Hand("sys_opt", "system"))
                    \o <<Drop("heat_opt")>>
        /\ system' = <<Built>>
    BY <1>5 DEF FinishHeat, Then
  <2>2. h["m_sol"] = "body" /\ (h["ms_opt"] = "absent" <=> s["ms_opt"] = Absent) /\ s["t"] # Absent
    BY <1>2, <1>3, <1>5, HandleAssumption DEF Held, Sort, HandleInv, HandleTypeOK
  <2>3. drops = IF h["ms_opt"] = "absent" THEN <<Drop("t")>> ELSE <<Drop("t")>> \o <<Drop("ms_opt")>>
    <3>1. CASE h["ms_opt"] = "absent"
      <4>1. {x \in Locals : s[x] # Absent} = {"t"}
        BY <2>2, <3>1 DEF Locals
      <4>2. Cardinality({"t"}) = 1
        BY FS_Singleton
      <4>3. drops = [i \in 1 .. 1 |-> Drop(<<"t", "ms_opt">>[i])]
        BY <4>1, <4>2
      <4> QED
        BY <3>1, <4>3
    <3>2. CASE h["ms_opt"] # "absent"
      <4>1. {x \in Locals : s[x] # Absent} = {"t"} \cup {"ms_opt"}
        BY <2>2, <3>2 DEF Locals
      <4>2. Cardinality({"t"} \cup {"ms_opt"}) = 2
        <5>1. IsFiniteSet({"t"}) /\ Cardinality({"t"}) = 1
          BY FS_Singleton
        <5>2. "ms_opt" \notin {"t"}
          OBVIOUS
        <5> QED
          BY <5>1, <5>2, FS_AddElement
      <4>3. drops = [i \in 1 .. 2 |-> Drop(<<"t", "ms_opt">>[i])]
        BY <4>1, <4>2
      <4> QED
        BY <3>2, <4>3
    <3> QED
      BY <3>1, <3>2
  <2> HIDE DEF drops
  <2>4. PICK h1 \in SortMaps : h1 = Put(Put(h, "heat_opt", h["m_sol"]), "m_sol", "absent")
    BY <1>3, PutSort DEF SortMaps
  <2>5. Leads(h, Hand("heat_opt", "m_sol"), h1)
    BY <1>3, <2>4, HandLeads
  <2>6. PICK h2 \in SortMaps : h2 = Put(h1, "st", "absent")
    BY <1>3, PutSort
  <2>7. Leads(h1, <<Drop("st")>>, h2)
    BY <1>3, <2>6, EachLeads
  <2>8. PICK h3 \in SortMaps : h3 = Put(h2, "t", "absent")
    BY <1>3, PutSort
  <2>9. Leads(h2, <<Drop("t")>>, h3)
    BY <1>3, <2>8, EachLeads
  <2>10. PICK h4 \in SortMaps : h4 = Put(h3, "ms_opt", "absent")
    BY <1>3, PutSort
  <2>11. Leads(h3, <<Drop("ms_opt")>>, h4)
    BY <1>3, <2>10, EachLeads
  <2>12. Leads(h2, drops, h4)
    <3>1. CASE h["ms_opt"] = "absent"
      <4>1. h3["ms_opt"] = "absent"
        BY <1>3, <2>4, <2>6, <2>8, <3>1 DEF Put, SortMaps
      <4>2. h4 = h3
        BY <1>3, <2>10, <4>1 DEF Put, SortMaps
      <4> QED
        BY <2>3, <2>9, <3>1, <4>2
    <3>2. CASE h["ms_opt"] # "absent"
      BY <2>3, <2>9, <2>11, <3>2, LeadsThen
    <3> QED
      BY <3>1, <3>2
  <2>13. PICK h5 \in SortMaps : h5 = Put(h4, "st_opt", "absent")
    BY <1>3, PutSort
  <2>14. PICK h6 \in SortMaps : h6 = Put(Put(h5, "system", h5["heat_opt"]), "heat_opt", "null")
    BY <1>3, PutSort DEF SortMaps
  <2>15. Leads(h4, <<Drop("st_opt"), MoveOf("system", "heat_opt")>>, h6)
    <3>1. Leads(h4, <<Drop("st_opt")>>, h5) /\ Leads(h5, <<MoveOf("system", "heat_opt")>>, h6)
      BY <1>3, <2>13, <2>14, EachLeads
    <3>2. <<Drop("st_opt"), MoveOf("system", "heat_opt")>> = <<Drop("st_opt")>> \o <<MoveOf("system", "heat_opt")>>
      OBVIOUS
    <3> QED
      BY <3>1, <3>2, LeadsThen
  <2>16. PICK h7 \in SortMaps : h7 = Put(Put(h6, "sys_opt", h6["system"]), "system", "absent")
    BY <1>3, PutSort DEF SortMaps
  <2>17. Leads(h6, Hand("sys_opt", "system"), h7)
    BY <1>3, <2>16, HandLeads
  <2>18. PICK h8 \in SortMaps : h8 = Put(h7, "heat_opt", "absent")
    BY <1>3, PutSort
  <2>19. Leads(h7, <<Drop("heat_opt")>>, h8)
    BY <1>3, <2>18, EachLeads
  <2>20. Leads(h, todo', h8)
    <3>1. Leads(h, Hand("heat_opt", "m_sol") \o <<Drop("st")>>, h2)
      BY <2>5, <2>7, LeadsThen
    <3>2. Leads(h, (Hand("heat_opt", "m_sol") \o <<Drop("st")>>) \o drops, h4)
      BY <2>12, <3>1, LeadsThen
    <3>3. Leads(h, ((Hand("heat_opt", "m_sol") \o <<Drop("st")>>) \o drops)
                    \o <<Drop("st_opt"), MoveOf("system", "heat_opt")>>, h6)
      BY <2>15, <3>2, LeadsThen
    <3>4. Leads(h, (((Hand("heat_opt", "m_sol") \o <<Drop("st")>>) \o drops)
                    \o <<Drop("st_opt"), MoveOf("system", "heat_opt")>>) \o Hand("sys_opt", "system"), h7)
      BY <2>17, <3>3, LeadsThen
    <3> QED
      BY <2>1, <2>19, <3>4, LeadsThen
  <2>21. Only(h8, {"E2", "E4", "sys_opt"}) /\ h8["sys_opt"] = "body"
    <3>1. h5["heat_opt"] = "body" /\ Only(h5, {"E2", "E4", "heat_opt"})
      BY <1>2, <1>3, <2>2, <2>4, <2>6, <2>8, <2>10, <2>13 DEF Only, Put, SortMaps
    <3> QED
      BY <1>3, <2>14, <2>16, <2>18, <3>1 DEF Only, Put, SortMaps
  <2>22. IsHeat'
    <3>1. PICK b : b = Built
      OBVIOUS
    <3>2. b.kind = "heat"
      BY <1>1, <3>1 DEF Built
    <3>3. system' = <<b>> /\ system'[1] = b
      BY <2>1, <3>1
    <3> QED
      BY <3>2, <3>3 DEF IsHeat
  <2>23. Fits(pc, h8)'
    BY <1>5, <2>21, <2>22 DEF Fits
  <2> QED
    BY <1>2, <2>20, <2>23 DEF HandlesLead
<1> QED
  BY <1>4, <1>5 DEF FinishHeat, Then

(* The cycle takes the system over, or it is dropped. *)
LEMMA CycleLeads == ASSUME HandleInv, HandlesLead, BuildCycle PROVE HandlesLead'
<1>1. /\ pc = "cycle" /\ pc' = (IF Complete THEN "built" ELSE "failed") /\ todo = <<>> /\ UNCHANGED handleVars
      /\ todo' = SolutionMoves /\ system' = system
  BY DEF BuildCycle, At, Then, parts
<1>2. PICK h \in SortMaps : /\ h = Held /\ Held' = h /\ Only(h, {"E2", "E4", "sys_opt"})
                           /\ h["sys_opt"] = IF IsHeat THEN "body" ELSE "absent"
  BY <1>1, HeldFits DEF Held, handleVars, Fits
<1>3. {"made", "sys_opt", "cycle"} \subseteq Holders /\ "lua" \in Contents
  BY Named DEF Places, Kinds
<1>4. s["sys_opt"] = Absent <=> h["sys_opt"] = "absent"
  BY <1>2, <1>3, HandleAssumption DEF Held, Sort, HandleInv, HandleTypeOK
<1>5. IsHeat' = IsHeat
  BY <1>1 DEF IsHeat
<1>6. CASE s["sys_opt"] = Absent
  <2>1. todo' = <<>>
    BY <1>1, <1>6 DEF SolutionMoves
  <2>2. ~IsHeat /\ Only(h, {"E2", "E4"})
    BY <1>2, <1>4, <1>6 DEF Only
  <2>3. h["cycle"] = "absent"
    BY <1>3, <2>2 DEF Only
  <2>4. Fits(pc, h)'
    BY <1>1, <1>5, <2>2, <2>3 DEF Fits, Only
  <2> QED
    BY <1>2, <2>1, <2>4, LeadsNone DEF HandlesLead
<1>7. CASE s["sys_opt"] # Absent /\ Complete
  <2>1. todo' = (<<MoveOf("made", "sys_opt")>> \o Hand("cycle", "made")) \o <<Drop("sys_opt")>>
    BY <1>1, <1>7 DEF SolutionMoves
  <2>2. IsHeat /\ h["sys_opt"] = "body"
    BY <1>2, <1>4, <1>7
  <2>3. PICK g \in SortMaps : g = Put(Put(h, "made", h["sys_opt"]), "sys_opt", "null")
    BY <1>3, PutSort DEF SortMaps
  <2>4. Leads(h, <<MoveOf("made", "sys_opt")>>, g)
    BY <1>3, <2>3, EachLeads
  <2>5. PICK f \in SortMaps : f = Put(Put(g, "cycle", g["made"]), "made", "absent")
    BY <1>3, PutSort DEF SortMaps
  <2>6. Leads(g, Hand("cycle", "made"), f)
    BY <1>3, <2>5, HandLeads
  <2>7. PICK e \in SortMaps : e = Put(f, "sys_opt", "absent")
    BY <1>3, PutSort
  <2>8. Leads(f, <<Drop("sys_opt")>>, e)
    BY <1>3, <2>7, EachLeads
  <2>9. Leads(h, todo', e)
    BY <2>1, <2>4, <2>6, <2>8, LeadsThen
  <2>10. Only(e, {"E2", "E4", "cycle"}) /\ e["cycle"] = "body"
    BY <1>2, <1>3, <2>2, <2>3, <2>5, <2>7 DEF Only, Put, SortMaps
  <2>11. Fits(pc, e)'
    BY <1>1, <1>5, <1>7, <2>2, <2>10 DEF Fits
  <2> QED
    BY <1>2, <2>9, <2>11 DEF HandlesLead
<1>8. CASE s["sys_opt"] # Absent /\ ~Complete
  <2>1. todo' = <<Drop("sys_opt")>>
    BY <1>1, <1>8 DEF SolutionMoves
  <2>2. PICK g \in SortMaps : g = Put(h, "sys_opt", "absent")
    BY <1>3, PutSort
  <2>3. Leads(h, todo', g)
    BY <1>3, <2>1, <2>2, EachLeads
  <2>4. Only(g, {"E2", "E4"})
    BY <1>2, <1>3, <2>2 DEF Only, Put, SortMaps
  <2>5. Fits(pc, g)'
    BY <1>1, <1>8, <2>4 DEF Fits
  <2> QED
    BY <1>2, <2>3, <2>5 DEF HandlesLead
<1> QED
  BY <1>6, <1>7, <1>8

(* Every step keeps where the handles are led to, and is one of handles or *)
(* leaves them.                                                            *)
LEMMA LeadsStep ==
  ASSUME HandleInv, HandlesLead, TableRead, [ConfigNext]_configVars
  PROVE  HandlesLead' /\ [HandleNext]_handleVars
<1>1. CASE UNCHANGED configVars
  <2>1. Held' = Held /\ todo' = todo /\ pc' = pc /\ system' = system /\ UNCHANGED handleVars
    BY <1>1 DEF configVars, parts, handleVars, Held
  <2> QED
    BY <2>1 DEF HandlesLead, Fits, IsHeat
<1>2. CASE Statement
  BY <1>2, StatementLeads
<1>3. CASE \/ ChooseSystem \/ ReadCartesian \/ BuildMesh \/ ReadBoundaries
           \/ ReadIntegrator \/ ReadController \/ ReadIo
           \/ StartVisit \/ VisitPoint \/ ChooseLine \/ LineNext \/ LinePrev \/ LineJump
  <2>1. UNCHANGED handleVars
    BY <1>3 DEF ChooseSystem, ReadCartesian, BuildMesh, ReadBoundaries, ReadIntegrator, ReadController,
                ReadIo, StartVisit, VisitPoint, ChooseLine, LineNext, LinePrev, LineJump, Walk, At
  <2> QED
    BY <1>3, <2>1, ReadingLeads
<1>4. CASE \/ ReadScheme \/ ReadSolution \/ NoConditions \/ ConstructHeat \/ FinishHeat
           \/ ConstructOther \/ BuildCycle
  <2>1. UNCHANGED handleVars
    BY <1>4 DEF ReadScheme, ReadSolution, NoConditions, ConstructHeat, FinishHeat, ConstructOther,
                BuildCycle, At
  <2> QED
    BY <1>4, <2>1, SchemeLeads, SolutionLeads, NoConditionsLeads, ConstructLeads, FinishLeads,
       OtherLeads, CycleLeads
<1> QED
  BY <1>1, <1>2, <1>3, <1>4 DEF ConfigNext
-----------------------------------------------------------------------------
(* What is set up *)

(* The shapes of a table are a list. *)
LEMMA ShapesList ==
  ASSUME tbl \in Tables
  PROVE  /\ Len(ShapeTables) \in Nat /\ DOMAIN ShapeTables = 1 .. Len(ShapeTables)
         /\ \A i \in DOMAIN ShapeTables : Has(ShapeTables[i], "psi") => ShapeTables[i].psi \in Int
<1>1. CASE Has(tbl, "shapes")
  <2>1. PICK q : q = tbl.shapes
    OBVIOUS
  <2>2. q \in Seq(Range(q)) /\ \A t \in Range(q) : ShapeTable(t)
    BY <1>1, <2>1, ConfigurationAssumption
  <2>3. ShapeTables = q
    BY <1>1, <2>1 DEF ShapeTables, GetOr
  <2>4. Len(q) \in Nat /\ DOMAIN q = 1 .. Len(q)
    BY <2>2
  <2>5. \A i \in DOMAIN q : q[i] \in Range(q)
    BY DEF Range
  <2> QED
    BY <2>2, <2>3, <2>4, <2>5 DEF ShapeTable
<1>2. CASE ~Has(tbl, "shapes")
  <2>1. ShapeTables = <<>>
    BY <1>2 DEF ShapeTables, GetOr
  <2> QED
    BY <2>1
<1> QED
  BY <1>1, <1>2

(* Every table of a shape makes one. *)
LEMMA ShapesMade ==
  ASSUME ShapesFromLua # <<>>
  PROVE  /\ DOMAIN ShapesFromLua[1] = DOMAIN ShapeTables
         /\ \A i \in DOMAIN ShapeTables :
              /\ Has(ShapeTables[i], "type") /\ ShapeTables[i].type \in {"sphere", "yz_rect"}
              /\ ShapesFromLua[1][i] =
                   IF ShapeTables[i].type = "sphere" THEN SphereFromLua(ShapeTables[i], i - 1)
                                                     ELSE RectFromLua(ShapeTables[i], i - 1)
<1>1. ShapesFromLua =
        <<[i \in DOMAIN ShapeTables |->
           IF ShapeTables[i].type = "sphere" THEN SphereFromLua(ShapeTables[i], i - 1)
                                             ELSE RectFromLua(ShapeTables[i], i - 1)]>>
      /\ \A i \in DOMAIN ShapeTables : KnownShape(ShapeTables[i])
  BY DEF ShapesFromLua
<1>2. ASSUME NEW i \in DOMAIN ShapeTables
      PROVE  Has(ShapeTables[i], "type") /\ ShapeTables[i].type \in {"sphere", "yz_rect"}
  <2>1. KnownShape(ShapeTables[i])
    BY <1>1
  <2> QED
    BY <2>1 DEF KnownShape, GetOr
<1> QED
  BY <1>1, <1>2

(* Bounds that were read are numbers. *)
LEMMA BoundsTyped ==
  ASSUME tbl \in Tables, CartesianFromLua # <<>>
  PROVE  LET r == CartesianFromLua[1]
         IN  \A e \in Dirs : /\ r.ext[e] \in Int /\ r.ext[e] <= Prime
                             /\ r.dom.min[e] \in Int /\ r.dom.max[e] \in Int
<1>1. PICK m : m = tbl.mesh /\ Has(tbl, "mesh") /\ Has(m, "index_extents") /\ Has(m, "domain_bounds")
  BY DEF CartesianFromLua
<1>2. PICK d : d = m.domain_bounds /\ (Has(d, "max") \/ Has(d, "corner"))
  BY <1>1 DEF CartesianFromLua
<1>3. MeshTable(m)
  BY <1>1, ConfigurationAssumption
<1>4. PICK q \in Seq(Int) : q = m.index_extents /\ \A i \in DOMAIN q : q[i] <= Prime
  BY <1>1, <1>3 DEF MeshTable
<1>5. \A key \in {"min", "max", "corner"} : Has(d, key) => d[key] \in Seq(Int)
  BY <1>1, <1>2, <1>3 DEF MeshTable
<1>6. ASSUME NEW v \in Seq(Int), NEW z, \A e \in Dirs : z[e] \in Int
      PROVE  \A e \in Dirs : Triple(v, z)[e] \in Int
  BY <1>6 DEF Triple, Entry, Dirs, Three
<1>7. PICK lb : lb = Triple(GetOr(d, "min", <<>>), Zeros)
  OBVIOUS
<1>8. \A e \in Dirs : lb[e] \in Int
  <2>1. GetOr(d, "min", <<>>) \in Seq(Int)
    BY <1>5 DEF GetOr
  <2>2. \A e \in Dirs : Zeros[e] \in Int
    BY DEF Zeros, Dirs, Three
  <2> QED
    BY <1>6, <1>7, <2>1, <2>2
<1>9. PICK ub : ub = IF Has(d, "max") THEN d.max ELSE GetOr(d, "corner", <<>>)
  OBVIOUS
<1>10. ub \in Seq(Int)
  BY <1>2, <1>5, <1>9 DEF GetOr
<1>11. \A e \in Dirs : Triple(ub, lb)[e] \in Int
  BY <1>6, <1>8, <1>10
<1>12. \A e \in Dirs : /\ Triple(q, [a \in Dirs |-> 1])[e] \in Int
                       /\ Triple(q, [a \in Dirs |-> 1])[e] <= Prime
  BY <1>4, PrimeSize DEF Triple, Entry, Dirs, Three
<1>13. CartesianFromLua = <<[ext |-> Triple(q, [a \in Dirs |-> 1]), dom |-> [min |-> lb, max |-> Triple(ub, lb)]]>>
  BY <1>1, <1>2, <1>4, <1>7, <1>9 DEF CartesianFromLua
<1> QED
  BY <1>8, <1>11, <1>12, <1>13

(* Rectangles that psi places are where it says. *)
LEMMA RectsThere == ASSUME TableRead, tbl \in Tables PROVE RectsAtPsi
<1> SUFFICES ASSUME cart # NoMesh, cart.n[0] > 1,
                    NEW i \in DOMAIN shapes, shapes[i].kind = "yz_rect", Has(ShapeTables[i], "psi")
             PROVE  LET x == cart.x[0]
                        outside == IF shapes[i].normal > 0 THEN x[1] -- shapes[i].lower[0]
                                                           ELSE shapes[i].lower[0] -- x[cart.n[0] - 2]
                    IN  outside = ShapeTables[i].psi ** cart.h[0] /\ shapes[i].upper[0] = shapes[i].lower[0]
  BY DEF RectsAtPsi
<1>1. /\ CartesianFromLua # <<>> /\ ext = CartesianFromLua[1].ext /\ dom = CartesianFromLua[1].dom
      /\ ShapesFromLua # <<>> /\ shapes = ShapesFromLua[1] /\ cart = Cartesian
  BY DEF TableRead
<1>2. PICK n \in Int, mn \in Int, mx \in Int : n = ext[0] /\ mn = dom.min[0] /\ mx = dom.max[0] /\ n <= Prime
  BY <1>1, BoundsTyped DEF Dirs
<1>3. PICK t : t = ShapeTables[i]
  OBVIOUS
<1>4. PICK psi \in Int : psi = t.psi
  BY <1>1, <1>3, ShapesList, ShapesMade
<1>5. shapes[i] = RectFromLua(t, i - 1)
  <2>1. t.type \in {"sphere", "yz_rect"} /\ shapes[i] =
                   IF t.type = "sphere" THEN SphereFromLua(t, i - 1) ELSE RectFromLua(t, i - 1)
    BY <1>1, <1>3, ShapesMade
  <2>2. SphereFromLua(t, i - 1).kind = "sphere"
    BY DEF SphereFromLua
  <2> QED
    BY <2>1, <2>2
<1>6. cart.n[0] = n /\ n > 1
  <2>1. Cartesian.n[0] = IF ext[0] > 0 THEN ext[0] ELSE 1
    BY DEF Cartesian, Dirs
  <2> QED
    BY <1>1, <1>2, <2>1
<1>7. PICK k \in 1 .. Prime - 1 : k = n - 1
  BY <1>2, <1>6, PrimeSize
<1>8. PICK d : d = mx -- mn
  OBVIOUS
<1>9. PICK h : h = d // k
  OBVIOUS
<1>10. cart.h[0] = h
  <2>1. Cartesian.h[0] = IF Cartesian.n[0] = 1 THEN NoSpacing
                         ELSE (dom.max[0] -- dom.min[0]) // (Cartesian.n[0] - 1)
    BY DEF Cartesian, Dirs
  <2> QED
    BY <1>1, <1>2, <1>6, <1>7, <1>8, <1>9, <2>1
<1>11. \A j \in 0 .. n - 1 : cart.x[0][j] = mn ++ ((j ** d) // k)
  <2>1. Cartesian.x[0] = LinearDistribute(dom.min[0], dom.max[0], Cartesian.n[0])
    BY DEF Cartesian, Dirs
  <2>2. cart.x[0] = LinearDistribute(mn, mx, n)
    BY <1>1, <1>2, <1>6, <2>1
  <2> QED
    BY <1>6, <1>7, <1>8, <2>2 DEF LinearDistribute
<1>12. PICK up : up = GetOr(t, "normal", 1)
  OBVIOUS
<1>13. PICK plane : plane = IF up > 0 THEN mn ++ ((1 -- psi) ** h) ELSE mx -- ((1 -- psi) ** h)
  OBVIOUS
<1>14. shapes[i].lower[0] = plane /\ shapes[i].upper[0] = plane /\ shapes[i].normal = up
  <2>1. RectPlane(t, h) = plane
    BY <1>2, <1>4, <1>12, <1>13 DEF RectPlane
  <2>2. (dom.max[0] -- dom.min[0]) // (ext[0] - 1) = h
    BY <1>2, <1>7, <1>8, <1>9
  <2>3. \A v, z : 0 \in DOMAIN Triple(v, z)
    BY DEF Triple, Three
  <2>4. Has(t, "psi")
    BY <1>3
  <2> QED
    BY <1>5, <1>12, <2>1, <2>2, <2>3, <2>4 DEF RectFromLua
<1>15. CASE up > 0
  <2>1. cart.x[0][1] = mn ++ ((1 ** d) // k)
    BY <1>6, <1>11
  <2>2. d \in Int
    BY <1>8, SameSelf, FieldOn
  <2>3. cart.x[0][1] -- plane = psi ** h
    BY <1>9, <1>13, <1>15, <2>1, <2>2, PsiNear
  <2> QED
    BY <1>3, <1>4, <1>10, <1>14, <1>15, <2>3
<1>16. CASE ~(up > 0)
  <2>1. cart.x[0][cart.n[0] - 2] = mn ++ (((k - 1) ** d) // k)
    <3>1. n - 2 \in 0 .. n - 1 /\ n - 2 = k - 1
      BY <1>6, <1>7
    <3> QED
      BY <1>6, <1>11, <3>1
  <2>2. plane -- cart.x[0][cart.n[0] - 2] = psi ** h
    BY <1>8, <1>9, <1>13, <1>16, <2>1, PsiFar
  <2> QED
    BY <1>3, <1>4, <1>10, <1>14, <1>16, <2>2
<1> QED
  BY <1>15, <1>16

(* Conditions are those of the shapes and of the directions that have some. *)
LEMMA ConditionsThere == ASSUME TableRead PROVE ConditionsFit
<1> SUFFICES ASSUME bcs # <<>> PROVE ConditionsFit
  BY DEF ConditionsFit
<1>1. cart # NoMesh /\ bcs = BoundariesFromLua /\ ShapesFromLua # <<>> /\ shapes = ShapesFromLua[1]
  BY DEF TableRead
<1>2. DOMAIN shapes = DOMAIN ShapeTables
  BY <1>1, ShapesMade
<1>3. PICK m : m = GetOr(tbl, "domain_boundaries", [xmin |-> "floating"])
  OBVIOUS
<1> DEFINE wall(e, j) == GetBc(m, Sides[e + 1][j], cart.n[e])
<1>4. /\ \A e \in Dirs, j \in {1, 2} : wall(e, j) # <<>>
      /\ DOMAIN BoundariesFromLua[1].obj = DOMAIN ShapeTables
      /\ \A e \in Dirs : BoundariesFromLua[1].grid[e] = [left |-> wall(e, 1)[1], right |-> wall(e, 2)[1]]
  BY <1>1, <1>3 DEF BoundariesFromLua
<1>5. ASSUME NEW side, GetBc(m, side, 1) # <<>>
      PROVE  GetBc(m, side, 1)[1] = "Floating"
  BY <1>5 DEF GetBc
<1>6. ASSUME NEW e \in Dirs, cart.n[e] = 1
      PROVE  bcs[1].grid[e] = [left |-> "Floating", right |-> "Floating"]
  <2>1. wall(e, 1)[1] = "Floating" /\ wall(e, 2)[1] = "Floating"
    BY <1>4, <1>5, <1>6
  <2> QED
    BY <1>1, <1>4, <2>1
<1> QED
  BY <1>1, <1>2, <1>4, <1>6 DEF ConditionsFit

(* A wave without a source of its own has that of the first sphere. *)
LEMMA WaveThere == ASSUME TableRead, tbl \in Tables PROVE WaveFollowsSphere
<1>0. SUFFICES ASSUME NEW i \in DOMAIN shapes, system # <<>>, system[1].kind = "scalar wave",
                    shapes[i].kind = "sphere", \A j \in 1 .. i - 1 : shapes[j].kind # "sphere",
                    ~(Has(tbl.system, "center") /\ Has(tbl.system, "radius"))
             PROVE  system[1].source = <<[center |-> shapes[i].center, radius |-> shapes[i].radius]>>
  BY DEF WaveFollowsSphere
<1>1. cart # NoMesh
  <2>1. DOMAIN shapes # {}
    BY <1>0
  <2>2. shapes # <<>>
    BY <2>1
  <2> QED
    BY <2>2 DEF TableRead
<1>2. ShapesFromLua # <<>> /\ shapes = ShapesFromLua[1] /\ system = <<Built>>
  BY <1>0, <1>1 DEF TableRead
<1>3. PICK n \in Nat : DOMAIN ShapeTables = 1 .. n /\ DOMAIN shapes = 1 .. n
  BY <1>2, ShapesList, ShapesMade
<1>4. ASSUME NEW j \in 1 .. n
      PROVE  shapes[j].kind = "sphere" <=> GetOr(ShapeTables[j], "type", "") = "sphere"
  <2>1. PICK t : t = ShapeTables[j]
    OBVIOUS
  <2>2. /\ Has(t, "type") /\ t.type \in {"sphere", "yz_rect"}
        /\ shapes[j] = IF t.type = "sphere" THEN SphereFromLua(t, j - 1) ELSE RectFromLua(t, j - 1)
    BY <1>2, <1>3, <2>1, ShapesMade
  <2>3. SphereFromLua(t, j - 1).kind = "sphere" /\ RectFromLua(t, j - 1).kind = "yz_rect"
    BY DEF SphereFromLua, RectFromLua
  <2> QED
    BY <2>1, <2>2, <2>3 DEF GetOr
<1>5. PICK spheres : spheres = {j \in DOMAIN ShapeTables : GetOr(ShapeTables[j], "type", "") = "sphere"}
  OBVIOUS
<1>11. \A j : j \in spheres <=> j \in 1 .. n /\ shapes[j].kind = "sphere"
  <2>1. \A j : j \in spheres <=> j \in 1 .. n /\ GetOr(ShapeTables[j], "type", "") = "sphere"
    BY <1>3, <1>5
  <2> QED
    BY <1>4, <2>1
<1>6. i \in spheres /\ i \in Int /\ \A j \in spheres : j \in Int /\ i <= j
  <2>1. i \in 1 .. n /\ i \in Int /\ i \in spheres
    <3>1. i \in 1 .. n
      BY <1>0, <1>3
    <3>2. shapes[i].kind = "sphere"
      BY <1>0
    <3> QED
      BY <1>11, <3>1, <3>2
  <2>2. \A j \in 1 .. i - 1 : shapes[j].kind # "sphere"
    BY <1>0
  <2>3. ASSUME NEW j \in spheres PROVE j \in Int /\ i <= j
    <3>1. j \in 1 .. n /\ shapes[j].kind = "sphere"
      BY <1>11
    <3>2. j \notin 1 .. i - 1
      BY <2>2, <3>1
    <3> QED
      BY <2>1, <3>1, <3>2
  <2> QED
    BY <2>1, <2>3
<1>7. Min(spheres) = i
  <2>1. \A x \in spheres : (\A y \in spheres : x <= y) => x = i
    BY <1>6
  <2> QED
    BY <1>6, <2>1 DEF Min
<1>8. WaveSource = <<[center |-> Triple(GetOr(ShapeTables[i], "center", <<>>), Zeros),
                      radius |-> GetOr(ShapeTables[i], "radius", 0)]>>
  BY <1>0, <1>5, <1>6, <1>7 DEF WaveSource
<1>9. shapes[i] = SphereFromLua(ShapeTables[i], i - 1)
  <2>1. GetOr(ShapeTables[i], "type", "") = "sphere"
    BY <1>0, <1>3, <1>4
  <2> QED
    BY <1>0, <1>2, <1>3, <2>1, ShapesMade DEF GetOr
<1>10. system[1].source = WaveSource
  <2>1. PICK b : b = Built
    OBVIOUS
  <2>2. system[1] = b /\ b.kind = "scalar wave"
    BY <1>0, <1>2, <2>1
  <2>3. b.kind = SystemType /\ b.source = IF SystemType = "scalar wave" THEN WaveSource ELSE <<>>
    BY <2>1, Zenon DEF Built
  <2>5. b.source = WaveSource
    BY <2>2, <2>3
  <2> QED
    BY <2>2, <2>5
<1>12. /\ shapes[i].center = Triple(GetOr(ShapeTables[i], "center", <<>>), Zeros)
       /\ shapes[i].radius = GetOr(ShapeTables[i], "radius", 0)
  BY <1>9 DEF SphereFromLua
<1> QED
  BY <1>8, <1>10, <1>12

(* What is set up is complete. *)
LEMMA CycleThere == ASSUME TableRead, tbl \in Tables, HandleInv, HandlesLead PROVE CycleComplete
<1> SUFFICES ASSUME pc \in {"built", "visit", "line"}, todo = <<>> PROVE CycleComplete
  BY DEF CycleComplete
<1>1. /\ Complete /\ controller = StepControllerFromLua /\ io = FieldIoFromLua
      /\ sample # <<>> => sample[1].parallel = IsThreadSafe(sample[1].kind)
  BY DEF TableRead
<1>2. controller[1].max_step # Unlimited \/ controller[1].max_time # Unlimited
  <2>1. Unlimited # 0
    BY ConfigurationAssumption
  <2> QED
    BY <1>1, <2>1 DEF StepControllerFromLua
<1>3. ASSUME Has(tbl, "io"), cart # NoMesh, \A e \in Dirs : ext[e] > 0
      PROVE  io[1].ext = cart.n
  <2>1. CartesianFromLua # <<>> /\ ext = CartesianFromLua[1].ext /\ cart = Cartesian
    BY <1>3 DEF TableRead
  <2>2. io[1].ext = ext
    BY <1>1, <1>3, <2>1 DEF FieldIoFromLua
  <2>3. ext = [e \in Dirs |-> ext[e]]
    BY <2>1 DEF CartesianFromLua, Triple, Three, Dirs
  <2>4. cart.n = [e \in Dirs |-> ext[e]]
    <3>1. Cartesian.n = [e \in Dirs |-> IF ext[e] > 0 THEN ext[e] ELSE 1]
      BY DEF Cartesian
    <3>2. [e \in Dirs |-> IF ext[e] > 0 THEN ext[e] ELSE 1] = [e \in Dirs |-> ext[e]]
      BY <1>3
    <3> QED
      BY <2>1, <3>1, <3>2
  <2> QED
    BY <2>2, <2>3, <2>4
<1>4. system[1].kind = "heat" <=> s["cycle"] \in Bodies
  <2>1. system # <<>>
    BY <1>1 DEF Complete
  <2>2. Held["cycle"] = "body" <=> IsHeat
    BY HeldFits DEF Fits
  <2>3. "cycle" \in Holders
    BY Named DEF Places
  <2> QED
    BY <2>1, <2>2, <2>3, HandleAssumption DEF Held, Sort, IsHeat
<1>5. sample # <<>> => ~(sample[1].kind = "lua" /\ sample[1].parallel)
  BY <1>1 DEF IsThreadSafe
<1> QED
  BY <1>1, <1>2, <1>3, <1>4, <1>5 DEF CycleComplete

(* No other handle is left. *)
LEMMA NothingElse == ASSUME HandleInv, HandlesLead PROVE NothingLeft
<1>1. OneOwner
  BY DEF HandleInv
<1>2. ASSUME pc \in {"failed", "built", "visit", "line"}, todo = <<>>, NEW x \in Holders, s[x] # Absent
      PROVE  x \in {"E2", "E4", "cycle"}
  <2>1. Only(Held, {"E2", "E4", "cycle"})
    BY <1>2, HeldFits DEF Fits, Only
  <2>2. Held[x] # "absent"
    BY <1>2, HandleAssumption DEF Held, Sort, HandleInv, HandleTypeOK
  <2> QED
    BY <2>1, <2>2 DEF Only
<1> QED
  BY <1>1, <1>2 DEF NothingLeft

(* The invariant of the set-up. *)
SetupInv == tbl \in Tables /\ HandleInv /\ HandlesLead /\ TableRead

(* It holds at first. *)
LEMMA SetupStarts == ConfigInit => SetupInv
BY NothingIsRead, LeadsFirst, HandleInitInv DEF ConfigInit, NothingRead, SetupInv
(* Every step keeps it. *)
LEMMA SetupStep == SetupInv /\ [ConfigNext]_configVars => SetupInv'
BY TableStays, TableStep, LeadsStep, HandleStepInv DEF SetupInv

(* Whatever a table gives: what is set up is what it describes, and every  *)
(* handle has its owner and is gone when nobody needs it.                  *)
THEOREM SetupStaysSound == ConfigSpec => []SetupSound
<1>1. ConfigInit => SetupInv
  BY SetupStarts
<1>2. SetupInv /\ [ConfigNext]_configVars => SetupInv'
  BY SetupStep
<1>3. SetupInv => SetupSound
  BY RectsThere, ConditionsThere, WaveThere, CycleThere, NothingElse DEF SetupInv, SetupSound
<1> QED
  BY <1>1, <1>2, <1>3, PTL DEF ConfigSpec

(* The handles of a set-up behave as values: what one function does with   *)
(* its own changes no other's.                                             *)
THEOREM SetupUsesValues == ConfigSpec => HandlesAreValues
<1>1. ConfigInit => Values!Init
  BY HandleAssumption DEF ConfigInit, NothingRead, HandleInit, Values!Init, Value
<1>2. SetupInv /\ [ConfigNext]_configVars => [Values!Next]_Value
  BY LeadsStep, HandleStepRefines DEF SetupInv
<1> QED
  BY <1>1, <1>2, SetupStarts, SetupStep, PTL DEF ConfigSpec, HandlesAreValues, Values!Spec
=============================================================================
