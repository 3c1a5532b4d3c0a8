--------------------------- MODULE ValueSemantics ---------------------------
(***************************************************************************)
(* What a polymorphic handle promises: it behaves as a value.  A variable  *)
(* does not exist (Absent), is empty, or has a value of its own; an        *)
(* operation on one variable changes no other, but for a move, which       *)
(* empties what it moves from.                                             *)
(***************************************************************************)
CONSTANTS Holders, Contents, Absent, Null

VARIABLE value

ValueTypeOK == value \in [Holders -> Contents \cup {Absent, Null}]

Init == value = [x \in Holders |-> Absent]

Assign(x, v) == value' = [value EXCEPT ![x] = v]
Create(x) == value[x] = Absent /\ \E v \in Contents \cup {Null} : Assign(x, v)
Copy(x, y) == value[y] # Absent /\ Assign(x, value[y])
Move(x, y) ==
  x # y /\ value[y] # Absent /\ value' = [value EXCEPT ![x] = value[y], ![y] = Null]
Exchange(x, y) ==
  /\ value[x] # Absent /\ value[y] # Absent
  /\ value' = [value EXCEPT ![x] = value[y], ![y] = value[x]]
Destroy(x) == value[x] # Absent /\ Assign(x, Absent)

Next == \E x, y \in Holders :
  Create(x) \/ Copy(x, y) \/ Move(x, y) \/ Exchange(x, y) \/ Destroy(x)

Spec == Init /\ [][Next]_value
=============================================================================
