---------------------------- MODULE ValueHandle -----------------------------
(***************************************************************************)
(* The polymorphic handles stencil, manufactured_solution and shape: a     *)
(* class with one pointer s to an implementation on the heap that it owns, *)
(* copied by clone and moved by std::exchange.  The three classes are      *)
(* alike; the operations are those of manufactured_solution.               *)
(*                                                                         *)
(* Not modelled: a handle moved to itself, which no caller does; it would  *)
(* be left with a pointer to what it has deleted.                          *)
(***************************************************************************)
CONSTANTS
  Holders,      \* places for handles: members, locals, parameters
  Bodies,       \* the implementations that the heap has room for
  Contents,     \* what an implementation can hold
  Absent, Null, \* no handle in the place; a handle with a null pointer
  Free          \* content of an implementation that does not exist

ASSUME HandleAssumption ==
  /\ Absent \notin Bodies /\ Null \notin Bodies /\ Absent # Null
  /\ Absent \notin Contents /\ Null \notin Contents /\ Free \notin Contents

VARIABLES s, impl

handleVars == <<s, impl>>

HandleTypeOK ==
  /\ s \in [Holders -> Bodies \cup {Absent, Null}]
  /\ impl \in [Bodies -> Contents \cup {Free}]

HandleInit ==
  /\ s = [x \in Holders |-> Absent]
  /\ impl = [b \in Bodies |-> Free]

(* delete of a pointer, which may be null. *)
Deleted(heap, p) == [b \in Bodies |-> IF b = p THEN Free ELSE heap[b]]

DefaultConstruct(x) ==
  /\ s[x] = Absent
  /\ s' = [s EXCEPT ![x] = Null] /\ UNCHANGED impl

(* From an implementation: new any_sol_impl. *)
Construct(x, c) ==
  /\ s[x] = Absent
  /\ \E b \in Bodies :
       /\ impl[b] = Free
       /\ s' = [s EXCEPT ![x] = b] /\ impl' = [impl EXCEPT ![b] = c]

CopyConstruct(x, y) ==
  /\ s[x] = Absent /\ s[y] # Absent
  /\ \/ /\ s[y] = Null
        /\ s' = [s EXCEPT ![x] = Null] /\ UNCHANGED impl
     \/ \E b \in Bodies :
          /\ s[y] # Null /\ impl[b] = Free
          /\ s' = [s EXCEPT ![x] = b] /\ impl' = [impl EXCEPT ![b] = impl[s[y]]]

(* Fault: the pointer stays in the handle moved from. *)
MoveConstruct_Shares(x, y) ==
  /\ s[x] = Absent /\ s[y] # Absent
  /\ s' = [s EXCEPT ![x] = s[y]] /\ UNCHANGED impl
MoveConstruct(x, y) ==
  /\ s[x] = Absent /\ s[y] # Absent
  /\ s' = [s EXCEPT ![x] = s[y], ![y] = Null] /\ UNCHANGED impl

(* A copy is made, swapped in, and takes what was there away. *)
CopyAssign(x, y) ==
  /\ s[x] # Absent /\ s[y] # Absent
  /\ \/ /\ s[y] = Null
        /\ s' = [s EXCEPT ![x] = Null] /\ impl' = Deleted(impl, s[x])
     \/ \E b \in Bodies :
          /\ s[y] # Null /\ impl[b] = Free
          /\ s' = [s EXCEPT ![x] = b]
          /\ impl' = Deleted([impl EXCEPT ![b] = impl[s[y]]], s[x])

MoveAssign(x, y) ==
  /\ x # y /\ s[x] # Absent /\ s[y] # Absent
  /\ s' = [s EXCEPT ![x] = s[y], ![y] = Null] /\ impl' = Deleted(impl, s[x])

Swap(x, y) ==
  /\ s[x] # Absent /\ s[y] # Absent
  /\ s' = [s EXCEPT ![x] = s[y], ![y] = s[x]] /\ UNCHANGED impl

Destroy(x) ==
  /\ s[x] # Absent
  /\ s' = [s EXCEPT ![x] = Absent] /\ impl' = Deleted(impl, s[x])

HandleNext == \E x, y \in Holders :
  \/ DefaultConstruct(x) \/ \E c \in Contents : Construct(x, c)
  \/ CopyConstruct(x, y) \/ MoveConstruct(x, y)
  \/ CopyAssign(x, y) \/ MoveAssign(x, y) \/ Swap(x, y) \/ Destroy(x)

HandleSpec == HandleInit /\ [][HandleNext]_handleVars

-----------------------------------------------------------------------------
(* An implementation has exactly one owner while it exists: none is        *)
(* deleted twice, used after its end or lost.                              *)
NoneShared == \A x, y \in Holders : s[x] \in Bodies /\ s[x] = s[y] => x = y
NoneDangling == \A x \in Holders : s[x] \in Bodies => impl[s[x]] # Free
NoneLost == \A b \in Bodies : impl[b] # Free => \E x \in Holders : s[x] = b
OneOwner == NoneShared /\ NoneDangling /\ NoneLost

(* A handle as a value: what its implementation holds. *)
Value == [x \in Holders |-> IF s[x] \in Bodies THEN impl[s[x]] ELSE s[x]]
Values == INSTANCE ValueSemantics WITH value <- Value

(* Handles behave as values. *)
HandlesAreValues == Values!Spec
=============================================================================
