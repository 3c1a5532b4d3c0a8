--------------------------- MODULE MCFieldRegistry ---------------------------
(* Two slots of a scalar and a vector, with and without points on the rays *)
(* in x.                                                                   *)
EXTENDS FieldRegistry

Cut == [c \in Components |-> 1 + c]
Uncut == [c \in Components |-> IF c = 1 THEN 0 ELSE 1 + c]
MCSizes == {Cut, Uncut}
=============================================================================
