------------------------ MODULE MCCapacityPermits ------------------------
(* CapacityPermits for TLC: chat lanes, two calls of owner o1 and one of o2. *)
EXTENDS CapacityPermits

CONSTANTS c1, c2, c3, o1, o2, s1, s2

TwoOwners == [c \in Calls |-> IF c = c3 THEN o2 ELSE o1]
TwoSessions == [c \in Calls |-> IF c = c3 THEN s2 ELSE s1]
=============================================================================
