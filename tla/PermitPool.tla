---------------------------- MODULE PermitPool ----------------------------
(***************************************************************************)
(* What server/src/scheduling/permits.ts promises its callers: a pool of   *)
(* permits.  At most Running calls hold one, and when the policy says      *)
(* exclusiveResource no two of them hold one for the same resource.        *)
(***************************************************************************)
EXTENDS Integers, FiniteSets

CONSTANTS Calls, ResourceOf, Running, Exclusive

VARIABLE held   \* the calls that hold a permit

Init == held = {}

Compatible(c) == Exclusive => \A d \in held : ResourceOf[d] # ResourceOf[c]

Grant(c) ==
  /\ c \notin held
  /\ Compatible(c)
  /\ Cardinality(held \cup {c}) <= Running
  /\ held' = held \cup {c}

Withdraw(c) ==
  /\ c \in held
  /\ held' = held \ {c}

Next == \E c \in Calls : Grant(c) \/ Withdraw(c)

Spec == Init /\ [][Next]_held
=============================================================================
