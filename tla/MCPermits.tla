----------------------------- MODULE MCPermits -----------------------------
(* SessionWrites and, below it, PermitBatcher for TLC.  In a behaviour       *)
(* either two calls of acquire() are made, over the contract of the store,   *)
(* or three changes are asked of the batcher that keeps this contract; the   *)
(* other module rests.                                                       *)
EXTENDS SessionWrites, PermitBatcher

\* c1 and c2 want session s1, c3 wants session s2: c1 and c2 compete for one
\* session, c1 and c3, of different sessions, for the one slot.
CONSTANTS c1, c2, c3, o1, s1, s2
OneOwner == [c \in Calls |-> o1]
TwoSessions == [c \in Calls |-> IF c = c3 THEN s2 ELSE s1]
Pairs == {{c1, c2}, {c1, c3}}

\* Two of the changes are for one namespace.
CONSTANTS ra, rb, rc, n1, n2
NsOf == [r \in Requests |-> IF r = rc THEN n2 ELSE n1]

VARIABLE turn   \* the pair of calls, or {} for the batcher

PermitsInit == InitWrites /\ BatcherInit /\ turn \in Pairs \cup {{}}

PermitsNext ==
  /\ \/ turn # {} /\ NextWrites /\ UNCHANGED batcherVars
     \/ turn = {} /\ BatcherNext /\ UNCHANGED allVars
  /\ \A c \in Calls \ turn : phase'[c] = phase[c]
  /\ UNCHANGED turn

PermitsSpec ==
  /\ PermitsInit /\ [][PermitsNext]_<<allVars, batcherVars, turn>>
  /\ \/ []<>(turn # {}) /\ Fairness
     \/ []<>(turn = {}) /\ BatcherFairness
=============================================================================
