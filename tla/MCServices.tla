---------------------------- MODULE MCServices ----------------------------
(* Services that share nothing but the database, for TLC: in a behaviour one *)
(* of them is at work, fairly, and the others rest in their initial states.  *)
EXTENDS ProviderBudget, MemoryWork, SnapshotRetention

\* Model calls, of which two are for one task.
CONSTANTS m1, m2, m3, t1, t2
Tasks == [c \in ModelCalls |-> IF c = m3 THEN t2 ELSE t1]
Estimates == [c \in ModelCalls |-> 2]

\* Messages, of which two are in one project; each mix bounds the texts written,
\* the changes of the profile and the leases that run out.
CONSTANTS x1, x2, y1, p1, p2, w1, w2
Where == [m \in Messages |-> IF m = y1 THEN p2 ELSE p1]
Mix(t, c, m) == [texts |-> t, changes |-> c, misses |-> m]
Mixes == {Mix(3, 0, 1), Mix(3, 1, 0), Mix(2, 1, 1)}

\* Readers of snapshots.
CONSTANTS d1, d2

VARIABLE service

ServicesInit ==
  /\ BudgetInit /\ MemoryInit /\ RetentionInit
  /\ service \in {"budget", "memory", "snapshots"}
  /\ service = "memory" \/ left = Mix(2, 1, 1)

ServicesNext ==
  /\ \/ service = "budget" /\ BudgetNext /\ UNCHANGED <<memoryVars, retentionVars>>
     \/ service = "memory" /\ MemoryNext /\ UNCHANGED <<budgetVars, retentionVars>>
     \/ service = "snapshots" /\ RetentionNext /\ UNCHANGED <<budgetVars, memoryVars>>
  /\ UNCHANGED service

ServicesSpec ==
  /\ ServicesInit
  /\ [][ServicesNext]_<<budgetVars, memoryVars, retentionVars, service>>
  /\ \/ []<>(service = "budget") /\ BudgetFairness
     \/ []<>(service = "memory") /\ MemoryFairness
     \/ []<>(service = "snapshots") /\ RetentionFairness
=============================================================================
