---------------------------- MODULE PermitStore ----------------------------
(***************************************************************************)
(* What CapacityPermits takes change() of a permit store to be: a change   *)
(* takes effect at most once, it is answered with success only when it has *)
(* taken effect, and one that was given up may still take effect later.    *)
(***************************************************************************)
CONSTANT Requests

\* "asked": not answered and without effect; "applied": with effect, not
\* answered; "orphan": given up, may still take effect; "late": it did.
VARIABLE change

Ended == {"none", "done", "failed", "late"}
Open == {"asked", "applied", "orphan"}

Init == change = [r \in Requests |-> "none"]

\* An ended request makes room for another change.
Moves(old, new) ==
  \/ old = new
  \/ old \in Ended /\ new \in {"asked", "failed"}
  \/ old = "asked" /\ new \in {"applied", "orphan", "failed"}
  \/ old = "applied" /\ new \in {"done", "late"}
  \/ old = "orphan" /\ new \in {"late", "failed"}

\* Changes are applied and answered in batches.
Next ==
  /\ change' \in [Requests -> Ended \cup Open]
  /\ \A r \in Requests : Moves(change[r], change'[r])

Spec == Init /\ [][Next]_change
=============================================================================
