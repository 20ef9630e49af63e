--------------------------- MODULE ProviderBudget ---------------------------
(***************************************************************************)
(* server/src/agent/provider-budget.ts with the settlement of              *)
(* agent/model-runtime.ts and services/provider-budget-recovery.ts: money  *)
(* for calls of a model is reserved in provider_usage_events before a call *)
(* and settled after it.  Reservations are made under one lock; reports    *)
(* and the recovery of abandoned reservations are single updates beside.   *)
(*                                                                         *)
(* The calls are those of one business on one day: they share the daily    *)
(* budget, and the calls of a repository update its own.                   *)
(***************************************************************************)
EXTENDS Integers, FiniteSets

CONSTANTS
  ModelCalls,
  TaskOf,          \* taskId of each call
  Capped,          \* the tasks that are repository updates
  Estimate,        \* the reservation of each call
  Costs,           \* what a call may cost in the end
  DailyLimit, TaskLimit,
  Attempts,        \* how often a report is sent
  MaxFaults        \* bound: processes that die or stall

ASSUME BudgetAssumption ==
  /\ "nobody" \notin ModelCalls
  /\ \A c \in ModelCalls : Estimate[c] \in Nat
  /\ Costs \subseteq Nat /\ DailyLimit \in Nat /\ TaskLimit \in Nat
  /\ Attempts \in Nat \ {0} /\ MaxFaults \in Nat

VARIABLES
  \* per call: "asking", "checked", "calling", "reporting", "ended", "dead", and,
  \* when it is refused, "exceeded" or "busy"
  stage,
  report,       \* per call: the cost it reports, or Unknown
  tries,        \* per call: reports sent
  permit,       \* per call: "live" or "gone", its row of runtime_permits
  event,        \* per call: its row of provider_usage_events
  ledgerLock,   \* the holder of provider-budget-global, or Nobody
  \* history
  gated,        \* the calls that had to fit the budgets
  faults

budgetVars == <<stage, report, tries, permit, event, ledgerLock, gated, faults>>

Unknown == -1   \* no usage reported
Nobody == "nobody"

\* charge is GREATEST(reserved_cost_usd, cost_usd).  "recovered": failed, lease_expired.
Event(status, charge) == [status |-> status, charge |-> charge]
NoEvent == Event("none", 0)

BudgetInit ==
  /\ stage = [c \in ModelCalls |-> "asking"]
  /\ report = [c \in ModelCalls |-> Unknown]
  /\ tries = [c \in ModelCalls |-> 0]
  /\ permit = [c \in ModelCalls |-> "live"]
  /\ event = [c \in ModelCalls |-> NoEvent]
  /\ ledgerLock = Nobody /\ gated = {} /\ faults = 0

-----------------------------------------------------------------------------
(* Admission.                                                              *)

Booked == {c \in ModelCalls : event[c].status # "none"}
Closed == {c \in Booked : event[c].status # "reserved"}

\* A sum counts units of money: those of each call that has an amount.
Units(amount) == UNION {{c} \X (1 .. amount[c]) : c \in DOMAIN amount}
Total(amount) == Cardinality(Units(amount))

Sum(calls) == Total([c \in calls |-> event[c].charge])
OfTask(t) == {c \in ModelCalls : TaskOf[c] = t}

\* A task is admitted once, with its first call.
Admitted(c) == Booked \cap OfTask(TaskOf[c]) # {}

\* The budgets a call must fit: the other calls that count, and the limit.
Budgets(c) ==
  IF Admitted(c) THEN {}
  ELSE {[calls |-> Booked, limit |-> DailyLimit]}
       \cup IF TaskOf[c] \in Capped
            THEN {[calls |-> Booked \cap OfTask(TaskOf[c]), limit |-> TaskLimit]} ELSE {}

Fits(c, b) == b.limit > 0 /\ Sum(b.calls) + Estimate[c] <= b.limit

\* Only reservations of other calls are in the way.
MayFit(c, b) == b.limit > 0 /\ Sum(b.calls \cap Closed) + Estimate[c] <= b.limit

\* Mutant: nothing keeps two calls from adding up at the same time.
UnlockedAlways == TRUE

Unlocked == ledgerLock = Nobody

\* acquireOnce() up to the INSERT.  A call that must wait ends its transaction
\* and asks again.
Check(c) ==
  /\ stage[c] = "asking" /\ Unlocked
  /\ IF \A b \in Budgets(c) : Fits(c, b)
     THEN /\ stage' = [stage EXCEPT ![c] = "checked"]
          /\ ledgerLock' = c
          /\ gated' = IF Admitted(c) THEN gated ELSE gated \cup {c}
     ELSE /\ \E b \in Budgets(c) : ~MayFit(c, b)
          /\ stage' = [stage EXCEPT ![c] = "exceeded"]
          /\ UNCHANGED <<ledgerLock, gated>>
  /\ UNCHANGED <<report, tries, permit, event, faults>>

\* waitForReservation() ends at its deadline, with a call that is still busy.
StopWaiting(c) ==
  /\ stage[c] = "asking" /\ Unlocked
  /\ \E b \in Budgets(c) : ~Fits(c, b)
  /\ \A b \in Budgets(c) : MayFit(c, b)
  /\ stage' = [stage EXCEPT ![c] = "busy"]
  /\ UNCHANGED <<report, tries, permit, event, ledgerLock, gated, faults>>

FreeLock(c) == ledgerLock' = IF ledgerLock = c THEN Nobody ELSE ledgerLock

\* The COMMIT of the reservation; its answer may be lost, and with it the event_id.
Reserve(c) ==
  /\ stage[c] = "checked"
  /\ event' = [event EXCEPT ![c] = Event("reserved", Estimate[c])]
  /\ FreeLock(c)
  /\ \E outcome \in {"calling", "ended"} :
       /\ stage' = [stage EXCEPT ![c] = outcome]
       /\ permit' = [permit EXCEPT ![c] = IF outcome = "ended" THEN "gone" ELSE @]
  /\ UNCHANGED <<report, tries, gated, faults>>

-----------------------------------------------------------------------------
(* The call and its settlement.                                            *)

\* usageReport(): a call that was not started, or was rejected, cost nothing.
Return(c) ==
  /\ stage[c] = "calling"
  /\ \E r \in Costs \cup {0, Unknown} : report' = [report EXCEPT ![c] = r]
  /\ stage' = [stage EXCEPT ![c] = "reporting"]
  /\ UNCHANGED <<tries, permit, event, ledgerLock, gated, faults>>

\* Mutant: whatever has been settled stays, also by the recovery.
ReportableReserved(c) == event[c].status = "reserved"

\* The guard of the UPDATE of release(): a report counts once, and a known one
\* also after the reservation was recovered.
Reportable(c) ==
  \/ event[c].status = "reserved"
  \/ event[c].status = "recovered" /\ report[c] # Unknown

\* Mutant: an unknown cost is no cost.
SettledForNothing(c) ==
  IF report[c] = Unknown THEN Event("unknown", 0) ELSE Event("known", report[c])

Settled(c) ==
  IF report[c] = Unknown THEN Event("unknown", event[c].charge) ELSE Event("known", report[c])

\* release(): committed or not, answered or not; it is tried Attempts times.
Report(c) ==
  /\ stage[c] = "reporting"
  /\ \E committed, answered \in BOOLEAN :
       /\ answered => committed
       /\ event' = IF committed /\ Reportable(c) THEN [event EXCEPT ![c] = Settled(c)] ELSE event
       /\ IF answered \/ tries[c] = Attempts - 1
          THEN /\ stage' = [stage EXCEPT ![c] = "ended"]
               /\ permit' = [permit EXCEPT ![c] = "gone"]
               /\ tries' = [tries EXCEPT ![c] = IF answered THEN @ ELSE Attempts]
          ELSE tries' = [tries EXCEPT ![c] = @ + 1] /\ UNCHANGED <<stage, permit>>
  /\ UNCHANGED <<report, ledgerLock, gated, faults>>

-----------------------------------------------------------------------------
(* Faults and recovery.                                                    *)

\* The process dies.
Fall(c) ==
  /\ stage[c] \in {"asking", "checked", "calling", "reporting"}
  /\ faults < MaxFaults /\ faults' = faults + 1
  /\ stage' = [stage EXCEPT ![c] = "dead"]
  /\ FreeLock(c)
  /\ UNCHANGED <<report, tries, permit, event, gated>>

\* The permit runs out, because its process is dead or stalls; in the second case
\* the watchdog ends the call later, and its report may still come.
Expire(c) ==
  /\ permit[c] = "live"
  /\ \/ stage[c] = "dead" /\ faults' = faults
     \/ stage[c] \in {"calling", "reporting"} /\ faults < MaxFaults /\ faults' = faults + 1
  /\ permit' = [permit EXCEPT ![c] = "gone"]
  /\ UNCHANGED <<stage, report, tries, event, ledgerLock, gated>>

\* Its age, RECOVERY_AGE, is left out: the permit is what counts.
Abandoned(c) == event[c].status = "reserved" /\ permit[c] = "gone"

\* recoverExpiredProviderReservations(), run every minute.
Recover(c) ==
  /\ Abandoned(c)
  /\ event' = [event EXCEPT ![c].status = "recovered"]
  /\ UNCHANGED <<stage, report, tries, permit, ledgerLock, gated, faults>>

-----------------------------------------------------------------------------
BudgetNext ==
  \E c \in ModelCalls :
    \/ Check(c) \/ StopWaiting(c) \/ Reserve(c) \/ Return(c) \/ Report(c)
    \/ Fall(c) \/ Expire(c) \/ Recover(c)

\* Calls have time limits, the permits of the dead run out, and the scheduler
\* sweeps every minute.
BudgetFairness ==
  \A c \in ModelCalls :
    /\ WF_budgetVars(Reserve(c) \/ Return(c) \/ Report(c))
    /\ WF_budgetVars(stage[c] = "dead" /\ Expire(c))
    /\ WF_budgetVars(Recover(c))

BudgetSpec == BudgetInit /\ [][BudgetNext]_budgetVars /\ BudgetFairness

-----------------------------------------------------------------------------
(* Properties.                                                             *)

Stages == {"asking", "checked", "calling", "reporting", "ended", "dead", "exceeded", "busy"}

BudgetTypeOK ==
  /\ stage \in [ModelCalls -> Stages]
  /\ report \in [ModelCalls -> Costs \cup {0, Unknown}]
  /\ tries \in [ModelCalls -> 0..Attempts]
  /\ permit \in [ModelCalls -> {"live", "gone"}]
  /\ event \in [ModelCalls -> [status : {"none", "reserved", "known", "unknown", "recovered"}, charge : Nat]]
  /\ gated \subseteq ModelCalls /\ faults \in 0..MaxFaults
  /\ ledgerLock \in ModelCalls \cup {Nobody}

Least(a, b) == IF a < b THEN a ELSE b

\* However many processes reserve at the same time, the first calls of all tasks
\* together stay within the daily limit, as far as they were estimated: the sums
\* of acquireOnce() are still good when the reservation is committed.  (What a call
\* costs beyond its estimate, and the further calls of an admitted task, may exceed it.)
AdmittedWithinLimit ==
  Total([c \in gated \cap Booked |-> Least(event[c].charge, Estimate[c])]) <= DailyLimit

\* The books tell the truth about a call whose report was acknowledged: its cost if
\* it is known, even if the recovery had settled it before, and the whole
\* reservation otherwise; nothing that comes later changes it.
BooksTruthful ==
  \A c \in ModelCalls :
    stage[c] = "ended" /\ tries[c] < Attempts =>
      event[c].charge = IF report[c] = Unknown THEN Estimate[c] ELSE report[c]

=============================================================================
