------------------------ MODULE ResourceAdmission ------------------------
(***************************************************************************)
(* server/src/scheduling/resources.ts: ResourceScheduler.  Stages and      *)
(* model calls ask for units of several named resources at once (a slot    *)
(* and memory, a model slot and an upstream slot) and get all of them or   *)
(* wait.  promoteResources decides who runs after every change.            *)
(*                                                                         *)
(* The leases of live callers work as in CapacityPermits and are not       *)
(* repeated here: a row outlives its caller only when the caller crashes,  *)
(* until its lease lapses.  A change and its answer are one step.          *)
(***************************************************************************)
EXTENDS Integers, FiniteSets

CONSTANTS
  Jobs,          \* callers of acquire(); without a row, a job stands for a fresh UUID
  OwnerOf,       \* input.owner of each job
  TaskOf,        \* input.task of each job
  Demands,       \* input.demands of each job: resource -> [units, limit, ceiling]
  Fallible,      \* jobs whose process may crash
  Patient,       \* jobs without a waitMs: they wait until they are granted
  MaxRows,       \* the 4096 rows of the metadata queue
  MaxOwnerWaiting

NoCeiling == 0   \* backgroundCeiling === undefined

ASSUME DemandsAssumption ==
  /\ Patient \subseteq Jobs /\ Fallible \subseteq Jobs
  /\ \A j \in Jobs : \A n \in DOMAIN Demands[j] :
       LET d == Demands[j][n] IN
       /\ d.units \in Nat \ {0} /\ d.limit \in Nat /\ d.ceiling \in Nat
       /\ d.units <= d.limit

VARIABLES
  rows,    \* the rows of the namespace
  phase    \* where each caller stands

vars == <<rows, phase>>

NoRow == [state |-> "none", behind |-> {}, aged |-> FALSE, late |-> FALSE, lapsed |-> FALSE]

\* `aged`: enqueued 10 s ago or 32 orders behind; `late`: past its deadline;
\* `lapsed`: past its lease; `behind`: the rows with a smaller order.
Row == [state : {"none", "waiting", "running"}, behind : SUBSET Jobs,
        aged : BOOLEAN, late : BOOLEAN, lapsed : BOOLEAN]

Names(j) == DOMAIN Demands[j]
Background(j) == \E n \in Names(j) : Demands[j][n].ceiling # NoCeiling
InState(rs, s) == {j \in Jobs : rs[j].state = s}
Present(rs) == {j \in Jobs : rs[j].state # "none"}

Keep(rs, kept) ==
  [j \in Jobs |-> IF j \in kept THEN [rs[j] EXCEPT !.behind = @ \cap kept] ELSE NoRow]

Unexpired(rs) == Keep(rs, {j \in Present(rs) : ~rs[j].lapsed})

-----------------------------------------------------------------------------
(* promoteResources()                                                        *)

Holding(running, n) == {j \in running : n \in Names(j)}
Units(running, n) == UNION {{j} \X (1 .. Demands[j][n].units) : j \in Holding(running, n)}
Used(running, n) == Cardinality(Units(running, n))

OwnerShares(running, j) ==
  Cardinality({k \in running : OwnerOf[k] = OwnerOf[j] /\ Names(k) \cap Names(j) # {}})
TaskShares(running, j) ==
  Cardinality({k \in running : /\ OwnerOf[k] = OwnerOf[j] /\ TaskOf[k] = TaskOf[j]
                               /\ Names(k) \cap Names(j) # {}})

\* The comparison of the sort: users, fewer owner shares, fewer task shares, order.
Precedes(rs, running, j, k) ==
  LET dOwner == OwnerShares(running, j) - OwnerShares(running, k)
      dTask == TaskShares(running, j) - TaskShares(running, k)
  IN \/ ~Background(j) /\ Background(k)
     \/ /\ Background(j) <=> Background(k)
        /\ \/ dOwner < 0
           \/ dOwner = 0 /\ dTask < 0
           \/ dOwner = 0 /\ dTask = 0 /\ j \in rs[k].behind

\* A user demand for n that is not granted yet: background work stands back.
UserWaiting(pending, running, n) ==
  \E j \in pending \ running : ~Background(j) /\ n \in Names(j)

\* Mutant: background work does not stand back for waiting users.
FitsPastUsers(pending, pass, j, n) ==
  LET d == Demands[j][n] used == Used(pass.running, n) IN
  /\ n \notin pass.reserved
  /\ used + d.units <= d.limit
  /\ d.ceiling # NoCeiling => used + d.units <= d.ceiling \/ used = 0

Fits(pending, pass, j, n) ==
  LET d == Demands[j][n] used == Used(pass.running, n) IN
  /\ n \notin pass.reserved
  /\ used + d.units <= d.limit
  /\ d.ceiling # NoCeiling
       => ~UserWaiting(pending, pass.running, n) /\ (used + d.units <= d.ceiling \/ used = 0)

\* Mutant: every waiting user reserves, aged or not.
TakenReservingYoung(rs, pending, pass, j) ==
  LET rest == [pass EXCEPT !.waiting = @ \ {j}] IN
  IF \A n \in Names(j) : Fits(pending, pass, j, n)
  THEN [rest EXCEPT !.running = @ \cup {j}]
  ELSE IF ~Background(j)
       THEN [rest EXCEPT !.reserved = @ \cup Names(j)]
       ELSE rest

\* Mutant: no waiter ever reserves.
TakenNeverReserving(rs, pending, pass, j) ==
  LET rest == [pass EXCEPT !.waiting = @ \ {j}] IN
  IF \A n \in Names(j) : Fits(pending, pass, j, n)
  THEN [rest EXCEPT !.running = @ \cup {j}]
  ELSE rest

\* One turn of the loop: the first waiting row runs, reserves or is passed over.
Taken(rs, pending, pass, j) ==
  LET rest == [pass EXCEPT !.waiting = @ \ {j}] IN
  IF \A n \in Names(j) : Fits(pending, pass, j, n)
  THEN [rest EXCEPT !.running = @ \cup {j}]
  ELSE IF ~Background(j) /\ rs[j].aged
       THEN [rest EXCEPT !.reserved = @ \cup Names(j)]
       ELSE rest

\* Mutant: the rows are sorted once, by the shares before the loop.
TurnSortedOnce(rs, pending, pass) ==
  LET first == {j \in pass.waiting :
                  \A k \in pass.waiting \ {j} : Precedes(rs, InState(rs, "running"), j, k)}
  IN CHOOSE next \in {Taken(rs, pending, pass, j) : j \in first} : TRUE

Turn(rs, pending, pass) ==
  LET first == {j \in pass.waiting :
                  \A k \in pass.waiting \ {j} : Precedes(rs, pass.running, j, k)}
  IN CHOOSE next \in {Taken(rs, pending, pass, j) : j \in first} : TRUE

\* The loop takes every pending row once; passes[k] is what it has decided by then.
Passes(rs, pending) ==
  LET passes[k \in 0..Cardinality(pending)] ==
        IF k = 0 THEN [waiting |-> pending, running |-> InState(rs, "running"), reserved |-> {}]
        ELSE CHOOSE next \in {Turn(rs, pending, last) : last \in {passes[k - 1]}} : TRUE
  IN passes

RunningAfter(rs, pending) == Passes(rs, pending)[Cardinality(pending)].running

Pending(rs) == {j \in InState(rs, "waiting") : ~rs[j].late}

\* The tail of every change: promoteResources on the rows it leaves.
Promote(changed) ==
  \E rs \in {changed} :
    \E pending \in {Pending(rs)} :
      \E running \in {RunningAfter(rs, pending)} :
        rows' = [j \in Jobs |->
                   IF j \in running THEN [rs[j] EXCEPT !.state = "running"] ELSE rs[j]]

-----------------------------------------------------------------------------
Init ==
  /\ rows = [j \in Jobs |-> NoRow]
  /\ phase = [j \in Jobs |-> "idle"]

\* The first change refuses a job: nothing is stored.
Overloaded(rs, j) ==
  \/ Cardinality(Present(rs)) >= MaxRows
  \/ Cardinality({k \in InState(rs, "waiting") : OwnerOf[k] = OwnerOf[j]}) >= MaxOwnerWaiting

\* Mutant: capacities configured differently are not noticed.
NeverMismatched(rs, j) == FALSE

Mismatched(rs, j) ==
  \E k \in Present(rs) : \E n \in Names(j) \cap Names(k) : Demands[k][n].limit # Demands[j][n].limit

Enqueued(rs, j) ==
  [rs EXCEPT ![j] = [NoRow EXCEPT !.state = "waiting", !.behind = Present(rs)]]

\* After a successful change a caller holds or waits as its row says.
Request(j) ==
  /\ phase[j] = "idle" /\ (rows[j] = NoRow \/ rows[j].lapsed)
  /\ ~Overloaded(Unexpired(rows), j) /\ ~Mismatched(Unexpired(rows), j)
  /\ Promote(Enqueued(Unexpired(rows), j))
  /\ phase' = [phase EXCEPT ![j] = rows'[j].state]

\* Polls of a waiter and renewals of a holder both prune and promote.
Refresh(j) ==
  /\ phase[j] \in {"waiting", "running"}
  /\ phase[j] = "waiting" => ~(rows[j].state = "waiting" /\ rows[j].late)
  /\ Promote(Unexpired(rows))
  /\ phase' = [phase EXCEPT ![j] = rows'[j].state]

\* release(): the row is deleted, and nobody is promoted until the next change.
Leave(j) ==
  /\ rows' = Keep(rows, Present(rows) \ {j})
  /\ phase' = [phase EXCEPT ![j] = "idle"]

Finish(j) == phase[j] = "running" /\ Leave(j)
Cancel(j) == phase[j] = "waiting" /\ Leave(j)
TimeOut(j) == phase[j] = "waiting" /\ rows[j].state = "waiting" /\ rows[j].late /\ Leave(j)

\* The process dies, or release fails: the row stays until its lease lapses.
Crash(j) ==
  /\ j \in Fallible /\ phase[j] \in {"waiting", "running"}
  /\ phase' = [phase EXCEPT ![j] = "idle"]
  /\ UNCHANGED rows

Lapse(j) ==
  /\ phase[j] = "idle" /\ rows[j].state # "none" /\ ~rows[j].lapsed
  /\ rows' = [rows EXCEPT ![j].lapsed = TRUE]
  /\ UNCHANGED phase

\* Time: a waiting row ages, and passes the deadline of a job that has one.
Age(j) ==
  /\ rows[j].state = "waiting" /\ ~rows[j].aged
  /\ rows' = [rows EXCEPT ![j].aged = TRUE]
  /\ UNCHANGED phase

PassDeadline(j) ==
  /\ rows[j].state = "waiting" /\ ~rows[j].late /\ j \notin Patient
  /\ rows' = [rows EXCEPT ![j].late = TRUE]
  /\ UNCHANGED phase

Step(j) ==
  \/ Request(j) \/ Refresh(j) \/ Finish(j) \/ Cancel(j) \/ TimeOut(j)
  \/ Crash(j) \/ Lapse(j) \/ Age(j) \/ PassDeadline(j)

Next == \E j \in Jobs : Step(j)

Spec == Init /\ [][Next]_vars

\* Callers poll, executions end, leases lapse and rows age; nobody has to ask,
\* to cancel or to crash.
Fair(j) ==
  /\ WF_vars(Refresh(j)) /\ WF_vars(Finish(j)) /\ WF_vars(TimeOut(j))
  /\ WF_vars(Lapse(j)) /\ WF_vars(Age(j))

FairSpec == Spec /\ \A j \in Jobs : Fair(j)

-----------------------------------------------------------------------------
RunningRows == InState(rows, "running")
WaitingUsers == {j \in InState(rows, "waiting") : ~Background(j) /\ ~rows[j].late}

\* The step gives j what it asks for; what a lapsed row still names is not held by then.
Granted(j) ==
  /\ rows[j].state # "running" \/ rows[j].lapsed
  /\ rows'[j].state = "running" /\ ~rows'[j].lapsed

\* Types of rows and callers; a caller that runs has a granted row.
TypeOK ==
  /\ rows \in [Jobs -> Row]
  /\ phase \in [Jobs -> {"idle", "waiting", "running"}]
  /\ \A j \in Jobs : phase[j] = "running" => rows[j].state = "running"

\* The units granted of a resource never exceed its limit, whatever mixture of
\* live, crashed, aged and background rows holds it.
UsageWithinLimits ==
  \A j \in RunningRows : \A n \in Names(j) : Used(RunningRows, n) <= Demands[j][n].limit

\* The stages of one configuration: the background ceiling of a resource is the same
\* for all, and where background work meets a user it meets the user at a resource
\* with a ceiling too.  (analysis/stage-executor.ts: every stage asks for memory, which
\* has the ceiling, and some for a slot, which has none.)
OneConfiguration ==
  /\ \A j, k \in Jobs : Background(j) /\ Background(k)
       => \A n \in Names(j) \cap Names(k) : Demands[j][n].ceiling = Demands[k][n].ceiling
  /\ \A j, k \in Jobs : Background(j) /\ ~Background(k) /\ Names(j) \cap Names(k) # {}
       => \E n \in Names(j) \cap Names(k) : Demands[j][n].ceiling # NoCeiling

\* A background demand is never granted past a user who waits for one of its
\* resources, even when the user's own demand does not fit yet; and it raises usage
\* only to its ceiling, except a larger one on an otherwise idle resource.
BackgroundYields ==
  [][\A j \in Jobs : Background(j) /\ Granted(j) =>
       /\ \A k \in WaitingUsers' : Names(k) \cap Names(j) = {}
       /\ \A n \in Names(j) :
            \/ Demands[j][n].ceiling = NoCeiling
            \/ Used(RunningRows', n) <= Demands[j][n].ceiling
            \/ Holding(RunningRows', n) = {j}]_vars

\* After a change no user waits for what is free, unless an aged large waiter
\* has reserved it.
WorkConserving ==
  [][\A j \in WaitingUsers' :
       \/ \E n \in Names(j) :
            \/ Used(RunningRows', n) + Demands[j][n].units > Demands[j][n].limit
            \/ \E k \in WaitingUsers' : rows'[k].aged /\ n \in Names(k)
       \/ ~ \E c \in Jobs : Request(c) \/ Refresh(c)]_vars

\* k asks for no more than j does.
NoMore(k, j) ==
  /\ Names(k) \subseteq Names(j)
  /\ \A n \in Names(k) : Demands[k][n].units <= Demands[j][n].units

Grants == {j \in Jobs : Granted(j)}

\* j comes before k: fewer grants of its owner, then of its task, then first come.
Due(held, j, k) ==
  \/ OwnerShares(held, j) < OwnerShares(held, k)
  \/ /\ OwnerShares(held, j) = OwnerShares(held, k)
     /\ \/ TaskShares(held, j) < TaskShares(held, k)
        \/ TaskShares(held, j) = TaskShares(held, k) /\ j \in rows'[k].behind

\* What one change grants to users can be put in an order such that each of them was
\* due, by the grants of that moment, before every user granted later and before
\* every user left waiting who asks for no more: no owner is served a second time
\* while another, served less, could have been.  (The sort of promoteResources().)
OwnersShare ==
  [][\E turn \in [Grants -> 1 .. Cardinality(Present(rows'))] :
       \A j \in Grants :
         /\ \A k \in Grants \ {j} : turn[k] # turn[j]
         /\ ~Background(j) =>
              LET held == InState(Unexpired(rows), "running")
                            \cup {g \in Grants : turn[g] < turn[j]}
              IN /\ \A k \in Grants : ~Background(k) /\ turn[k] > turn[j] => Due(held, j, k)
                 /\ \A k \in WaitingUsers' : NoMore(k, j) => Due(held, j, k)]_vars

\* A user demand without a deadline is not starved by an endless stream of
\* smaller demands, of its own owner or of others.
NoStarvation ==
  \A j \in Patient : ~Background(j) => []<>(phase[j] # "waiting")
=============================================================================
