------------------------- MODULE CapacityPermits -------------------------
(***************************************************************************)
(* server/src/scheduling/permits.ts: CapacityScheduler, the leased permits *)
(* that bound how many calls run at once in one namespace (chat lanes,     *)
(* sessions, tools), over any number of processes that share the rows of   *)
(* runtime_permits.                                                        *)
(*                                                                         *)
(* A call sends changes to the permit store, which applies each of them    *)
(* atomically, on the clock of the database and under one advisory lock    *)
(* per namespace.  The call may be cancelled, fail or crash before it      *)
(* hears of it, and an abandoned change may still commit.                  *)
(*                                                                         *)
(* Time is discrete and relative: a row holds the time left before its     *)
(* lease and its wait deadline run out, a call the time elapsed since it   *)
(* measured performance.now().  No absolute clock, hence no bound on time. *)
(***************************************************************************)
EXTENDS Integers, FiniteSets

CONSTANTS
  Calls,         \* executions of acquire(); an id without a row stands for a fresh UUID
  Owners,
  Resources,
  OwnerOf,       \* the owner argument of each call
  ResourceOf,    \* the resource argument of each call
  Running,       \* policy.running
  Waiting,       \* policy.waiting
  OwnerActive,   \* policy.ownerActive
  OwnerWaiting,  \* policy.ownerWaiting
  Exclusive,     \* policy.exclusiveResource
  WaitTime,      \* policy.waitMs, in ticks
  Lease,         \* LEASE_MS, in ticks
  Margin,        \* the 1000 ms by which the watchdog precedes the lease, in ticks
  Lag            \* how late a due timer of a live process may run, in ticks

ASSUME ConstantsAssumption ==
  /\ IsFiniteSet(Calls)
  /\ OwnerOf \in [Calls -> Owners]
  /\ ResourceOf \in [Calls -> Resources]
  /\ Running \in Nat \ {0}
  /\ Waiting \in Nat
  /\ OwnerActive \in Nat
  /\ OwnerWaiting \in Nat
  /\ Exclusive \in BOOLEAN
  /\ WaitTime \in Nat
  /\ Lease \in Nat
  /\ Margin \in Nat \ {0}
  /\ Margin < Lease
  /\ Lag \in Nat

VARIABLES
  rows,     \* the permit rows of the namespace
  phase,    \* where each call stands in acquire() and after it
  pending,  \* changes sent to the store that it may still commit
  reply,    \* the answer to the change a call awaits, not yet delivered
  since,    \* time since the call measured the start of that change
  armed     \* time since the instant the watchdog was armed from

vars == <<rows, phase, pending, reply, since, armed>>

-----------------------------------------------------------------------------
(* Rows.  `order` is max+1 at insertion, so it is kept as `behind`: the      *)
(* calls whose rows have a smaller order.                                    *)

NoRow == [state |-> "none", behind |-> {}, expires |-> 0, deadline |-> 0]

Row == [state : {"none", "waiting", "running"}, behind : SUBSET Calls,
        expires : 0..Lease, deadline : 0..WaitTime]

InState(rs, s) == {c \in Calls : rs[c].state = s}
Present(rs) == {c \in Calls : rs[c].state # "none"}
OwnedBy(o) == {c \in Calls : OwnerOf[c] = o}

Keep(rs, kept) ==
  [c \in Calls |->
     IF c \in kept THEN [rs[c] EXCEPT !.behind = @ \cap kept] ELSE NoRow]

\* prune(): drops expired rows and waiting rows past their deadline.
Stale(row) == row.expires = 0 \/ (row.state = "waiting" /\ row.deadline = 0)
Pruned(rs) == Keep(rs, {c \in Present(rs) : ~Stale(rs[c])})

\* Mutant: promote() without the sort by order.
IsPromotionUnsorted(rs, granted) ==
  /\ granted \subseteq InState(rs, "waiting")
  /\ granted = {} \/ Cardinality(InState(rs, "running") \cup granted) <= Running
  /\ \/ granted = InState(rs, "waiting")
     \/ Cardinality(InState(rs, "running") \cup granted) >= Running

\* promote(): the waiting rows in order, until `active` reaches the limit.
IsPromotion(rs, granted) ==
  /\ granted \subseteq InState(rs, "waiting")
  /\ \A c \in granted : rs[c].behind \cap InState(rs, "waiting") \subseteq granted
  /\ granted = {} \/ Cardinality(InState(rs, "running") \cup granted) <= Running
  /\ \/ granted = InState(rs, "waiting")
     \/ Cardinality(InState(rs, "running") \cup granted) >= Running

Promoted(rs, granted) ==
  [c \in Calls |-> IF c \in granted THEN [rs[c] EXCEPT !.state = "running"] ELSE rs[c]]

-----------------------------------------------------------------------------
Init ==
  /\ rows = [c \in Calls |-> NoRow]
  /\ phase = [c \in Calls |-> "idle"]
  /\ pending = [c \in Calls |-> {}]
  /\ reply = [c \in Calls |-> "none"]
  /\ since = [c \in Calls |-> 0]
  /\ armed = [c \in Calls |-> 0]

\* The change a call awaits in each phase.
Awaits(c, op) ==
  \/ op = "admit" /\ phase[c] = "admitting"
  \/ op = "poll" /\ phase[c] = "polling"
  \/ op = "renew" /\ phase[c] = "holding"
  \/ op = "release" /\ phase[c] = "releasing"

Send(c, op) == pending' = [pending EXCEPT ![c] = @ \cup {op}]

\* The store settles a change: the answer only reaches a call that awaits it.
Settle(c, op, answer) ==
  /\ pending' = [pending EXCEPT ![c] = @ \ {op}]
  /\ reply' = IF Awaits(c, op) THEN [reply EXCEPT ![c] = answer] ELSE reply
  /\ UNCHANGED <<phase, since, armed>>

-----------------------------------------------------------------------------
(* Changes, as the store commits them                                        *)

\* What the admission callback finds after prune and promote.
SessionBusy(rs, c) == Exclusive /\ \E d \in Present(rs) : ResourceOf[d] = ResourceOf[c]
OwnerBusy(rs, c) ==
  Cardinality(Present(rs) \cap OwnedBy(OwnerOf[c])) >= OwnerActive

Busy(rs) == Cardinality(InState(rs, "running")) >= Running
QueueFull(rs, c) ==
  /\ Busy(rs)
  /\ \/ Cardinality(InState(rs, "waiting")) >= Waiting
     \/ Cardinality(InState(rs, "waiting") \cap OwnedBy(OwnerOf[c])) >= OwnerWaiting
Refused(rs, c) == SessionBusy(rs, c) \/ OwnerBusy(rs, c) \/ QueueFull(rs, c)

NewRow(rs) ==
  [state |-> IF Busy(rs) THEN "waiting" ELSE "running",
   behind |-> Present(rs), expires |-> Lease, deadline |-> WaitTime]

\* A callback that throws leaves the stored rows as they were.
CommitAdmission(c) ==
  /\ "admit" \in pending[c]
  /\ \E granted \in SUBSET InState(Pruned(rows), "waiting") :
       LET rs == Promoted(Pruned(rows), granted) IN
       /\ IsPromotion(Pruned(rows), granted)
       /\ IF Refused(rs, c)
          THEN Settle(c, "admit", "refused") /\ UNCHANGED rows
          ELSE /\ Settle(c, "admit", NewRow(rs).state)
               /\ rows' = [rs EXCEPT ![c] = NewRow(rs)]

\* Mutant: a poll extends the wait deadline with the lease.
ExtendedForever(c) == [rows EXCEPT ![c].expires = Lease, ![c].deadline = WaitTime]

Extended(c) == [rows EXCEPT ![c].expires = Lease]

CommitPoll(c) ==
  /\ "poll" \in pending[c]
  /\ \/ /\ rows[c].state = "none" \/ Stale(rows[c])
        /\ Settle(c, "poll", "refused")
        /\ UNCHANGED rows
     \/ /\ rows[c].state # "none" /\ ~Stale(rows[c])
        /\ \E granted \in SUBSET InState(Pruned(Extended(c)), "waiting") :
             LET rs == Promoted(Pruned(Extended(c)), granted) IN
             /\ IsPromotion(Pruned(Extended(c)), granted)
             /\ Settle(c, "poll", rs[c].state)
             /\ rows' = rs

CommitRenewal(c) ==
  /\ "renew" \in pending[c]
  /\ IF rows[c].state = "none" \/ rows[c].expires = 0
     THEN Settle(c, "renew", "refused") /\ UNCHANGED rows
     ELSE Settle(c, "renew", "renewed") /\ rows' = Extended(c)

CommitRelease(c) ==
  /\ "release" \in pending[c]
  /\ Settle(c, "release", "released")
  /\ rows' = Keep(rows, Present(rows) \ {c})

\* An abandoned change never commits: removed from the queue, rolled back.
DropChange(c) ==
  /\ \E op \in pending[c] :
       ~Awaits(c, op) /\ pending' = [pending EXCEPT ![c] = @ \ {op}]
  /\ UNCHANGED <<rows, phase, reply, since, armed>>

-----------------------------------------------------------------------------
(* The calls                                                                 *)

Acquire(c) ==
  /\ phase[c] = "idle" /\ rows[c] = NoRow /\ pending[c] = {}
  /\ phase' = [phase EXCEPT ![c] = "admitting"]
  /\ Send(c, "admit")
  /\ UNCHANGED <<rows, reply, since, armed>>

\* Leaving a wait: back to idle, every local counter reset.
Enter(c, p) ==
  /\ phase' = [phase EXCEPT ![c] = p]
  /\ reply' = [reply EXCEPT ![c] = "none"]
  /\ since' = [since EXCEPT ![c] = 0]

Queued(c) ==
  /\ phase[c] \in {"admitting", "polling"} /\ reply[c] = "waiting"
  /\ Enter(c, "waiting")
  /\ UNCHANGED <<rows, pending, armed>>

Poll(c) ==
  /\ phase[c] = "waiting"
  /\ Enter(c, "polling")
  /\ Send(c, "poll")
  /\ UNCHANGED <<rows, armed>>

\* release(): the row is deleted only if the admission was answered.
StartRelease(c) ==
  /\ Enter(c, "releasing")
  /\ Send(c, "release")
  /\ armed' = [armed EXCEPT ![c] = 0]
  /\ UNCHANGED rows

\* armWatchdog(started): nothing is left of the lease after a slow answer.
Exhausted(c) == since[c] >= Lease - Margin

\* Mutant: the watchdog is armed from the answer, not from the start of the change.
GrantedFromAnswer(c) ==
  /\ phase[c] \in {"admitting", "polling"} /\ reply[c] = "running"
  /\ \/ /\ ~Exhausted(c)
        /\ Enter(c, "holding")
        /\ armed' = [armed EXCEPT ![c] = 0]
        /\ UNCHANGED <<rows, pending>>
     \/ Exhausted(c) /\ StartRelease(c)

Granted(c) ==
  /\ phase[c] \in {"admitting", "polling"} /\ reply[c] = "running"
  /\ \/ /\ ~Exhausted(c)
        /\ Enter(c, "holding")
        /\ armed' = [armed EXCEPT ![c] = since[c]]
        /\ UNCHANGED <<rows, pending>>
     \/ Exhausted(c) /\ StartRelease(c)

\* The admission failed or was cancelled before its answer: nothing is deleted.
AdmissionFails(c) ==
  /\ phase[c] = "admitting"
  /\ Enter(c, "idle")
  /\ UNCHANGED <<rows, pending, armed>>

\* Cancelled, timed out or failed while waiting (the caller's signal, waitTimer,
\* an error of the store, or a refusal of the poll).
WaitFails(c) ==
  /\ phase[c] \in {"waiting", "polling"}
  /\ StartRelease(c)

StartRenewal(c) ==
  /\ phase[c] = "holding" /\ "renew" \notin pending[c] /\ reply[c] = "none"
  /\ Send(c, "renew")
  /\ since' = [since EXCEPT ![c] = 0]
  /\ UNCHANGED <<rows, phase, reply, armed>>

\* Mutant: the watchdog is armed from the answer, not from the start of the change.
RenewedFromAnswer(c) ==
  /\ phase[c] = "holding" /\ reply[c] = "renewed"
  /\ Enter(c, IF Exhausted(c) THEN "aborted" ELSE "holding")
  /\ armed' = [armed EXCEPT ![c] = 0]
  /\ UNCHANGED <<rows, pending>>

Renewed(c) ==
  /\ phase[c] = "holding" /\ reply[c] = "renewed"
  /\ Enter(c, IF Exhausted(c) THEN "aborted" ELSE "holding")
  /\ armed' = [armed EXCEPT ![c] = IF Exhausted(c) THEN 0 ELSE since[c]]
  /\ UNCHANGED <<rows, pending>>

\* permit.signal fires: refused or failed renewal, or the caller's own signal.
Abort(c) ==
  /\ phase[c] = "holding"
  /\ Enter(c, "aborted")
  /\ armed' = [armed EXCEPT ![c] = 0]
  /\ UNCHANGED <<rows, pending>>

WatchdogDue(c) == phase[c] = "holding" /\ armed[c] >= Lease - Margin
Watchdog(c) == WatchdogDue(c) /\ Abort(c)

\* The execution ends, normally or because its signal fired.
Release(c) ==
  /\ phase[c] \in {"holding", "aborted"}
  /\ StartRelease(c)

\* The row is deleted, or the 1000 ms cleanup gave up and left it to the lease.
Released(c) ==
  /\ phase[c] = "releasing"
  /\ Enter(c, "idle")
  /\ UNCHANGED <<rows, pending, armed>>

Crash(c) ==
  /\ phase[c] # "idle"
  /\ Enter(c, "idle")
  /\ armed' = [armed EXCEPT ![c] = 0]
  /\ UNCHANGED <<rows, pending>>

-----------------------------------------------------------------------------
Less(n) == IF n = 0 THEN 0 ELSE n - 1
More(n) == IF n = Lease THEN Lease ELSE n + 1

Aged(row) == [row EXCEPT !.expires = Less(@), !.deadline = Less(@)]

\* The start a call measured matters while it awaits the answer.
Timed(c) ==
  \/ phase[c] \in {"admitting", "polling"}
  \/ phase[c] = "holding" /\ ("renew" \in pending[c] \/ reply[c] # "none")

\* One tick passes.  A due watchdog of a live process is at most Lag late.
Tick ==
  /\ \A c \in Calls : phase[c] = "holding" => armed[c] < Lease - Margin + Lag
  /\ rows' = [c \in Calls |-> Aged(rows[c])]
  /\ since' = [c \in Calls |-> IF Timed(c) THEN More(since[c]) ELSE since[c]]
  /\ armed' = [c \in Calls |-> IF phase[c] = "holding" THEN More(armed[c]) ELSE armed[c]]
  /\ UNCHANGED <<phase, pending, reply>>

StoreStep(c) ==
  \/ CommitAdmission(c) \/ CommitPoll(c) \/ CommitRenewal(c)
  \/ CommitRelease(c) \/ DropChange(c)

CallStep(c) ==
  \/ Acquire(c) \/ Queued(c) \/ Poll(c) \/ Granted(c)
  \/ AdmissionFails(c) \/ WaitFails(c)
  \/ StartRenewal(c) \/ Renewed(c) \/ Abort(c) \/ Watchdog(c)
  \/ Release(c) \/ Released(c) \/ Crash(c)

Next == Tick \/ \E c \in Calls : StoreStep(c) \/ CallStep(c)

Spec == Init /\ [][Next]_vars

\* A change is bounded by a 5 s deadline, polls and watchdogs are timers, and time
\* passes.  Nothing obliges a holder to finish or a call to be cancelled.
Fairness ==
  /\ WF_vars(Tick)
  /\ \A c \in Calls :
       /\ WF_vars(CommitAdmission(c)) /\ WF_vars(CommitPoll(c))
       /\ WF_vars(Queued(c)) /\ WF_vars(Poll(c)) /\ WF_vars(Granted(c))
       /\ WF_vars(reply[c] = "refused" /\ (AdmissionFails(c) \/ WaitFails(c)))
       /\ WF_vars(Watchdog(c))

FairSpec == Spec /\ Fairness

-----------------------------------------------------------------------------
\* Types of the rows and of the local state of the calls.
TypeOK ==
  /\ rows \in [Calls -> Row]
  /\ phase \in [Calls -> {"idle", "admitting", "waiting", "polling",
                          "holding", "aborted", "releasing"}]
  /\ pending \in [Calls -> SUBSET {"admit", "poll", "renew", "release"}]
  /\ reply \in [Calls -> {"none", "waiting", "running", "refused", "renewed", "released"}]
  /\ since \in [Calls -> 0..Lease]
  /\ armed \in [Calls -> 0..Lease]

\* The calls that believe they may run: a permit whose signal has not fired.
Holders == {c \in Calls : phase[c] = "holding"}

\* However slow, lost or late the answers of the store are, and whichever calls
\* crash, no more calls than policy.running believe they hold a permit.
HoldersBounded == Cardinality(Holders) <= Running

\* Under exclusiveResource a session never has two live executions.
SessionExclusive ==
  Exclusive => \A c, d \in Holders : ResourceOf[c] = ResourceOf[d] => c = d

\* The lease of a live holder outlives its watchdog: its row is granted and runs at
\* least until the instant LEASE_MS after the start the watchdog was armed from.
HolderCovered ==
  \A c \in Holders : /\ rows[c].state = "running"
                     /\ armed[c] < Lease
                     /\ rows[c].expires >= Lease - armed[c]

\* First come, first served: a row is granted a slot only when no waiting row of
\* a smaller order is left, so neither a newcomer nor a poll overtakes the queue.
GrantsInOrder ==
  [][\A c \in Calls :
       rows'[c].state = "running" /\ rows[c].state # "running"
         => \A d \in rows'[c].behind : rows'[d].state = "running"]_vars

Pool == INSTANCE PermitPool WITH held <- Holders

\* CapacityScheduler implements the pool of permits its callers rely on.
ImplementsPool == Pool!Spec

\* Every acquire() ends: with a permit, a refusal or a timeout, even when every
\* slot is held by calls that never finish.
EveryCallAnswered ==
  \A c \in Calls :
    []<>(phase[c] \notin {"admitting", "waiting", "polling"})
=============================================================================
