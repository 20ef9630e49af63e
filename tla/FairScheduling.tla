-------------------------- MODULE FairScheduling --------------------------
(***************************************************************************)
(* Which analysis is claimed next: admitAnalysis() and scheduleAnalysis()  *)
(* of scheduling/analysis.ts, each in a transaction under one lock         *)
(* (persistence/analysis-scheduler.ts).                                    *)
(*                                                                         *)
(* A group is one physical analysis for all who asked for it; the rows of  *)
(* one owner in one group are one participation <<o, g>>.  What an owner   *)
(* takes part in while it runs counts against the owner's own limit, but a *)
(* group takes only one worker.  The times at which owners were served     *)
(* matter only by their order.                                             *)
(***************************************************************************)
EXTENDS Integers, FiniteSets

CONSTANTS
  Owners, System,  \* System: system:background, one of the owners
  Groups,
  Projects,        \* bound: sets of pairs <<o, g>>, who may ask for what
  AnalysisLimits,
  MaxLapses        \* bound: executions that lose their lease or are retried

ASSUME SchedulingAssumption ==
  /\ Projects \subseteq SUBSET (Owners \X Groups)
  /\ AnalysisLimits \in [{"running", "ownerRunning", "ownerWaiting", "pending", "waiting"} -> Nat \ {0}]
  /\ MaxLapses \in Nat

VARIABLES
  projects,   \* one of Projects
  asked,      \* the active participations, each with those that are older
  holding,    \* those whose participation_state is 'running'
  active,     \* the groups a worker executes under a valid lease
  since,      \* owner -> those who were served after it was served last
  lapses,
  passed      \* history: how often another owner began work while one waited for its turn

schedulingVars == <<projects, asked, holding, active, since, lapses, passed>>

Participations == DOMAIN asked
Oldest(ps) == CHOOSE p \in ps : \A q \in ps \ {p} : p \in asked[q]
Queued(g) == g \notin active /\ \E o \in Owners : <<o, g>> \in Participations
Own(held, running, o) == {g \in running : <<o, g>> \in held}

SchedulingInit ==
  /\ projects \in Projects
  /\ asked = [p \in {} |-> {}] /\ holding = {} /\ active = {} /\ lapses = 0
  /\ since = [o \in Owners |-> {}]
  /\ passed = [o \in Owners |-> [p \in Owners |-> 0]]

-----------------------------------------------------------------------------
(* admitAnalysis().                                                          *)

\* A newcomer to a running group takes part at once if the owner has a slot left.
Joins(o, g) == g \in active /\ Cardinality(Own(holding, active, o)) < AnalysisLimits.ownerRunning

WaitingOf(o) == {g \in Groups : <<o, g>> \in Participations} \ Own(holding, active, o)
Overfull(o, g) ==
  \/ ~Joins(o, g) /\ Cardinality(WaitingOf(o)) >= AnalysisLimits.ownerWaiting
  \/ /\ \A p \in Participations : p[2] # g
     /\ \/ Cardinality({p[2] : p \in Participations}) >= AnalysisLimits.pending
        \/ Cardinality({h \in Groups : Queued(h)}) >= AnalysisLimits.waiting

Admit(o, g) ==
  /\ <<o, g>> \in projects \ Participations /\ ~Overfull(o, g)
  /\ asked' = [p \in Participations \cup {<<o, g>>} |->
                 IF p = <<o, g>> THEN Participations ELSE asked[p]]
  /\ holding' = IF Joins(o, g) THEN holding \cup {<<o, g>>} ELSE holding
  /\ UNCHANGED <<projects, active, since, lapses, passed>>

-----------------------------------------------------------------------------
(* scheduleAnalysis(): grants are made one by one, as long as there are any. *)

Earliest(o) == Oldest({p \in Participations : p[1] = o})

\* Background work is last; then whoever was served least recently.
InTurn(s, a, b) ==
  \/ a # System /\ b = System
  \/ /\ (a = System) = (b = System)
     /\ \/ b \in s.since[a]
        \/ a \notin s.since[b] /\ Earliest(a) \in asked[Earliest(b)]

\* The waiting participations of o that can be granted: in what runs, or in the one
\* group this claim may still start.
Startable(s, g) == s.started = {} /\ Cardinality(s.running) < AnalysisLimits.running /\ g \notin s.running
Grantable(s, o) ==
  {p \in Participations \ s.held : p[1] = o /\ (p[2] \in s.running \/ Startable(s, p[2]))}
Eligible(s, o) ==
  Cardinality(Own(s.held, s.running, o)) < AnalysisLimits.ownerRunning /\ Grantable(s, o) # {}

\* Mutant: an owner that is served keeps its place.
ServedFirst(order, o) ==
  IF \E p \in Owners : o \in order[p] THEN order
  ELSE [p \in Owners |-> IF p = o THEN {} ELSE order[p] \cup {o}]

Served(order, o) == [p \in Owners |-> IF p = o THEN {} ELSE order[p] \cup {o}]

Grant(s, o) ==
  LET p == Oldest(Grantable(s, o)) IN
  [held |-> s.held \cup {p}, running |-> s.running \cup {p[2]},
   started |-> IF p[2] \in s.running THEN s.started ELSE {p},
   since |-> Served(s.since, o), served |-> s.served \cup {o}]

Round(s) ==
  LET able == {o \in {p[1] : p \in Participations} : Eligible(s, o)} IN
  IF able = {} THEN s
  ELSE Grant(s, CHOOSE o \in able : \A p \in able \ {o} : InTurn(s, o, p))

\* Participations in what no longer runs wait again; every round grants one.
Rounds ==
  LET rounds[k \in 0..Cardinality(Participations)] ==
        IF k = 0
        THEN [held |-> {p \in holding : p[2] \in active}, running |-> active,
              started |-> {}, since |-> since, served |-> {}]
        ELSE CHOOSE next \in {Round(last) : last \in {rounds[k - 1]}} : TRUE
  IN rounds

Schedule == Rounds[Cardinality(Participations)]

\* An owner that is able to begin what it waits for.
Entitled(o) ==
  /\ o # System /\ Cardinality(Own(holding, active, o)) < AnalysisLimits.ownerRunning
  /\ \E g \in Groups : <<o, g>> \in Participations /\ g \notin active

\* claimFairAnalysis().
ClaimFair ==
  \E s \in {Schedule} :
    LET begins(p) == \E g \in Groups : <<p, g>> \in s.started
        waits(o) == Entitled(o) /\ o \notin s.served IN
    /\ holding' = s.held /\ active' = s.running /\ since' = s.since
    /\ passed' = [o \in Owners |-> [p \in Owners |->
         IF waits(o) THEN passed[o][p] + (IF begins(p) THEN 1 ELSE 0) ELSE 0]]
    /\ UNCHANGED <<projects, asked, lapses>>

-----------------------------------------------------------------------------
(* What happens to a group meanwhile.                                        *)

Without(ps) ==
  /\ asked' = [p \in Participations \ ps |-> asked[p] \ ps]
  /\ holding' = holding \ ps

\* The analysis is published or fails, for all who take part.
EndGroup(g) ==
  /\ g \in active
  /\ Without({<<o, g>> : o \in Owners})
  /\ active' = active \ {g}
  /\ UNCHANGED <<projects, since, lapses, passed>>

\* The lease runs out, or the analysis is queued again after an error.
LapseGroup(g) ==
  /\ g \in active /\ lapses < MaxLapses /\ lapses' = lapses + 1
  /\ active' = active \ {g}
  /\ UNCHANGED <<projects, asked, holding, since, passed>>

\* An owner's projects are deleted; if the group was led by one of them, it is queued
\* again for the others.
Withdraw(o, g, led) ==
  /\ <<o, g>> \in Participations
  /\ led \/ \E p \in Owners \ {o} : <<p, g>> \in Participations
  /\ Without({<<o, g>>})
  /\ active' = IF led THEN active \ {g} ELSE active
  /\ UNCHANGED <<projects, since, lapses, passed>>

SchedulingNext ==
  \/ ClaimFair
  \/ \E g \in Groups :
       \/ EndGroup(g) \/ LapseGroup(g)
       \/ \E o \in Owners : Admit(o, g) \/ \E led \in BOOLEAN : Withdraw(o, g, led)

SchedulingSpec == SchedulingInit /\ [][SchedulingNext]_schedulingVars

-----------------------------------------------------------------------------
(* Properties.                                                               *)

\* However requests join running groups, are claimed, lapse and are withdrawn: the
\* workers are never asked for more groups than allowed, and no owner takes part in
\* more running groups than its own limit; and the round robin holds: while a user
\* waits for its turn, with a slot of its own left and a group to begin, no other
\* owner begins work twice.
TurnsWithinLimits ==
  /\ Cardinality(active) <= AnalysisLimits.running
  /\ \A o \in Owners : Cardinality(Own(holding, active, o)) <= AnalysisLimits.ownerRunning
  /\ \A o, p \in Owners : passed[o][p] <= 1
=============================================================================
