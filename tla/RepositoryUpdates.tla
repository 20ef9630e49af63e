------------------------ MODULE RepositoryUpdates ------------------------
(***************************************************************************)
(* Shared analyses of one repository: requests of several projects join    *)
(* one repository update, whose leader's execution publishes a snapshot    *)
(* for all of them, and projects in another language wait for a language   *)
(* overlay of that snapshot.  services/repository-service.ts asks,         *)
(* persistence/postgres-store.ts joins, publishes, fails and deletes,      *)
(* analysis/coordinator.ts executes.                                       *)
(*                                                                         *)
(* A transaction is one step.  Executions are fenced (module AnalysisJobs) *)
(* so a job has at most one that can write; claiming a job and reading its *)
(* project are one step, and the writes before the last transaction of an  *)
(* execution, which other processes do not act on, belong to that step.    *)
(* The snapshot of update u is called u: every update analyses a commit of *)
(* its own.  Languages do not change.  Projects are ordered like their     *)
(* ids, jobs like their created_at.                                        *)
(***************************************************************************)
EXTENDS Integers, Sequences, FiniteSets, SequencesExt

CONSTANTS
  Projects,     \* project ids, naturals
  Languages,
  LanguageOf,   \* display_language of each project
  Clients,      \* browser tabs
  ProjectOf,    \* the project each of them shows
  Slow,         \* clients between whose calls to the store others may act
  Deletable,    \* projects their owner may delete
  Background,   \* whether the scheduler starts updates of its own
  MaxAttempts,
  MaxReserved,  \* background updates the daily budget can reserve
  MaxJobs, MaxUpdates, MaxLapses    \* bounds of the model

ASSUME UpdatesAssumption ==
  /\ Projects \subseteq Nat \ {0} /\ IsFiniteSet(Projects)
  /\ LanguageOf \in [Projects -> Languages]
  /\ ProjectOf \in [Clients -> Projects]
  /\ Slow \subseteq Clients /\ Deletable \subseteq Projects
  /\ Background \in BOOLEAN
  /\ {MaxAttempts, MaxReserved, MaxJobs, MaxUpdates, MaxLapses} \subseteq Nat

VARIABLES
  project,     \* stage and canonical_snapshot_key of each project
  job,         \* analysis_jobs, and the requests that have not inserted theirs yet
  update,      \* repository_analysis_updates with their projects and budget
  overlay,     \* public_snapshot_language_overlays
  head,        \* current_public_snapshot_key of the repository
  generation,  \* its generation
  reserved,    \* repository_background_daily_usage, in reservations
  lapses

vars == <<project, job, update, overlay, head, generation, reserved, lapses>>

None == 0
Stages == {"absent", "working", "done", "failed", "deleted"}
ProjectRow == [stage : Stages, key : 0..MaxUpdates]
\* "lapsed" is the running row of an execution that is no longer there.
InQueue == {"queued", "running", "lapsed"}

Job ==
  [project : Projects, client : Clients \cup {"scheduler"},
   status : {"asked", "succeeded", "failed", "dropped"} \cup InQueue,
   role : {"reuse", "leader", "waiter", "background", "overlay"},
   update : 0..MaxUpdates, overlay : 0..MaxUpdates,
   attempt : 0..MaxAttempts, exhausted : BOOLEAN,
   seen : ProjectRow,          \* the copy of the project its request or execution holds
   follow : Stages \cup {"no"} \* the stage its request is still to save
  ]

Update ==
  [status : {"active", "succeeded", "failed", "deleted"}, leader : Projects,
   joined : Seq(Projects), base : -1..MaxUpdates,
   budget : {"none", "reserved", "settled"}]

Init ==
  /\ project = [p \in Projects |-> [stage |-> "absent", key |-> None]]
  /\ job = <<>>
  /\ update = <<>>
  /\ overlay = [k \in 1..MaxUpdates |-> [l \in Languages |-> "none"]]
  /\ head = None /\ generation = 0 /\ reserved = 0 /\ lapses = 0

-----------------------------------------------------------------------------
(* Reading the tables.                                                       *)

Exists(p) == project[p].stage \notin {"absent", "deleted"}
Readable(row) == row.stage = "done" /\ row.key # None
Active(j) == job[j].status \in InQueue
Joined(u) == {p \in ToSet(update[u].joined) : Exists(p)}
ActiveUpdates == {u \in DOMAIN update : update[u].status = "active"}
LastOf(S) == CHOOSE j \in S : \A i \in S : i <= j

\* A set of numbers in order (ORDER BY), and the members of S in a list.
Ascending(S) ==
  CHOOSE s \in [1..Cardinality(S) -> S] : \A i, k \in 1..Cardinality(S) : i < k => s[i] < s[k]
Remaining(list, S) ==
  LET places == Ascending({i \in DOMAIN list : list[i] \in S})
  IN [n \in DOMAIN places |-> list[places[n]]]

HasActiveJobUnchecked(p) == FALSE
\* latestJob() of a project is queued or running.
HasActiveJob(p) ==
  LET rows == {j \in DOMAIN job : job[j].project = p /\ job[j].status \notin {"asked", "dropped"}}
  IN rows # {} /\ Active(LastOf(rows))

\* The jobs of a language overlay.
OverlayJobs(k, l) ==
  {j \in DOMAIN job : Active(j) /\ job[j].overlay = k /\ LanguageOf[job[j].project] = l}
OverlayRunner(k, l) == \E j \in OverlayJobs(k, l) : job[j].role = "overlay"

\* Requests that are between two calls to the store.
Midway == {j \in DOMAIN job : job[j].status = "asked" \/ job[j].follow # "no"}
Undisturbed(clients) == \A j \in Midway : job[j].client \in Slow \cup clients
Asked(j) == j \in DOMAIN job /\ job[j].status = "asked" /\ Undisturbed({job[j].client})
Executing(j) == j \in DOMAIN job /\ job[j].status = "running" /\ Undisturbed({})

NewJob(p, c, status, role) ==
  [project |-> p, client |-> c, status |-> status, role |-> role, update |-> None,
   overlay |-> None, attempt |-> 0, exhausted |-> FALSE, seen |-> project[p],
   follow |-> "no"]

Ended(row, status) == [row EXCEPT !.status = status, !.exhausted = FALSE]
EndAll(S, status) == [j \in DOMAIN job |-> IF j \in S THEN Ended(job[j], status) ELSE job[j]]

-----------------------------------------------------------------------------
(* Requests: startAnalysis() and bindExistingSnapshot().                     *)

\* The copy of the project a request works on.
Copied(p) ==
  IF Readable(project[p]) THEN project[p]
  ELSE [stage |-> "working", key |-> project[p].key]

\* Up to the decision: reuse the published snapshot or ask for an update.
Ask(c, reuse) ==
  LET p == ProjectOf[c] IN
  /\ Undisturbed({c})
  /\ Len(job) < MaxJobs
  /\ \A j \in Midway : job[j].client # c /\ (job[j].project = p => Exists(p))
  /\ project[p].stage # "deleted"
  /\ ~HasActiveJob(p)
  /\ reuse => head # None
  /\ project[p].stage = "absent" /\ head # None => reuse
  /\ job' = Append(job,
       [NewJob(p, c, "asked", IF reuse THEN "reuse" ELSE "waiter")
          EXCEPT !.seen = Copied(p), !.overlay = IF reuse THEN head ELSE None])
  /\ UNCHANGED <<project, update, overlay, head, generation, reserved, lapses>>

\* A quota, a full queue, GitHub or a deleted project ends the request.
Refuse(j) ==
  /\ Asked(j)
  /\ job' = [job EXCEPT ![j].status = "dropped"]
  /\ UNCHANGED <<project, update, overlay, head, generation, reserved, lapses>>

\* A request that creates its project, or whose project is still there.
Admissible(p, row) == Exists(p) \/ (project[p].stage = "absent" /\ row.key = None)

NewUpdate(p, budget) ==
  [status |-> "active", leader |-> p, joined |-> <<p>>,
   base |-> IF generation = 0 THEN -1 ELSE generation, budget |-> budget]

Lead(p) ==
  /\ ActiveUpdates = {} /\ Len(update) < MaxUpdates
  /\ update' = Append(update, NewUpdate(p, "none"))

JoinActive(p) ==
  \E u \in ActiveUpdates :
    update' = [update EXCEPT ![u].joined =
                 IF p \in ToSet(@) THEN @ ELSE Append(@, p)]

\* createOrJoinRepositoryUpdate().
Join(j) ==
  LET p == job[j].project  leads == ActiveUpdates = {} IN
  /\ Asked(j) /\ job[j].role = "waiter"
  /\ Admissible(p, job[j].seen)
  /\ IF leads THEN Lead(p) ELSE JoinActive(p)
  /\ project' = [project EXCEPT ![p] = job[j].seen]
  /\ LET u == IF leads THEN Len(update) + 1 ELSE CHOOSE v \in ActiveUpdates : TRUE
         leader == update'[u].leader
         copies == ~leads /\ ~Readable(job[j].seen) /\ leader \in ToSet(update'[u].joined)
     IN job' = [job EXCEPT ![j] = [@ EXCEPT
                  !.status = "queued", !.role = IF leads THEN "leader" ELSE "waiter",
                  !.update = u,
                  !.follow = IF copies THEN project'[leader].stage ELSE "no"]]
  /\ UNCHANGED <<overlay, head, generation, reserved, lapses>>

\* createOrJoinSnapshotLanguageOverlay(), or the existing overlay is enough.
Reuse(j) ==
  LET p == job[j].project  k == job[j].overlay  l == LanguageOf[p]
      ready == overlay[k][l] = "ready"
      creates == project[p].stage = "absent" IN
  /\ Asked(j) /\ job[j].role = "reuse"
  /\ Admissible(p, job[j].seen)
  /\ IF ready
     THEN /\ job' = [job EXCEPT ![j] = [Ended(@, "succeeded") EXCEPT
                       !.overlay = None, !.seen.key = k, !.role = "waiter",
                       !.follow = IF creates THEN "no" ELSE "done"]]
          /\ project' = IF creates THEN [project EXCEPT ![p] = [stage |-> "done", key |-> k]]
                        ELSE project
          /\ UNCHANGED overlay
     ELSE /\ job' = [job EXCEPT ![j] = [@ EXCEPT !.status = "queued",
                       !.role = IF OverlayRunner(k, l) THEN "waiter" ELSE "overlay"]]
          /\ project' = [project EXCEPT ![p] = [stage |-> "working", key |-> k]]
          /\ overlay' = [overlay EXCEPT ![k][l] = "pending"]
  /\ UNCHANGED <<update, head, generation, reserved, lapses>>

\* saveProject() at the end of the request: an upsert of the copy it holds.
Follow(j) ==
  /\ j \in DOMAIN job /\ job[j].follow # "no" /\ Undisturbed({job[j].client})
  /\ project' = [project EXCEPT ![job[j].project] =
                   [stage |-> job[j].follow, key |-> job[j].seen.key]]
  /\ job' = [job EXCEPT ![j].follow = "no"]
  /\ UNCHANGED <<update, overlay, head, generation, reserved, lapses>>

\* createBackgroundRepositoryUpdate() on the project that anchors it.
StartBackground(p) ==
  /\ Background /\ Undisturbed({})
  /\ Len(job) < MaxJobs /\ Len(update) < MaxUpdates
  /\ Exists(p) /\ project[p].key # None /\ head # None
  /\ ActiveUpdates = {}
  /\ reserved < MaxReserved
  /\ update' = Append(update, NewUpdate(p, "reserved"))
  /\ job' = Append(job, [NewJob(p, "scheduler", "queued", "background")
                           EXCEPT !.update = Len(update) + 1])
  /\ reserved' = reserved + 1
  /\ UNCHANGED <<project, overlay, head, generation, lapses>>

-----------------------------------------------------------------------------
(* Executions.                                                               *)

ClaimableQueued(j) == job[j].status = "queued"
\* Queued, or running under a lease that has run out.
Claimable(j) == job[j].status \in {"queued", "lapsed"}

\* LEAST(attempt + 1, max_attempts).
Counted(attempt) == IF attempt < MaxAttempts THEN attempt + 1 ELSE attempt

\* scopeReady(): one execution per repository, the oldest job first.
ScopeReady(j) ==
  job[j].update # None =>
    \A i \in DOMAIN job \ {j} :
      Active(i) /\ job[i].role # "waiter" /\ job[i].update # None
        => job[i].status # "running" /\ j < i

\* The execution has a ready overlay to translate from.
Translates(key) == key # None /\ \E l \in Languages : overlay[key][l] = "ready"

\* claimFairAnalysis(), loadProject() and the first progress of the execution.
Claim(j) ==
  LET p == job[j].project
      exhausted == job[j].attempt >= MaxAttempts
      marked == IF exhausted THEN {}
                ELSE IF job[j].update # None
                THEN {q \in Joined(job[j].update) : ~Readable(project[q])}
                ELSE IF Translates(project[p].key) THEN {p} ELSE {} IN
  /\ j \in DOMAIN job /\ Undisturbed({})
  /\ Claimable(j) /\ job[j].role # "waiter"
  /\ ScopeReady(j)
  /\ project' = [q \in Projects |-> IF q \in marked THEN [project[q] EXCEPT !.stage = "working"]
                                    ELSE project[q]]
  /\ job' = [job EXCEPT ![j] = [@ EXCEPT
               !.status = "running", !.exhausted = exhausted,
               !.attempt = Counted(job[j].attempt), !.seen = project[p]]]
  /\ UNCHANGED <<update, overlay, head, generation, reserved, lapses>>

\* The worker dies or loses its lease.
Lapse(j) ==
  /\ Executing(j) /\ lapses < MaxLapses
  /\ job' = [job EXCEPT ![j].status = "lapsed"]
  /\ lapses' = lapses + 1
  /\ UNCHANGED <<project, update, overlay, head, generation, reserved>>

\* requeueAfterTransientFailure().
Retry(j) ==
  /\ Executing(j) /\ job[j].attempt < MaxAttempts
  /\ job' = [job EXCEPT ![j].status = "queued"]
  /\ UNCHANGED <<project, update, overlay, head, generation, reserved, lapses>>

\* settleBackgroundUpdateBudget(): the predicate settled_at IS NULL, once.
Settled(u, status) ==
  [update[u] EXCEPT !.status = status, !.budget = IF @ = "reserved" THEN "settled" ELSE @]
FreedNever(u) == reserved' = reserved
Freed(u) == reserved' = IF update[u].budget = "reserved" THEN reserved - 1 ELSE reserved

AffectedJoined(u) == Joined(u)
\* Projects a publication moves to its snapshot.
Affected(u) == {p \in Projects : Exists(p) /\ (project[p].key # None \/ p \in Joined(u))}

\* Their newest job in the update, if any.
JobsIn(p, u) == {i \in DOMAIN job : job[i].project = p /\ job[i].update = u /\ Active(i)}
Represents(i, u) ==
  LET mine == JobsIn(job[i].project, u) IN i \in mine /\ i = LastOf(mine)

\* publishRepositoryUpdate(): the snapshot is published with an overlay in the
\* leader's language; projects of other languages wait for theirs.
Publish(j) ==
  LET u == job[j].update
      spoken == LanguageOf[job[j].project]
      waiting == {p \in Affected(u) : LanguageOf[p] # spoken /\ overlay[u][LanguageOf[p]] # "ready"}
      First(p) == \A q \in waiting : q < p => LanguageOf[q] # LanguageOf[p]
      Role(p) == IF OverlayRunner(u, LanguageOf[p]) \/ ~First(p) THEN "waiter" ELSE "overlay"
      Queued(row, p) == [row EXCEPT !.status = "queued", !.role = Role(p), !.update = None,
                           !.overlay = u, !.attempt = 0, !.exhausted = FALSE]
      Row(i) == IF job[i].project \in Affected(u) /\ Represents(i, u)
                THEN IF job[i].project \in waiting THEN Queued(job[i], job[i].project)
                     ELSE Ended(job[i], "succeeded")
                ELSE IF Active(i) /\ job[i].update = u /\ job[i].role = "background"
                THEN Ended(job[i], "succeeded")
                ELSE IF i = j THEN [job[i] EXCEPT !.status = "lapsed"] ELSE job[i]
      added == Ascending({p \in waiting : JobsIn(p, u) = {}}) IN
  /\ Executing(j) /\ ~job[j].exhausted /\ job[j].update # None
  /\ update[u].base \in {-1, generation}
  /\ head' = u /\ generation' = generation + 1
  /\ overlay' = [overlay EXCEPT ![u] = [l \in Languages |->
                   IF l = spoken THEN "ready"
                   ELSE IF \E p \in waiting : LanguageOf[p] = l THEN "pending" ELSE @[l]]]
  /\ project' = [p \in Projects |->
       IF p \in Affected(u) THEN [stage |-> IF p \in waiting THEN "working" ELSE "done", key |-> u]
       ELSE project[p]]
  /\ job' = [i \in DOMAIN job |-> Row(i)] \o
            [n \in DOMAIN added |-> Queued(NewJob(added[n], "scheduler", "queued", "waiter"), added[n])]
  /\ update' = [update EXCEPT ![u] = Settled(u, "succeeded")]
  /\ Freed(u)
  /\ UNCHANGED lapses

\* A project with a snapshot goes on with it.
StageAfterFailure(p) == IF project[p].key # None THEN "done" ELSE "failed"

\* failRepositoryUpdate(): any error, the exhausted lease included.
FailUpdate(j) ==
  LET u == job[j].update IN
  /\ Executing(j) /\ job[j].update # None
  /\ project' = [p \in Projects |-> IF p \notin Joined(u) THEN project[p] ELSE
                   [project[p] EXCEPT !.stage = StageAfterFailure(p)]]
  /\ update' = [update EXCEPT ![u] = Settled(u, "failed")]
  /\ Freed(u)
  /\ job' = EndAll({i \in DOMAIN job : Active(i) /\ job[i].update = u}, "failed")
  /\ UNCHANGED <<overlay, head, generation, lapses>>

\* Overlay executions act on the snapshot their project had when they read it.
\* The job itself is finished only if it is one of the jobs of that overlay.
EndOverlay(j, status, stage) ==
  LET k == job[j].seen.key  l == LanguageOf[job[j].project]  S == OverlayJobs(k, l) IN
  /\ overlay' = [overlay EXCEPT ![k][l] = IF status = "succeeded" THEN "ready" ELSE "failed"]
  /\ project' = [p \in Projects |-> IF \E i \in S : job[i].project = p
                                    THEN [project[p] EXCEPT !.stage = stage] ELSE project[p]]
  /\ job' = [EndAll(S, status) EXCEPT ![j].status = IF j \in S THEN @ ELSE "lapsed"]
  /\ UNCHANGED <<update, head, generation, reserved, lapses>>

\* publishSnapshotLanguageOverlay().
PublishOverlay(j) ==
  /\ Executing(j) /\ job[j].role = "overlay" /\ ~job[j].exhausted
  /\ Translates(job[j].seen.key)
  /\ EndOverlay(j, "succeeded", "done")

\* failSnapshotLanguageOverlay(), or finishAnalysisJob() if the project has no snapshot.
FailOverlay(j) ==
  /\ Executing(j) /\ job[j].role = "overlay"
  /\ IF job[j].seen.key # None THEN EndOverlay(j, "failed", "failed")
     ELSE /\ job' = EndAll({j}, "failed")
          /\ project' = IF job[j].exhausted THEN [project EXCEPT ![job[j].project].stage = "failed"]
                        ELSE project
          /\ UNCHANGED <<update, overlay, head, generation, reserved, lapses>>

-----------------------------------------------------------------------------
(* deleteProject().                                                          *)

\* The waiter of the next project leads; an update without one is deleted.
Replacement(u, p) == Remaining(update[u].joined, {q \in Projects \ {p} : Exists(q)})
WithoutProject(u, p) ==
  LET rest == Replacement(u, p) IN
  IF update[u].leader # p THEN [update[u] EXCEPT !.joined = rest]
  ELSE IF rest = <<>> THEN [update[u] EXCEPT !.status = "deleted", !.joined = <<>>]
  ELSE [update[u] EXCEPT !.leader = rest[1], !.joined = rest]

PromotedNobody(p) == {}
Promoted(p) ==
  {i \in DOMAIN job :
     /\ Active(i) /\ job[i].role = "waiter" /\ job[i].update # None
     /\ LET u == job[i].update IN
        /\ update[u].leader = p
        /\ Replacement(u, p) # <<>> /\ job[i].project = Replacement(u, p)[1]
        /\ \A h \in JobsIn(job[i].project, u) : job[h].role = "waiter" => i <= h}

Delete(p) ==
  /\ p \in Deletable /\ Exists(p) /\ Undisturbed({})
  /\ LET promoted == Promoted(p) IN
     job' = [i \in DOMAIN job |->
       IF job[i].project = p /\ job[i].status # "asked"
       THEN [job[i] EXCEPT !.status = "dropped"]
       ELSE IF i \in promoted THEN [job[i] EXCEPT !.role = "leader"] ELSE job[i]]
  /\ update' = [u \in DOMAIN update |-> WithoutProject(u, p)]
  /\ project' = [project EXCEPT ![p] = [stage |-> "deleted", key |-> None]]
  /\ UNCHANGED <<overlay, head, generation, reserved, lapses>>

-----------------------------------------------------------------------------
JobIds == 1..(MaxJobs + MaxUpdates * Cardinality(Projects))

Next ==
  \/ \E c \in Clients, reuse \in BOOLEAN : Ask(c, reuse)
  \/ \E j \in JobIds : Refuse(j) \/ Join(j) \/ Reuse(j) \/ Follow(j)
  \/ \E p \in Projects : StartBackground(p) \/ Delete(p)
  \/ \E j \in JobIds : Claim(j) \/ Lapse(j) \/ Retry(j)
  \/ \E j \in JobIds : Publish(j) \/ FailUpdate(j) \/ PublishOverlay(j) \/ FailOverlay(j)

Spec == Init /\ [][Next]_vars

\* Requests go on, a worker is there to claim jobs and executions come to an end.
Fairness ==
  \A j \in JobIds :
    /\ WF_vars(Refuse(j) \/ Join(j) \/ Reuse(j) \/ Follow(j))
    /\ WF_vars(Claim(j))
    /\ WF_vars(Publish(j) \/ FailUpdate(j) \/ PublishOverlay(j) \/ FailOverlay(j))

-----------------------------------------------------------------------------
\* Tables and requests are well formed.
TypeOK ==
  /\ project \in [Projects -> ProjectRow]
  /\ job \in Seq(Job) /\ Len(job) \in {0} \cup JobIds
  /\ update \in Seq(Update) /\ Len(update) <= MaxUpdates
  /\ overlay \in [1..MaxUpdates -> [Languages -> {"none", "pending", "ready", "failed"}]]
  /\ head \in 0..MaxUpdates /\ generation \in Nat
  /\ reserved \in 0..MaxReserved /\ lapses \in 0..MaxLapses

\* Projects whose requests nobody overtakes between two of their calls.
Others == Projects \ {ProjectOf[c] : c \in Slow}

\* Every project of the repository that has a snapshot has the published one,
\* whether or not it had asked for the update: publishRepositoryUpdate() binds
\* them all.  Only the request that was overtaken by a publication brings an old
\* snapshot back, to its own project, by saving its copy of it (saveProject()).
FollowsHead == \A p \in Others : project[p].key \in {None, head}

\* A project that shows a running analysis has a job that is still to end it.
SomebodyWorks ==
  \A p \in Others : project[p].stage = "working" =>
    \E j \in DOMAIN job : Active(j) /\ job[j].project = p

\* A waiter of an update waits for an active one, and one of a language overlay
\* for an overlay that workers claim.
WaitersServed ==
  \A j \in DOMAIN job : Active(j) /\ job[j].role = "waiter" /\ job[j].project \in Others =>
    IF job[j].update # None THEN job[j].update \in ActiveUpdates
    ELSE OverlayRunner(job[j].overlay, LanguageOf[job[j].project])

\* An update that has not ended is the newest one.  Each project that has joined it is
\* there and has a job which the end of the update ends, and the job of its leader is one
\* that workers claim: joins, lost leases, retries, the deletion of one leader after
\* the other and requests that save an old copy of a project leave it to nobody.
Leads(j, u) ==
  /\ Active(j) /\ job[j].role \in {"leader", "background"}
  /\ job[j].update = u /\ job[j].project = update[u].leader
UpdatesLed ==
  \A u \in ActiveUpdates :
    /\ u = Len(update)
    /\ \A p \in ToSet(update[u].joined) : Exists(p) /\ JobsIn(p, u) # {}
    /\ \E j \in DOMAIN job : Leads(j, u)

\* Nobody waits for nobody, whoever leads after how many deletions, publications and
\* failures: they leave no project and no waiter behind.
NobodyForgotten == SomebodyWorks /\ WaitersServed /\ UpdatesLed

\* An update is published while it is active, never after a later one, and
\* keeps the way it has ended: no execution publishes or fails it again.
EndsOnce ==
  [][/\ generation' # generation => update[head'].status = "active" /\ head < head'
     /\ \A u \in DOMAIN update :
          update[u].status # "active" => update'[u].status \in {update[u].status, "deleted"}]_vars

\* The daily budget holds the reservations of background updates.  An update that is
\* published or fails gives its reservation back, once; one that runs still holds it.
\* The update that is deleted with its only project while it runs never gives it
\* back: the row that says so is deleted with it, the reservation is not.
Unsettled(status) ==
  {u \in DOMAIN update : update[u].budget = "reserved" /\ update[u].status = status}
BudgetAccounted ==
  /\ reserved = Cardinality(Unsettled("active")) + Cardinality(Unsettled("deleted"))
  /\ Unsettled("succeeded") = {} /\ Unsettled("failed") = {}
  /\ \A u \in ActiveUpdates : update[u].budget # "settled"

\* Every update ends: published, failed or deleted.
UpdateEnds ==
  \A u \in 1..MaxUpdates : []<>(u \notin ActiveUpdates)

\* An execution of an exhausted claim leaves its job only by ending it (or by
\* dying): "Exhausted leases are reclaimed only to finalize the durable task".
ExhaustedEnds ==
  [][\A j \in DOMAIN job :
       job[j].exhausted /\ job[j].status = "running" /\ lapses' = lapses
         => job'[j].status # "lapsed"]_vars
=============================================================================
