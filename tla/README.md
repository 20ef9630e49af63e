# Models of the server's coordination

The server (`src/server/src`) turns GitHub repositories into analysed snapshots
and teaches from them. PostgreSQL is the authority for every job, permit, lease
and budget. Redis/BullMQ only wakes workers (`queue/task-queue.ts:97-101`).
API servers, analysis workers, their stage children and a scheduler act on the
same rows; each of them may crash, pause, lose an answer or come late. The
modules in this directory are about those protocols: who may run, who may
write, what reaches whom, and what must end. One part lives elsewhere: the evolution
of Skills (`src/evolution/pi/src`), which keeps its records in directories and lock files.

Paths below are relative to `src/server/src` unless they start with `src/`.

## 1. Inventory

| Part | State it keeps | Operations | Behaviours that are hard | What makes it correct |
| --- | --- | --- | --- | --- |
| Capacity permits, `scheduling/permits.ts` | rows of `runtime_permits` per namespace; per call a lease start, a watchdog, a renewal | `acquire`, poll, renew, `release`, `assertSessionPermit` | a lease counted on two clocks, answers lost after the commit, crashes, pauses | never more holders than the policy, one execution per session, FIFO, every call ends, a superseded execution cannot write |
| Resource admission, `scheduling/resources.ts` | rows of one namespace, each asking for units of several resources | `acquire`, `promoteResources`, release | all-or-nothing grants, shares that change during the pass, reservations for aged requests, background ceilings, processes with other limits | limits, priority of users, fairness among owners, no starvation |
| Analysis jobs, `analysis/coordinator.ts`, `persistence/analysis-scheduler.ts`, `persistence/postgres-store.ts` | `analysis_jobs`, the project's stage; per worker its loops, `activeControllers`, `inFlight` | claim, fence, heartbeat, requeue, finish, hand back on stop, cancel | fence reuse, two transactions for one end, cancellation races, crashes, exhausted attempts | only the last claim writes, bounded starts, job and project agree, the job ends |
| Repository updates and overlays, `services/repository-service.ts`, `persistence/postgres-store.ts` | `repository_analysis_updates`, jobs with roles, head and generation of the repository, language overlays, background budget | ask, join, publish, fail, overlay publish/fail, delete, background start | many projects wait for one execution; leaders change; overlays outlive publications | every project follows the head, nobody waits for nobody, one end per update, budget settled once |
| Fair scheduling, `scheduling/analysis.ts` | participations and the order in which owners were served | `scheduleAnalysis`, `admitAnalysis`, `scopeReady` | round robin, participants of one group, limits per owner | each owner in turn, limits respected, one execution per repository |
| Permit batcher, `scheduling/postgres-permit-batcher.ts` | queues per namespace, the attempt in progress, `outstanding` | enqueue, absorb, execute, cancel, requeue | cancellation in each phase of a transaction, lock retries | a change commits once or not at all; no replay after COMMIT was sent |
| Local gates, `agent/mutex.ts`, `agent/provider-gate.ts` | a chain of promises per key; a counter and a queue | run exclusively, acquire/release | cancelled waiters | exclusion, order |
| Provider budget, `agent/provider-budget.ts`, `services/provider-budget-recovery.ts` | `provider_usage_events` | reserve, settle, recover | sums over open reservations, late settlement | no overspending by admission, settled once |
| Stages of an execution, `analysis/stage-executor.ts`, `stage-main.ts` | detached children, checkpoints, memory allowance | run, raise, skip | orphaned children, repeated stages | one stage at a time for a fenced job |
| Session backend, `persistence/postgres-session-backend.ts` | append-only entries of sessions | transaction, fork, replay | stale writers | fenced writes, no lost entry |
| Memory work queue, `persistence/memory-work.ts` | one row per project: requested, completed, lease | enqueue, claim, finish, fail | requests during an extraction | no request lost, one extraction at a time |
| Snapshot store and reclamation, `persistence/snapshot-object-store.ts`, `directory-reclamation.ts`, `source-packs.ts`, `repository-read-lease.ts` | objects, generations, read leases | write, bind, retire, purge | readers against clean-up, crashed publications | nothing readable is purged |
| Schedulers, `services/scheduler-main.ts`, `retention-leadership.ts`, `repository-background-scheduler.ts` | one advisory lock | elect, sweep | two leaders for a moment | sweeps are safe beside each other |
| Task queue, `queue/task-queue.ts` | wake-ups in Redis | enqueue, consume | lost and duplicated wake-ups | none lost for ever (recovery tick) |
| Conversations, `services/conversation-service.ts`, `agent/learning-actions.ts`, `agent/runtime.ts`, `agent/session-store.ts` | transcript and study in the row of the project; the branch of a session, the model's context, in another store | message, edit, retry, replay, decide on a card, build a route | a turn works for minutes on a copy; two stores, written one after the other; stalls beyond all leases | answers under their questions, context and transcript agree, one action per message, nothing confirmed is lost |
| Evolution of Skills, `src/evolution/pi/src/{runner,versions,state-store,feedback-queue,feedback-worker}.ts` | registry (a directory per version, a manifest), ledger and decision of each task, lock files | promote, run, approve, reject, roll back, recover | two stores without a common transaction, locks that outlive processes, bases that become current again | published versions stay, history follows decisions, ledgers do not contradict the registry |
| Static analysis, `analysis/typescript.ts`, `lsp.ts`, `graph.ts`, `incremental.ts` | none | pure functions of source trees | incremental reuse | same result as from scratch |
| Store variant on files, API, MCP, GitHub gateway, administration, metrics, security, web, evaluations, deployment | — | — | — | outside the protocols |

How they interact. The API server admits a chat turn with a *capacity permit*
(lane policy in `services/conversation-service.ts:154`, session policy in
`persistence/postgres-session-backend.ts:402`), every change of which goes through the
*batcher*; it writes the session under the fence of that permit. A request to
analyse becomes a job of a *repository update*; a worker claims the job that
*fair scheduling* picks, executes it in *stages*, each stage under a *resource
admission*, its model calls under further admissions and a *provider budget*,
and ends by publishing a snapshot for all projects of the repository.

`PROJECT.json` lists every part with its status, and every place where this code
is hard to test with the properties that cover it.

## 2. Modules

| Module | Source it stands for | Composes |
| --- | --- | --- |
| `PermitPool` | the promise of `scheduling/permits.ts` to its callers | |
| `CapacityPermits` | `scheduling/permits.ts` | implements `PermitPool` |
| `SessionWrites` | `assertSessionPermit` and the transaction of the session backend | extends `CapacityPermits` |
| `PermitStore` | the promise of `PermitStore.change` (`scheduling/permits.ts:14-16`), on which `CapacityPermits` rests | |
| `PermitBatcher` | `scheduling/postgres-permit-batcher.ts` | implements `PermitStore` |
| `ResourceAdmission` | `scheduling/resources.ts` | |
| `AnalysisJobs` | coordinator, claim and the job functions of the store | |
| `RepositoryUpdates` | requests, updates, overlays, deletion | abstracts an execution of `AnalysisJobs` to claim, lapse, retry, end |
| `FairScheduling` | `scheduling/analysis.ts`, `claimFairAnalysis` | abstracts `RepositoryUpdates` to groups that run and end |
| `ConversationTurns` | turns and decisions of one conversation | takes permits as `CapacityPermits` gives them |
| `ConversationCopies` | a request for an analysis beside confirmed actions | |
| `ProviderBudget` | reservations and their settlement | |
| `MemoryWork` | the queue of memory work and its workers | |
| `SnapshotRetention` | uploads, publication, read leases, purge | |
| `DirectoryGenerations` | the generations of the query directory of one snapshot: publication, reclamation, reading | takes retirement and leases from `SnapshotRetention` in short |
| `SkillEvolution` | registry, ledgers, reviews and recovery of one Skill | |
| `CapacityPermitsProofs`, `PermitBatcherProofs`, `AnalysisJobsProofs`, `RepositoryUpdatesProofs`, `DirectoryGenerationsProofs` | theorems | extend the module of their name, the first also `SessionWrites` |
| `SchedulingProofs`, `ServicesProofs`, `RecordsProofs` | theorems | `ResourceAdmission` and `FairScheduling`; `MemoryWork`, `ProviderBudget` and `SnapshotRetention`; `SkillEvolution` and `ConversationTurns` |
| `MC*` | constants for TLC; `MCPermits`, `MCServices`, `MCRecords`, `MCPublications` and `MCSnapshotReuse` put parts that share no state, or one part in a harsher world, into one run | extend the modules above |

### CapacityPermits

One step per change the store commits (`CommitAdmission`, `CommitPoll`,
`CommitRenewal`, `CommitRelease`) and one per thing a call does in its own
process (`Acquire`, `Queued`, `Poll`, `Granted`, `StartRenewal`, `Renewed`,
`Watchdog`, `Release`, ...). A change and its answer are different steps:
`pending` holds changes that may still commit although their call no longer
waits (`DropChange` is the one that never does), `reply` the answer that has not
been delivered. A callback of the code prunes, promotes and decides inside one
transaction, and so does the action.

Time is relative: a row has the ticks left of its lease and its deadline, a call
the ticks since it took `performance.now()` before sending. There is no clock to
bound. The order numbers of rows become the set `behind`. Rows count for the
policy until pruned, those of dead calls too.

`Lag` is how late a due timer of a live process may run. With `Lag < Margin`
the watchdog fires before the lease is over; `SessionWrites` sets it high, so that a
process can be paused past its lease, and asks whether the fence of the write
transaction still protects the session.

### ResourceAdmission

A request, its promotion pass and its answer are one step (`Request`,
`Refresh`, `Finish`); `Passes` is the loop of `promoteResources`, `RunningAfter` where it
ends: in every turn the first candidate in the order of owner shares, task shares and
arrival is granted or passed over, with user demands before background ones and the
resources of aged large waiters reserved. What is used of a resource is the number of
its `Units`, pairs of a job and a unit. Every stage asks for memory, which has a ceiling
for background work, and some for a slot, which has none: `OneConfiguration`, of which
the run's jobs are an instance (`MixAssumption`). `Crash`, `Lapse`, `Age` and `PassDeadline` are the passage of
time. The lease protocol is that of `CapacityPermits` and not repeated: a row
outlives its caller only after a crash.

### AnalysisJobs

One standalone job. A `lane` is one loop of `runOnce()`; `dispatching` and
`draining` are claims on their way to the database, `dispatched` and `drained` their
answers on the way back. Every transaction is one step; a success or a failure is
two (`Complete`/`FailProject`, then `Finish`), as in the code. `controller` is the
entry of `activeControllers`, which `Close` deletes whoever had put it there. The lease is
live or expired; heartbeats are the steps in which it does not lapse. `Die` lets
a process vanish in any state while its statements and children may still act
until `Vanish`. `loops` are the lanes started in this behaviour: `AgreementOfLoops` is about
those with one loop per worker, the others show what a second loop may do. `faults` bounds the lapses of a lease that somebody still renews.

### RepositoryUpdates

All projects of one repository. `Ask`, `Join`, `Reuse`, `Follow`, `Refuse` are the calls
of a request to the store, with the copy of the project it read first (`seen`) and
the stage it will still save (`follow`). `Claim`, `Lapse`, `Retry`, `Publish`,
`FailUpdate`, `PublishOverlay`, `FailOverlay` are executions. `StartBackground` and
`Delete` are the scheduler and the owner. The snapshot of update u is called u.
A few facts of the schema that shape it: `saveProject()` is an upsert; the row of a
repository exists from the first publication on, hence the comparison of
`base_generation` is skipped before it; the budget row of an update is deleted
with it.

`Slow` names the clients between whose store calls anything may happen; the calls of
the others follow one another without a step in between. The run has one slow client.
Its own project may fall behind, as section 6 says, so `FollowsHead`, `SomebodyWorks` and
`WaitersServed` speak of the projects of the others (`Others`), and `UpdatesLed`,
`BudgetAccounted` and `EndsOnce` of everybody. The shared advisory lock of
`repository-read-lease.ts` keeps requests from overlapping with administrative
clean-up only, not with publications, so those interleavings are real.

### PermitBatcher

The queues per namespace, `ready`, `delayed`, the one attempt in progress and
`outstanding`. An attempt connects, takes the lock of its namespace, runs the
changes one by one and sends the COMMIT; callers may cancel in every one of these
phases, jobs that arrive are absorbed, a lost connection or a busy lock sends the
survivors back. `Land` and `Vanish` are what becomes of a COMMIT whose answer is lost.
`Store` is the refinement: a change is open, and ends as done, which implies that it
was committed once, or as failed, after which nothing commits it that is not already
on its way.

### FairScheduling

A group is one physical analysis, `<<o, g>>` the part an owner takes in it. `Admit` is
`admitAnalysis()`, `ClaimFair` one call of `claimFairAnalysis()` with the whole loop
of `scheduleAnalysis()` (`Rounds`: rounds of grants until nobody is eligible, `Schedule` the
last). `asked` gives every participation those that asked before it, instead of a time;
`since[o]` are the owners served since `o` was, instead of the list of owners in the
order in which they were served.
`passed` counts, while an owner waits with a slot of its own left, how often
another owner began work. Left out: `available_at`, `execution_scope` (see
`RepositoryUpdates!ScopeReady`), several projects of one owner in one group.

### ConversationTurns and ConversationCopies

`row` is what the project's row holds: messages with their runs, the card of an answer,
snapshot and study. `branches` are the sessions' entries per snapshot. A lane is
one request of the API: `Start` (with the capacity check and, for an edit, the cut of
the transcript), `Prepare` (the branch is cut back), `Begin` (`beforePrompt`), `Answer`,
`Save` (`finalize`, merged into the row), `Commit` (the session's mark), and for
decisions `Decide`, `Execute`, `Reserve`, `Complete`, `Fail`. `chat` and `session` are
the two permits: a stall loses both at once, and the lane goes on (`Stall`) until a
fenced write refuses it. Decisions are not fenced in the code and rely on the watchdog.
Left out: the actions skip and stop, program lessons, `resolveLearningReview()`,
feedback, historical views. The in-process `runOwners` check is implied by the
permit of the chat. `ConversationCopies` is the one upsert that writes an old copy.

### ProviderBudget

`stage` is the call, `event` its row of `provider_usage_events`, with
`charge = GREATEST(reserved, cost)`. The check and the COMMIT of a reservation are two
steps under `ledgerLock`; the report is tried `Attempts` times, each of which may commit
with or without an answer, beside the recovery of rows whose permit is gone. One
business on one day; both sums are read in one step; the age of 90 s that a row must
have is left out, since the permit decides.

### MemoryWork

One user with several projects. `Write` commits the request with the message; `Claim`,
`Load`, `Apply`/`Discard`/`Close`/`Fail` are a worker's steps, `reader` the work in its
hand, `Lapse` the end of a lease. `Forget`, `Switch`, `Revise` and `Withdraw` are what the
user does meanwhile. `readings` counts extractions of the present text of a message.

### SnapshotRetention

`snapshot[k]` ages from current through graced and closing to rest; `object` are the
objects in the store, `ledger` what is still to be deleted. A publication uploads,
saves the row, and moves the head (`Upload`, `SaveRow`, `PublishHead`); the scheduler
lists, purges in a transaction and deletes after it; a turn leases a version before it
reads. One object per version, one active update, one elected scheduler.
`Rewinds` says whether the repository returns to an earlier commit (`MCSnapshotReuse`).

### DirectoryGenerations

One snapshot key. `pointer` is the bound generation (`snapshot_query_directories`),
`generations` the rows that own everything else, `known` what tells the objects of a
generation (the intents of an upload, later its manifest), `tables` and `stored` what is
really there, in the database and in a store that knows no transactions. `queue` is
`snapshot_directory_reclamation`, `doomed` the two ledgers of objects. A publication
stages a generation in commits of its own (`StageGeneration`, `Intend`, `PutChunks`,
`Record`, `DropIntents`, `LoadTables`) and binds it in the transaction that has been open
all the time (`Bind`, `CommitPublication`); `GiveUp` is what remains of one that fails. The
reclamation is a batch of two steps, `Choose` (which reads the manifest, before any lock) and one of
`Proceed`; `older[g]` are the transactions that were open when the retirement of g was first
noted (`cleanup_observed_at`). A reader sees what was bound when its transaction began.

A generation has one table and one object. `Torn` says whether a manifest may be written
between the two steps of a batch: with `FALSE` the second step uses the manifest of now, which
is the same unless it was written in between (section 6). Leases outlast their reads. `Unleased`
are readers that take none, like `queryCodeEvidence()`, which is asked over MCP
(`services/repository-service.ts:835`). One key is published
again when a resumed checkpoint saves its snapshot a second time
(`analysis/coordinator.ts:777`). Left out: a publisher whose connection is lost while its process lives,
empty child tables, the row tables of older formats, the inventory of objects, the purge by
an administrator (excluded by the lock `repository-payload-use`).

### SkillEvolution

`manifest` is the history of the registry, `installed` the version directories,
`registryLock` its lock file, `ledger` and `decision` the files of a task, `reviewLock` its
lock. A review is a sequence of steps on files (`Claim`, `BeginOperation`, `TakeLock`,
`Install`, `WriteManifest`, `Unlock`, `Record`, `Close`), after each of which the process
may die, and most of which may fail. An error is written down in two saves, as in the code:
`FinishOperation` saves the operation as failed or uncertain under the old status
(`runner.ts:422`, `:429`, `:499`, `:505`), `MarkLedger` the new status (`:426`, `:433`, `:502`, `:509`);
the recovery bundle, which may throw, comes between them. A save that throws may have been
done all the same (`MayBeSaved`). `Load` ... `SaveRecovery` are `recover()`, which nobody
calls but an operator (and the tests): it takes no review lock. Staging directories and the
candidate's own status are left out, because they repeat what ledger and decision say; a
ledger's list of operations is the number of its publications and of its rollbacks that are in
doubt (`doubts`: "started" or "uncertain", which `recover()` treats alike); a live review is over
before its lock counts as stale.

## 3. What the runs check

| Run | Instance | Distinct states | What it shows |
| --- | --- | --- | --- |
| `CapacityLanes` | 3 calls of 2 owners, 1 slot, 2 waiting (1 per owner), lease 3, wait 1 | 2,069,647 | `HolderCovered`, `GrantsInOrder`, `ImplementsPool` (refinement of `PermitPool`) with slow, lost and late answers, crashes and cancellations |
| `PermitWrites` | 2 of 3 calls, timers up to 4 ticks late; 3 changes of 2 namespaces, batches of 2, 1 cancellation | 133,285 | `NoSupersededWrite`: a paused execution cannot write a session others were admitted to; `EveryCallAnswered`, although holders may renew for ever; `ServedInOrder`, `ImplementsStore` (refinement of `PermitStore`) and `EveryChangeAnswered` of the batcher |
| `ResourceStages` | four stages of two owners, one needing all the memory; stages with deadlines, two background stages, a process with another limit | 27,602 | `UsageWithinLimits`, `BackgroundYields`, `WorkConserving`, `OwnersShare`, `NoStarvation` |
| `AnalysisLeases` | two workers, one mortal and with two loops, 2 attempts, 2 faults | 693,801 | `AgreementOfLoops`, `StartsBounded`, `StaleNeverWrites`, `EndedForGood`, `JobEnds` |
| `UpdatesShared` | 3 projects, 2 languages, background updates, 1 deletable project, 2 attempts, 2 updates, 3 requested or background jobs, 1 lapse, 1 of 3 clients overtaken between its calls; a directory (2 generations, 2 publications, 2 leased readers, 2 troubles) | 484,174 | `FollowsHead`, `NobodyForgotten`, `BudgetAccounted`, `EndsOnce`, `UpdateEnds`; `DirectoryReadable`, `AbandonedGone` |
| `Records` | a conversation (up to 4 requests, 2 at a time, 2 messages, 2 snapshots, 1 fault); analyses (3 owners, 3 groups, 2 lapses); a Skill (2 tasks, 2 reviewers, 2 changes, 2 deaths or errors) | 2,801,235 | `AnswersPaired`, `ContextFaithful`, `OneActionPerMessage`, `ConfirmedKept`; `TurnsWithinLimits`; `VersionsKept`, `HistoryAsDecided`, `LedgerTruthful` |
| `Services` | 3 model calls of 2 tasks, 2 attempts, 1 fault; 3 messages of 2 projects, 2 workers; 3 versions, 2 readers, 2 mishaps | 191,747 | `AdmittedWithinLimit`, `BooksTruthful`; `ReadExactlyOnce`, `FactsFromPresentTexts`, `EveryMessageRead`; `StaysReadable`, `PurgedGone` |
| `AnalysisStop` | two workers, no faults | violated | `StopWaits`, finding 1 |
| `UpdatesExhausted` | as `UpdatesShared` without deletions | violated | `ExhaustedEnds`, finding 2 |
| `ConversationCopies` | one request, one confirmed action | violated | `ProgressSurvives`, finding 3 |
| `SnapshotReuse` | 2 versions, a repository that returns to an earlier commit | violated | `UploadsProtected`, finding 4 |
| `DirectoryReads` | 2 generations, 2 publications, a reader without a lease, no trouble | violated | `DirectoryReadable`, finding 5 |

Why the bounds are enough to be of interest. Two owners and three
calls are what overtaking, the shares of one owner beside another and a
superseding admission need; a lease of 3 ticks with a margin of 1 has
states in which an answer is late but good, late and useless, and lost. In
`ResourceStages` the stream of small stages is endless because a job that has
ended asks again. Two attempts give a retry and an exhausted claim; two faults let
a lease be lost twice, so a stale execution can meet the fence of a hand-back.
Two updates and three languages-and-projects make a second publication meet an
overlay of the first, which is where the shared jobs go wrong if they do. Three
changes of two namespaces in batches of two need absorption and a second batch. Three
calls of two tasks fill a budget by a settled and an open reservation. Three
messages of two projects are more than a batch, and the mixes give an edit during an
extraction, a change of the profile and a lapsed lease. Three versions make a
predecessor's predecessor, the first that may be purged. Four requests of a
conversation make an answer, its edit, a card and a decision on it; two tasks and two
reviewers make two candidates of one base, a publication, its rollback and a second
candidate whose base is current again. Two generations and two publications of a key give a
replacement, a generation that expires beside a bound one and a publication that is given up
and cleaned while another one runs. Bounds are given in *mixes* (`Budgets`,
`MemoryBudgets`, `Projects`), of which a behaviour keeps to one: longer
behaviours with fewer faults beside shorter ones with more.

`MCPermits`, `MCServices`, `MCRecords` and `MCPublications` hold parts that share nothing; a variable
that never changes names the part at work, the others rest. This is the union of the
behaviours of the parts, each with its own properties, and its fairness is that of
the part at work. `Records`, which has no liveness, uses symmetry: requests are
interchangeable, and so are tasks, reviewers and changes of Skills. `CHECK_DEADLOCK FALSE` where bounds, refusals and a world in which
nobody asks let the system really stop.

Every property has a mutant in its module, an alternative body of one definition
that stands for a plausible bug (a missing fence, a watchdog armed too late, a
sort that is dropped, a promotion forgotten), under which the run reports it.

## 4. Fairness

* `CapacityPermits`: a change is bounded by a deadline of 5 s and polls and
  watchdogs are timers of live processes, so commits, polls and the watchdog are
  weakly fair and time passes. Holders need not finish, nobody need cancel.
* `PermitBatcher`: its steps are weakly fair (promises and timers of a live process),
  and a lock another process holds, or a row lock, is met with only finitely often.
* `ResourceAdmission`: callers poll, executions end (stages have time limits),
  leases lapse, rows age. Only the mix without deadlines asks for it.
* `ProviderBudget`: calls have time limits, permits of dead processes run out, the
  scheduler sweeps every minute.
* `MemoryWork`: workers poll; some worker comes to every request again and again
  (`ORDER BY available_at`), and the model does not reject one project for ever
  (strong fairness of `Claim` and `Apply`). Leases of the dead run out.
* `SnapshotRetention`: the sweep goes on and is not broken off for ever (strong fairness
  of `Resume`). Publications, leases and mishaps are never forced.
* `DirectoryGenerations`: publications and reads end, because statements and turns have
  time limits; a staging expires after three hours; the maintenance process is elected
  again and comes to every item of its queue again and again (`ORDER BY next_attempt_at`, strong fairness of
  `Choose`), although publications may make its batches give way.
* `ConversationTurns`, `SkillEvolution`, `FairScheduling`: none; only safety is checked.
* `AnalysisJobs`: every loop proceeds, because claims are retried by the recovery
  tick of 15 s (`analysis/worker-main.ts:71`) and stages have time limits, and
  a lease nobody renews runs out. At least one worker is not in `Mortal`. Deaths,
  lapses of renewed leases and cancellations are never forced.
* `RepositoryUpdates`: requests go on to their next call, some worker claims what
  is claimable (the same tick), executions come to an end of some kind.
  `Lapse`, `Retry`, `Delete`, `StartBackground` and `Ask` are never forced.

## 5. What is proved

`tlapm` proves the following for every value of the constants allowed by the assumptions of
the modules (`ConstantsAssumption`, `BatcherAssumption`, `LanesAssumption`, `UpdatesAssumption`,
`DemandsAssumption`, `SchedulingAssumption`, `BudgetAssumption`, `MemoryAssumption`,
`RetentionAssumption`, `DirectoryAssumption`, `TurnsAssumption`, `EvolutionAssumption`), which say
of what kind a constant is and which TLC evaluates in every run. A further hypothesis stands in
the theorem it belongs to and is named below.

How the larger proofs are laid out: an *effect lemma* says what an action does to each
variable, a *kept lemma* what a kind of change (a row appended, one card replaced, one lane moved)
leaves of a part of the invariant, and one lemma per action joins them. A model that
looks for the last message or sorts a set is met by a lemma that says what the operator returns.
The prover has no induction over data. Where one was needed it is derived: the library says that
the numbers are well founded, hence every set of numbers has a smallest member, hence a set that
holds 0 and the successor of each of its members holds all (`SetInduction`). Loops are functions
on the numbers of their turns, sums are cardinalities of sets of units, so that the theorems on
finite sets apply.

`CapacityPermitsProofs`

* `TypeCorrect`: `Spec => []TypeOK`.
* `LeaseCoversHolder`, `HoldersStayBounded`, `SessionsStayExclusive`, if
  `Lag < Margin`: the row of a live holder is granted and lasts at least until
  `Lease - armed`, so no more than `Running` calls hold a permit and no two of them
  share an exclusive session. The bound itself is not inductive, since a call
  believes in a permit whose row is elsewhere. No run has `HoldersStayBounded` and
  `SessionsStayExclusive` as properties: the first follows from `ImplementsPool`, both are proved. The invariant adds what links the two:
  `AnswerCovered` (an answer not yet delivered speaks of a row that lasts `Lease` from
  the start the call measured), `ChangesOrdered` (which old changes of a call can
  still be on their way in each phase: a late release must not delete the row of a
  new admission), `RunningBounded` and `SessionRows` (of the rows).
* `PermitsImplementPool`: `CapacityPermits` implements `PermitPool`; each step
  grants or withdraws at most one call, or stutters.
* `GrantsStayInOrder`: first come, first served, without any hypothesis on timers. The invariant
  (`OrderInv`) says that a call that asks for admission has no row (`AdmitsFresh`) and that a row
  that is gone has left nothing behind (`RowsClean`), so that no row inherits a place in the order.
* `WritesStayFenced`, if `Exclusive`: no superseded execution writes to a session, however long
  processes pause. What makes it true is `NewestRow`: the row of a session, if there is one, is
  that of its newest admission, so the fence of a write asks for more than a lease.

`PermitBatcherProofs`

* `QueuesStayWhole`: types, and that a caller stands once in the line of its namespace, which is
  the batch followed by the queue, and that a batch has at most `MaxBatch` (`QueueInv`).
* `ChangesServedInOrder`: the line keeps the order of arrival. A broken batch goes back to the
  front, absorbed callers join its end, cancelled ones leave the middle; each is a lemma about lists.
* `BatcherImplementsStore`: the batcher keeps the contract `PermitStore` on which `CapacityPermits`
  rests. `CommitInv` says what a COMMIT on its way stands for: it was sent under the lock of its
  namespace, for changes without effect so far, whose callers gave up or wait for this very answer.

`AnalysisJobsProofs`

* `TypeCorrect`, with attempt between 0 and the maximum: a running job counts
  at least one attempt (`RunningCounted`), so a hand-back cannot go below zero.
* `StartsStayBounded`: `granted <= MaxAttempts + resumed`, from the conserved
  `granted <= attempt + resumed`.
* `StaleWritesRefused`: only the last claim writes. The invariant `FencesApart` says
  that while no claim was exhausted every execution holds an attempt no greater than
  that of the row, and only the last claim the same one; `OwnedByLatest` names the owner,
  `SpentStays` what is left of the fence after an exhausted claim. The argument that
  needs care is the hand-back, which lowers `attempt`: it is the last claim that does
  it, and every other execution is then below.
* `EndIsFinal`: an ended job is changed by no execution, nor is its project.
* `EndsAgree`: an ended job and its project say the same, although two transactions write them.
  `HalfEnded` adds what holds between the two: whoever still carries the fence of the row has
  written to the project what it is about to write to the job.

`RepositoryUpdatesProofs`

Three theorems without any hypothesis, whichever clients are slow and whatever is deleted:

* `BudgetStaysAccounted`: what is reserved are the reservations of the background update that
  runs and of those deleted while they ran; an update that was published or failed has given its own
  back, and one that runs still holds it (`Ledgers`).
* `OthersFollowHead`: a publication reaches every project whose own request is not overtaken, whoever
  else is. `UpdatesStayLed`: an update that runs is the newest, each project that joined it is there
  and has a job of it, and the job of its leader can be claimed. Their invariant, `Overtaken`, keeps of the
  requests between two calls only what no delay can spoil (`CallsWell`, `Apart`); of the copy
  of a request it says nothing, unless its project is one of `Others`, where it is the only request
  and its copy is current (`OthersCurrent`, `OthersBound`). That the leader's job survives follows
  from where jobs leave an update: with its end, or with their project, whose place another one takes.

And three more, if `Slow = {}`:

* `UpdatesStayEnded`, `SomebodyAlwaysWorks` and `UpdatesStayTyped`:
  an update ends once, a project that shows work has a job
  that will end it, and the tables stay within their bounds, so that the guards which bound
  them cut off no execution (`JobsCounted`). The invariant `Shared` says of updates that only the
  newest one is active, that an active job of it is the newest of its project, and that every project
  which joined has a job and one job leads (`OfUpdates`); of projects that bindings follow the
  head and jobs without an update belong to overlays (`OfProjects`); and that a request between
  two calls is the youngest job, with a copy that is current (`OneMidway`). The last is why the
  theorems need `Slow = {}`: with a step between the calls of several requests they do not all hold of
  the code (section 6).

`SchedulingProofs`

* `ResourcesStayTyped`, `GrantsStayWithinLimits`, `NobodyWaitsForFree`, `OwnersTakeTurns`, and, if
  `OneConfiguration`, `BackgroundStandsBack`. The invariant of the rows (`ResourceInv`) is small;
  the work is that of the loop, of which `Verdict` holds after every turn: what runs fits, by
  the limits of everybody who runs; what is reserved is reserved for an aged user who was passed
  over; who was passed over did not fit or met a reservation, which stays true because what is used
  only grows; and there is an order of what was granted in which everything is due by the shares of its
  turn, ahead of what comes later and of users left who asked for as much (`Sharing`): the order
  of the turns, which a grant extends at its end. Background
  work is only granted when no user is left in the line (`Yielding`); without `OneConfiguration` a
  background demand could meet a user at a resource without a ceiling, which no stage does.
* `TurnsStayWithinLimits`: `FairScheduling`. The order of owners is a strict order by inclusion
  (`InServingOrder`), so a round has a first owner; `Outcome` says what all rounds of a claim leave:
  limits hold, every start belongs to an owner served, and who was not served has become
  ineligible or was behind. That nobody begins twice past a waiting user follows from
  `passed[o][p] = 1 => p \in since[o]`: whoever passed `o` once is behind it from then on.

`ServicesProofs`, of `ProviderBudget`

* `BudgetTypeCorrect`, and `BooksStayTruthful`: a call whose report was acknowledged is charged its reported cost, or
  its whole reservation if the cost is unknown. The invariant speaks of one call: before the
  reservation commits it has no row (`Unbooked`), an open row belongs to a call that has been
  admitted (`Open`), the charge follows from the status (`Charged`), reports are counted and an
  acknowledged one has settled the row (`Counted`). The step that needs care is a report
  that commits after the recovery has settled the row as unknown.
* `FirstCallsStayWithinLimit`: the first calls of all tasks stay within the daily limit, as far
  as they were estimated. The total is the cardinality of a set of units; `AdmissionInv` adds that
  a call which has added up holds the lock and that its estimate still fits.

`ServicesProofs`, of `MemoryWork`

* `MemoryTypeCorrect`; `MessagesReadExactlyOnce`: when no request is open, every message has been read, and no text
  was read twice. `FactsComeFromPresentTexts`: nothing is remembered of a text that was
  changed or taken back, or while the memory is off. The invariant ties the counters
  (`RequestsCounted`), says that the cursor has passed every message that was read
  (`CursorPassed`), and that a worker whose lease is its own holds the batch that follows the
  cursor (`BatchKnown`) and a request that is still open (`RequestOpen`). The lemmas `ClosingKeeps` and
  `ReadingKeeps` are the two ways in which a batch ends.

`ServicesProofs`, of `SnapshotRetention`, all with `~Rewinds` (the repository never returns to an earlier commit)

* `RetentionTypeCorrect`; `ReadersKeepTheirVersion`: what is leased, current or the base of the next version is readable.
  `UploadsStayProtected`: no deletion reaches what an update has uploaded. The key of an
  update is new and no later one is (`KeysGrow`), payloads are whole until purged
  (`PayloadKept`), only purged payloads are deleted (`DeletesPurged`), the head is current
  (`HeadCurrent`) and leases keep what they found (`LeaseKept`). With `Rewinds` the second fails: finding 4.

`DirectoryGenerationsProofs`, the last two with `~Torn`

* `DirectoryTypeCorrect`; `ObjectsStayOwned`: every object in the store is known to somebody who deletes it.
  `DirectoriesStayReadable`, for readers with leases: what is bound or read is complete. What
  links a publication and a reader to the reclamation is `older`: a generation is only taken apart
  (`BatchEffect`) when everybody has ended who was open when its retirement was
  noted. So a publication whose generation is queued behind its back is waited for
  (`Waited`) and keeps its row, manifest and tables (`Described`); a generation that was given
  up can no longer be bound (`DoomedGivenUp`, `Bindable`); and a reader's generation, bound when the read
  began, is observed only later, hence with the reader among those waited for
  (`WhileBound`, `WhileRead`).

`RecordsProofs`, of `SkillEvolution`

* `EvolutionTypeCorrect`; `PublishedVersionsStay` and `HistoryFollowsDecisions`: no later review changes a published
  version, and the history of a skill is what the decisions say. The registry is changed
  by the holder of one lock only; the invariant (`HistoryStarts`, `NotYetReviewed`,
  `ReviewInv`, `OperatorInv`) says that the holder finds the registry as it expected it
  when it decided, and publishes into a directory no entry names yet.
* `LedgersStayTruthful`: a ledger that shows no operation in doubt and asks for no look says what the
  registry says, at every moment, also between the two saves of an error. `TruthInv` adds that the lock
  of a review gives it the task for itself (`LocksInv`), and where each review stands between registry and
  ledger (`Reviewing`): nothing written yet, perhaps written and then the ledger is unsure,
  or written and not yet noted. What it will save must tell the truth as well, with the operation
  settled that a conflict settles (`AsRead`). A recovery only ever notes
  that somebody has to look, or ends a task whose worker is gone (`RecoveryTells`).

`RecordsProofs`, of `ConversationTurns`: four theorems from one inductive invariant, `TurnsInv`

* `AnswersStayPaired`. That an answer is saved under its own question needs that the question of
  a turn that holds the session is the last message (`Stands`), which the fence of the session
  ensures: a session is open only in the turn that holds the chat (`Permits`). It also needs that
  messages are unique by role and number (`Unique`), since a replay and an edit look for
  them by number, and that a turn that has not answered or asked yet shares its number
  with nobody (`Unanswered`, `Unasked`).
* `ContextsStayFaithful`. An edit cuts the branch first and the transcript later, a stall or
  a refusal may come in between. `Contexts` says that every answer of the current branch is in the
  transcript (`Known`) and lies behind its question (`Placed`): hence the cut at the question, or
  the branch made from the visible messages if the question is missing there, loses the edited
  answer (`Trimmed`), and the undo gives back a branch for which both hold (`Opened`). Later
  snapshots have empty branches, so a migration starts from nothing.
* `MessagesAuthoriseOnce`. `Spent` says that executed actions have different source messages and
  that each of these is marked as applied; `Authorised` that a card belongs to the question before
  its answer, and is executed if the question is marked with it; `Asks` and `EditsLast` that a
  turn brings the mark of the question it edits along, so that no edit clears it.
* `ConfirmedStaysKept`. A turn saves the study it read only if the study has not changed
  (`Judged`); a reservation stands while its lane generates, because a late report asks
  for its own run.

A step of a lane is proved in three parts: what it does to the row (`RowEffect`), to lanes and
permits (`Control`), and what it leaves its own turn (`Serves`); all other lanes are covered once
(`Undisturbed`, `LostOwn`), because what they claim is theirs only while they hold the permit.

Only model-checked:

* all liveness (`EveryCallAnswered`, `EveryChangeAnswered`, `NoStarvation`, `JobEnds`, `UpdateEnds`,
  `EveryMessageRead`, `PurgedGone`, `AbandonedGone`): fairness and ENABLED are beyond the prover;
* the properties of the violated runs, which do not hold;
* `NobodyForgotten` as a whole: its part `UpdatesLed` is proved without hypotheses (`UpdatesStayLed`) and
  its part `SomebodyWorks` for `Slow = {}`; `WaitersServed`, and `SomebodyWorks` beside a slow
  request, hold in the run but not for every instance (a deletion among projects of one language, section 6);
* `EndsOnce` and `TypeOK` of `RepositoryUpdates` with `Slow` requests, `SnapshotRetention`
  with `Rewinds` and `DirectoryGenerations` with `Torn`, where the theorems do not hold of the code.

Every invariant and every action property of a passing run that is not in this list is stated by a
theorem.

## 6. Findings and known deviations

Findings, each with a run that exhibits it:

1. `AnalysisStop`: `stop()` does not wait for a claim that `runOnce()` has sent; its
   execution begins after `stop()` has returned (`analysis/coordinator.ts:351`). The process
   usually exits right after, so the job waits for its lease.
2. `UpdatesExhausted`: an overlay execution works on the snapshot its project has now
   (`analysis/coordinator.ts:575`). If a publication has moved the project on, its own
   job is ended by nothing, is claimed as exhausted again and again, and each time marks
   the newer overlay as failed, even if it is ready; the project then shows a running
   analysis or a failure until somebody asks again.
3. `ConversationCopies`: a request for an analysis saves the copy of the project it read
   several calls earlier (`services/repository-service.ts:302`); a step or route
   confirmed meanwhile is undone.
4. `SnapshotReuse`: the routine purge deletes objects after its COMMIT without the guard
   that publications hold (`persistence/postgres-store.ts:3212`). A repository that
   returns to an earlier commit may find its new payload deleted.
5. `DirectoryReads`: a purge deletes the objects of a bound directory after its COMMIT, while a
   transaction that reads it without a lease is open. Its tables are waited for, its objects
   are not (`persistence/postgres-store.ts:3212`).

Deviation TLC reports for `DirectoryGenerations` with `Torn = TRUE`: a batch reads the manifest
of a generation when it chooses it (`persistence/directory-reclamation.ts:47`) and the intents
after it has locked it (`:133-136`). A publication that writes the manifest and drops the intents
in between makes both empty, and the generation is deleted with its objects in no ledger
(`ObjectsOwned`, `AbandonedGone`), although "an interrupted upload or a rolled-back publication
therefore leaves recoverable ownership metadata" (`src/docs/object-storage.md:62-63`). It takes an
upload of more than three hours or a purge at that moment. The inventory of the store may find
the object later; it is not modelled.

Deviations TLC reports for instances of `RepositoryUpdates` that the passing run, or the statement
of its properties, excludes on purpose:

* A project of a slow client: a request holds a copy of its project across several calls. If a
  publication comes between, saving the copy binds the project to the retired
  snapshot (`FollowsHead`, if it spoke of all projects; `services/repository-service.ts:302`,
  `:318-380`).
  `refreshMigrationNotice()` (`:738`, called when messages are read) repairs a
  lagging binding of the same analysis lineage on the next use; a copy without any snapshot is
  not repaired, and an overlay execution then finishes only its own job, so that
  a waiter of that overlay in another project stays (`WaitersServed`, with `Slow = {b}`;
  `analysis/coordinator.ts:640-657`).
* `Slow` with `Deletable`: the upsert at the end of a request brings a deleted project
  back, showing a running analysis without a job (`SomebodyWorks`).
* `Slow` with `Background`: a request that has seen no active job (`repository-service.ts:138`)
  joins the update which the scheduler has started on the same project; a publication ends
  only the newest job of a project (`postgres-store.ts:2220-2224`) and the other one
  waits for ever (`WaitersServed`).
* Two slow clients of one project: both see no active job and ask, and the project has two jobs of one
  update. The publication ends only the newest; the other one stays active, is promoted to leader by a
  deletion, which does not look at the status of the update (`postgres-store.ts:739-777`), or is the
  publisher's own, and publishes or fails the ended update again (`EndsOnce`).
* `Deletable = {2}`: deleting the project whose job runs a language overlay promotes
  nobody (`postgres-store.ts:739-777`), and waiters of that overlay in other projects
  stay (`WaitersServed`). The tests cover the other two cases: "promotes
  a waiting repository update when its leader project is deleted"
  (`persistence/persistence.test.ts:260`) and "promotes a language overlay waiter when
  its leader is cancelled" (`:450`).
* A failed background update anchored at a project whose overlay is pending marks it
  done (`postgres-store.ts:2443`).
* Deleting the only project of a background update that runs leaks its reservation for the day
  (`postgres-store.ts:778`): `BudgetAccounted` says so, and that nothing else does.
* `StaleNeverWrites` has one exception, stated in it: after an exhausted claim by the
  worker that held the last attempt, `LEAST(attempt + 1, max_attempts)` gives both executions the
  same fence (`persistence/analysis-scheduler.ts:46`). And an exhausted execution that is
  handed back on a graceful stop gets `attempt - 1`: the analysis is run once more
  (`persistence/postgres-store.ts:3668`), which `StartsBounded` counts.

Risks seen while reading that no property covers:

* `clearAnalysisCheckpoint()` carries no fence: a late execution removes the checkpoint of
  a later analysis of the project (`analysis/coordinator.ts:1176`).
* `refreshMigrationNotice()` moves the project to the current snapshot first and asks for its
  overlay in a later call (`services/repository-service.ts:795`).
* A publication queues jobs again as overlay jobs with attempt 0, so that a fence (worker,
  attempt) of the previous use may become valid again (`persistence/postgres-store.ts:2347`).
* Between two stages the coordinator reads the checkpoint that decides the next stage
  without its fence (`analysis/stage-executor.ts:100`).
* An owner who keeps joining running groups can keep its own older analysis from
  starting, and owners who were never served precede all others
  (`scheduling/analysis.ts:58-61`, `:68-76`).
* Evolution: two recoveries at a time may both take over a stale lock
  (`versions.ts:343-358`); a recovery beside a live review may note "not committed" of
  a publication that commits afterwards; a crash between the creation of a task and the
  save of its request makes every later promotion of the request fail once the base
  has changed (`feedback-queue.ts:258-262`); tasks whose base is outdated stay `created` and
  take the places of a batch (`feedback-worker.ts:47-56`); two reviews of one Skill at a time
  send one of them to manual recovery; no code removes a stale review lock.

## 7. Not modelled

Stages inside an execution and their checkpoints, cancellation of jobs of shared updates
(no caller in the service layer), `refreshMigrationNotice()`, freshness and interval rules of
background updates, the packs of sources, the delay before a retry, and the parts marked `not_modelled` in `PROJECT.json` with their
reasons (pure functions of texts and source trees, development variants, routing,
reports). Each module's section above names what it leaves out of its own part. Row
locks inside one transaction are not modelled as delays: a transaction is one step.

By far the most lines of the repository are a web client, analysers of source text,
prompts, validation of records and reports. They keep no state that several actors
change, so they have no protocol to model, and the share of lines the models stand for is
small for that reason.

## 8. What could follow

1. `RepositoryUpdates`: what holds of the project of a slow client, whose request works on an old
   copy until `refreshMigrationNotice()` has repaired it.
2. The stages of one execution as a refinement of the interval between `Begin` and `Close`
   of `AnalysisJobs`; the reset of `attempt` by a publication composed with the fence.
3. `LocalProviderCallGate` and `KeyedMutex`.
