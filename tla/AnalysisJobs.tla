--------------------------- MODULE AnalysisJobs ---------------------------
(***************************************************************************)
(* One durable analysis job, from the queue to its end, and the workers    *)
(* that execute it: server/src/analysis/coordinator.ts (AnalysisCoordinator)*)
(* over the leases of persistence/analysis-scheduler.ts and                *)
(* persistence/postgres-store.ts.                                          *)
(*                                                                         *)
(* The job is a standalone one: its result goes to one project.  A `lane'  *)
(* is one of the loops runOnce() starts; a worker has as many as its       *)
(* concurrency.  Every transaction is one step; a lane that has sent a     *)
(* claim and not yet seen the answer is a state of its own.  Time is       *)
(* reduced to whether the lease has run out, so heartbeats, which keep a   *)
(* live lease alive, are the steps Lapse does not take.  The delay before  *)
(* a retry and the choice among several jobs are left out.                 *)
(***************************************************************************)
EXTENDS Integers, FiniteSets

CONSTANTS
  Workers,      \* workerId: a fresh one for every process
  Lanes,        \* the loops a worker may have, of all workers
  WorkerOf,     \* the worker of each lane
  Mortal,       \* workers whose process may be stopped or die
  MaxAttempts,  \* max_attempts
  MaxFaults,    \* how often a live execution may miss its lease or fail to renew it
  None

ASSUME LanesAssumption ==
  /\ WorkerOf \in [Lanes -> Workers]
  /\ Mortal \subseteq Workers
  /\ None \notin Lanes \cup Workers
  /\ MaxAttempts \in Nat \ {0} /\ MaxFaults \in Nat

VARIABLES
  job,         \* the row of analysis_jobs
  project,     \* analysis.stage of its project: "active", "done" or "failed"
  lane,        \* where each loop stands and the fence it carries
  worker,      \* each process
  controller,  \* activeControllers.get(job_id) of each worker
  faults,
  latest,      \* history: the lane that claimed the job last
  granted,     \* history: claims that let the analysis run
  resumed,     \* history: executions handed back by releaseAnalysisJobForResume
  spent,       \* history: the job was once claimed as exhausted
  loops        \* configuration: the lanes that the concurrency of the workers allows

\* The history, and the configuration, which no step changes.
history == <<latest, granted, resumed, spent, loops>>
vars == <<job, project, lane, worker, controller, faults, history>>

Ended == {"succeeded", "failed", "cancelled"}
Asking == {"dispatching", "draining"}     \* a claim is on its way to the database
Granted == {"dispatched", "drained"}      \* its answer is on the way back
Executing == {"preparing", "working", "completing", "failing", "finalizing"}

Codes == {"none", "exhausted"}            \* error_code, lease_attempts_exhausted

Job == [status : {"queued", "running"} \cup Ended, attempt : 0..MaxAttempts,
        owner : Workers \cup {None}, lease : {"none", "live", "expired"},
        code : Codes]

Lane == [at : {"idle", "closing"} \cup Asking \cup Granted \cup Executing,
         attempt : 0..MaxAttempts, code : Codes,
         reason : {"none", "revoked", "stopping"}]

Free(at) == [at |-> at, attempt |-> 0, code |-> "none", reason |-> "none"]
Idle == Free("idle")

Init ==
  /\ job = [status |-> "queued", attempt |-> 0, owner |-> None, lease |-> "none",
            code |-> "none"]
  /\ project = "active"
  /\ lane = [l \in Lanes |-> Idle]
  /\ worker = [w \in Workers |-> "up"]
  /\ controller = [w \in Workers |-> None]
  /\ faults = 0
  /\ latest = None /\ granted = 0 /\ resumed = 0 /\ spent = FALSE
  /\ loops \in SUBSET Lanes

Of(w) == {l \in Lanes : WorkerOf[l] = w}
Goes(l, at) == lane' = [lane EXCEPT ![l].at = at]

-----------------------------------------------------------------------------
(* The fence of every write of an execution.                                 *)

\* Mutant: the fence names the worker only.
FencedByWorker(l) ==
  job.status = "running" /\ job.owner = WorkerOf[l] /\ job.lease = "live"

\* assertAnalysisLeaseWithDb() and the WHERE of finishAnalysisJob().
Fenced(l) ==
  /\ job.status = "running"
  /\ job.owner = WorkerOf[l]
  /\ job.attempt = lane[l].attempt
  /\ job.lease = "live"

\* The row without an owner and with another error_code.
Unowned(status, attempt) ==
  [status |-> status, attempt |-> attempt, owner |-> None, lease |-> "none",
   code |-> "none"]

-----------------------------------------------------------------------------
(* Claiming: runOnce(), claimAndProcess() and claimFairAnalysis().           *)

\* Mutant: expired leases are not reclaimed.
ClaimableQueued == job.status = "queued"

Claimable ==
  \/ job.status = "queued"
  \/ job.status = "running" /\ job.lease = "expired"

\* Mutant: a job at its last attempt is claimed like any other.
ClaimedUncounted(w) ==
  [status |-> "running", attempt |-> IF job.attempt < MaxAttempts THEN job.attempt + 1 ELSE MaxAttempts,
   owner |-> w, lease |-> "live", code |-> "none"]

Claimed(w) ==
  [status |-> "running",
   attempt |-> IF job.attempt < MaxAttempts THEN job.attempt + 1 ELSE MaxAttempts,
   owner |-> w, lease |-> "live", code |-> IF job.attempt >= MaxAttempts THEN "exhausted" ELSE "none"]

\* runOnce() asks for work; `dispatching' admits one such claim per worker.
Dispatch(l) ==
  LET w == WorkerOf[l] IN
  /\ l \in loops /\ worker[w] = "up" /\ lane[l] = Idle
  /\ \A k \in Of(w) : lane[k].at \notin {"dispatching", "dispatched"}
  /\ Goes(l, "dispatching")
  /\ UNCHANGED <<job, project, worker, controller, faults, history>>

CommitClaim(l) ==
  /\ lane[l].at \in Asking /\ Claimable
  /\ job' = Claimed(WorkerOf[l])
  /\ lane' = [lane EXCEPT ![l] =
       [at |-> IF @.at = "dispatching" THEN "dispatched" ELSE "drained",
        attempt |-> job'.attempt, code |-> job'.code, reason |-> "none"]]
  /\ latest' = l
  /\ granted' = IF job'.code = "exhausted" THEN granted ELSE granted + 1
  /\ spent' = (spent \/ job'.code = "exhausted")
  /\ UNCHANGED <<project, worker, controller, faults, resumed, loops>>

FindNothing(l) ==
  /\ lane[l].at \in Asking /\ ~Claimable
  /\ lane' = [lane EXCEPT ![l] = Idle]
  /\ UNCHANGED <<job, project, worker, controller, faults, history>>

\* process() registers its controller, whatever stop() did meanwhile.
Begin(l) ==
  /\ lane[l].at \in Granted /\ worker[WorkerOf[l]] # "dead"
  /\ controller' = [controller EXCEPT ![WorkerOf[l]] = l]
  /\ Goes(l, IF lane[l].code = "exhausted" THEN "finalizing" ELSE "preparing")
  /\ UNCHANGED <<job, project, worker, faults, history>>

-----------------------------------------------------------------------------
(* Executing.  With a stage executor the steps are those of a child process, *)
(* which may outlive its worker for a moment.                                *)

\* updateAnalysisProjects() and recordAnalysisPhase(): the analysis begins.
Prepare(l) ==
  /\ lane[l].at = "preparing" /\ Fenced(l)
  /\ project' = "active"
  /\ Goes(l, "working")
  /\ UNCHANGED <<job, worker, controller, faults, history>>

\* Mutant: completeProject() without its fence.
CompletesUnfenced(l) == lane[l].at = "working"

Completes(l) == lane[l].at = "working" /\ Fenced(l)

\* completeProject(), the first of the two transactions that end a success.
Complete(l) ==
  /\ Completes(l)
  /\ project' = "done"
  /\ Goes(l, "completing")
  /\ UNCHANGED <<job, worker, controller, faults, history>>

\* The project fails first, under the lease: a final error of the analysis, or
\* the finalisation of a job whose attempts are used up.
FailProject(l) ==
  /\ lane[l].at \in {"preparing", "working", "finalizing"} /\ Fenced(l)
  /\ project' = "failed"
  /\ Goes(l, "failing")
  /\ UNCHANGED <<job, worker, controller, faults, history>>

\* finishAnalysisJob(), whose answer nobody looks at.
Finish(l) ==
  /\ lane[l].at \in {"completing", "failing"}
  /\ job' = IF Fenced(l)
            THEN Unowned(IF lane[l].at = "completing" THEN "succeeded" ELSE "failed",
                         job.attempt)
            ELSE job
  /\ Goes(l, "closing")
  /\ UNCHANGED <<project, worker, controller, faults, history>>

Retryable(l) == lane[l].attempt < MaxAttempts

\* requeueAfterTransientFailure(): finishAnalysisJob() with status queued.  The
\* error it leaves in the project is not modelled.
Requeue(l) ==
  /\ lane[l].at \in {"preparing", "working"} /\ Retryable(l)
  /\ job' = IF Fenced(l) THEN Unowned("queued", job.attempt) ELSE job
  /\ Goes(l, "closing")
  /\ UNCHANGED <<project, worker, controller, faults, history>>

\* A fenced write throws AnalysisLeaseLostError.
LoseLease(l) ==
  /\ lane[l].at \in {"preparing", "working", "finalizing"} /\ ~Fenced(l)
  /\ Goes(l, "closing")
  /\ UNCHANGED <<job, project, worker, controller, faults, history>>

\* The body notices the abort, or its child process is killed.
GiveUp(l) ==
  /\ lane[l].at \in Executing /\ lane[l].reason # "none"
  /\ Goes(l, "closing")
  /\ UNCHANGED <<job, project, worker, controller, faults, history>>

\* controller.abort(): the first reason stays.
Aborted(l, reason) ==
  [lane EXCEPT ![l].reason = IF @ = "none" THEN reason ELSE @]

\* pollCancellation(), every second: cancelled, or claimed by someone else.
Poll(l) ==
  /\ lane[l].at \in Executing /\ lane[l].reason = "none" /\ worker[WorkerOf[l]] # "dead"
  /\ \/ job.status # "running"
     \/ job.owner # WorkerOf[l]
     \/ job.attempt # lane[l].attempt
  /\ lane' = Aborted(l, "revoked")
  /\ UNCHANGED <<job, project, worker, controller, faults, history>>

\* A heartbeat is refused, or fails although the lease is good.
FailHeartbeat(l) ==
  /\ lane[l].at \in Executing /\ lane[l].reason = "none" /\ worker[WorkerOf[l]] # "dead"
  /\ Fenced(l) => faults < MaxFaults
  /\ faults' = IF Fenced(l) THEN faults + 1 ELSE faults
  /\ lane' = Aborted(l, "revoked")
  /\ UNCHANGED <<job, project, worker, controller, history>>

\* Mutant: the job is handed back whatever became of it.
ReleasableAlways(l) == lane[l].reason = "stopping" /\ job.attempt = lane[l].attempt

\* releaseAnalysisJobForResume() does not ask whether the lease has run out.
Releasable(l) ==
  /\ lane[l].reason = "stopping"
  /\ job.status = "running" /\ job.owner = WorkerOf[l] /\ job.attempt = lane[l].attempt

\* The `finally' of process(): activeControllers.delete(job_id), whoever put the
\* entry there; then the loop claims again unless the worker is stopping.
Close(l) ==
  LET w == WorkerOf[l] IN
  /\ lane[l].at = "closing" /\ worker[w] # "dead"
  /\ controller' = [controller EXCEPT ![w] = None]
  /\ IF Releasable(l)
     THEN /\ job' = Unowned("queued", job.attempt - 1)
          /\ resumed' = resumed + 1
     ELSE UNCHANGED <<job, resumed>>
  /\ lane' = [lane EXCEPT ![l] = Free(IF worker[w] = "up" THEN "draining" ELSE "idle")]
  /\ UNCHANGED <<project, worker, faults, latest, granted, spent, loops>>

-----------------------------------------------------------------------------
(* The world around the executions.                                          *)

\* Somebody in a living process still renews the lease.
Renewed == \E l \in Lanes :
  /\ lane[l].at \in Executing \cup Granted /\ worker[WorkerOf[l]] # "dead"
  /\ job.owner = WorkerOf[l] /\ job.attempt = lane[l].attempt

\* lease_expires_at passes: nobody renews it, or the process was suspended.
Lapse ==
  /\ job.status = "running" /\ job.lease = "live"
  /\ Renewed => faults < MaxFaults
  /\ faults' = IF Renewed THEN faults + 1 ELSE faults
  /\ job' = [job EXCEPT !.lease = "expired"]
  /\ UNCHANGED <<project, lane, worker, controller, history>>

\* cancelAnalysisJob(): job and project in one transaction.
Cancel ==
  /\ job.status \in {"queued", "running"}
  /\ job' = Unowned("cancelled", job.attempt)
  /\ project' = "failed"
  /\ UNCHANGED <<lane, worker, controller, faults, history>>

\* stop() aborts the executions it knows of ...
Stop(w) ==
  /\ w \in Mortal /\ worker[w] = "up"
  /\ worker' = [worker EXCEPT ![w] = "stopping"]
  /\ lane' = IF controller[w] = None THEN lane ELSE Aborted(controller[w], "stopping")
  /\ UNCHANGED <<job, project, controller, faults, history>>

\* ... and returns when none is in inFlight.  A claim of runOnce() that has not
\* been answered is not.
InFlight(w) == {l \in Of(w) : lane[l].at \notin {"idle", "dispatching", "dispatched"}}

Stopped(w) ==
  /\ worker[w] = "stopping" /\ InFlight(w) = {}
  /\ worker' = [worker EXCEPT ![w] = "stopped"]
  /\ UNCHANGED <<job, project, lane, controller, faults, history>>

\* The process exits or is killed; its children and its last statement may
\* take effect before they vanish too.
Die(w) ==
  /\ w \in Mortal /\ worker[w] # "dead"
  /\ worker' = [worker EXCEPT ![w] = "dead"]
  /\ controller' = [controller EXCEPT ![w] = None]
  /\ UNCHANGED <<job, project, lane, faults, history>>

Vanish(l) ==
  /\ worker[WorkerOf[l]] = "dead" /\ lane[l].at # "idle"
  /\ lane' = [lane EXCEPT ![l] = Idle]
  /\ UNCHANGED <<job, project, worker, controller, faults, history>>

-----------------------------------------------------------------------------

Claims(l) == Dispatch(l) \/ CommitClaim(l) \/ FindNothing(l) \/ Begin(l)
Runs(l) == \/ Prepare(l) \/ Complete(l) \/ FailProject(l) \/ Finish(l) \/ Requeue(l)
           \/ LoseLease(l) \/ GiveUp(l) \/ Close(l) \/ Vanish(l)
Watches(l) == Poll(l) \/ FailHeartbeat(l)

Next ==
  \/ \E l \in Lanes : Claims(l) \/ Runs(l) \/ Watches(l)
  \/ \E w \in Workers : Stop(w) \/ Stopped(w) \/ Die(w)
  \/ Lapse \/ Cancel

Spec == Init /\ [][Next]_vars

\* Every loop proceeds: claims are retried every 15 s, stages have time limits.
\* An unrenewed lease runs out.
Fairness ==
  /\ \A l \in Lanes : WF_vars(Claims(l)) /\ WF_vars(Runs(l))
  /\ WF_vars(Lapse /\ ~Renewed)

FairSpec == Spec /\ Fairness

-----------------------------------------------------------------------------
(* Properties.                                                               *)

TypeOK ==
  /\ job \in Job /\ project \in {"active", "done", "failed"}
  /\ lane \in [Lanes -> Lane]
  /\ worker \in [Workers -> {"up", "stopping", "stopped", "dead"}]
  /\ controller \in [Workers -> Lanes \cup {None}]
  /\ faults \in 0..MaxFaults
  /\ latest \in Lanes \cup {None}
  /\ granted \in Nat /\ resumed \in Nat /\ spent \in BOOLEAN
  /\ loops \subseteq Lanes

\* A job that ended and its project tell the same story, although a success or a
\* failure writes them in two transactions and a cancellation may come between
\* (completeProject, then finishAnalysisJob).
Agreement ==
  /\ job.status = "succeeded" => project = "done"
  /\ job.status \in {"failed", "cancelled"} => project = "failed"

OneLoopEach == \A k, l \in loops : WorkerOf[k] = WorkerOf[l] => k = l

\* Agreement, whatever happens where every worker has one loop; where one has more,
\* until the job is claimed as exhausted: that claim shares the fence of the last
\* attempt if the same worker made it, and both executions may then end the project.
AgreementOfLoops == OneLoopEach \/ ~spent => Agreement

\* Once a job has ended, no execution that is still running changes it or its
\* project: the fence of updateProject and finishAnalysisJob.
EndedForGood == [][job.status \in Ended => UNCHANGED <<job, project>>]_vars

\* The analysis is begun at most max_attempts times, not counting the executions
\* that were handed back on a graceful stop (attempt = attempt - 1): neither
\* retries, nor lost leases, nor both at once grant it once more.
StartsBounded == granted <= MaxAttempts + resumed

\* Lane l changes the job or its project as an execution.
Writes(l) ==
  /\ lane[l].at \in Executing \cup {"closing"}
  /\ lane'[l].at # lane[l].at
  /\ <<job, project>>' # <<job, project>>

\* Only the last claim may write.  The one exception is the claim of an exhausted
\* job by the worker that already held its last attempt: LEAST(attempt + 1, max)
\* gives both executions the same fence.
StaleNeverWrites ==
  [][\A l \in Lanes : Writes(l) =>
       \/ l = latest
       \/ spent /\ WorkerOf[l] = WorkerOf[latest] /\ lane[l].attempt = MaxAttempts]_vars

\* A stopped worker has no execution left: "waits for an active run during graceful
\* stop" and "releases its job lease for immediate resume on graceful stop".
StopWaits == \A w \in Workers : worker[w] = "stopped" =>
  \A l \in Of(w) : lane[l].at \notin Executing

\* Whatever happens to its workers, a job ends as long as one of them survives.
JobEnds == <>(job.status \in Ended)
=============================================================================
