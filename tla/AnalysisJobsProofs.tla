------------------------ MODULE AnalysisJobsProofs ------------------------
(***************************************************************************)
(* Theorems about AnalysisJobs, for any number of workers, loops and       *)
(* attempts: type correctness, the bound on granted executions, and the    *)
(* guarantee of the fence.                                                 *)
(***************************************************************************)
EXTENDS AnalysisJobs, TLAPS

-----------------------------------------------------------------------------

LEMMA Lanes_Type == \A l \in Lanes : WorkerOf[l] \in Workers
BY LanesAssumption

LEMMA GoesEffect ==
  ASSUME lane \in [Lanes -> Lane], NEW l \in Lanes, NEW at, Goes(l, at)
  PROVE  /\ lane'[l].at = at /\ lane'[l].attempt = lane[l].attempt
         /\ \A m \in Lanes : m # l => lane'[m] = lane[m]
BY DEF Goes, Lane

LEMMA AbortedEffect ==
  ASSUME lane \in [Lanes -> Lane], NEW l \in Lanes, NEW reason, lane' = Aborted(l, reason)
  PROVE  \A m \in Lanes : lane'[m].at = lane[m].at /\ lane'[m].attempt = lane[m].attempt
<1>1. lane'[l].at = lane[l].at /\ lane'[l].attempt = lane[l].attempt
  BY DEF Aborted, Lane
<1>2. \A m \in Lanes : m # l => lane'[m] = lane[m]
  BY DEF Aborted
<1> QED BY <1>1, <1>2

LEMMA UnownedType ==
  ASSUME NEW s \in {"queued", "running"} \cup Ended, NEW n \in 0..MaxAttempts
  PROVE  Unowned(s, n) \in Job
BY DEF Job, Codes, Unowned

\* A running job was claimed, so it has an attempt to give back.
RunningCounted == job.status = "running" => job.attempt >= 1

TypeInv == TypeOK /\ RunningCounted

LEMMA TypeInit == Init => TypeInv
<1> SUFFICES ASSUME Init PROVE TypeInv
  OBVIOUS
<1>1. job \in Job /\ job.status # "running"
  BY LanesAssumption DEF Init, Job, Codes
<1>2. Idle \in Lane
  BY LanesAssumption DEF Idle, Free, Lane, Codes
<1>3. lane \in [Lanes -> Lane]
  BY <1>2 DEF Init
<1>4. /\ worker \in [Workers -> {"up", "stopping", "stopped", "dead"}]
      /\ controller \in [Workers -> Lanes \cup {None}]
  BY DEF Init
<1>5. faults \in 0..MaxFaults /\ granted \in Nat /\ resumed \in Nat
  BY LanesAssumption DEF Init
<1> QED BY <1>1, <1>3, <1>4, <1>5 DEF Init, TypeInv, TypeOK, RunningCounted

LEMMA TypeStep == TypeInv /\ [Next]_vars => TypeInv'
<1> SUFFICES ASSUME TypeInv, [Next]_vars PROVE TypeInv'
  OBVIOUS
<1> USE LanesAssumption, Lanes_Type DEF TypeInv, TypeOK, RunningCounted
<1>1. CASE UNCHANGED vars
  BY <1>1 DEF vars, history
<1>2. ASSUME NEW l \in Lanes, Claims(l) PROVE TypeInv'
  <2>1. CASE Dispatch(l)
    BY <2>1 DEF Dispatch, Goes, history, Lane, Codes, Asking
  <2>2. CASE CommitClaim(l)
    <3>1. Claimed(WorkerOf[l]) \in Job /\ Claimed(WorkerOf[l]).attempt >= 1
      BY DEF Claimed, Job, Codes
    <3>2. lane' \in [Lanes -> Lane]
      BY <2>2, <3>1 DEF CommitClaim, Lane, Granted, Job, Codes
    <3> QED BY <2>2, <3>1, <3>2 DEF CommitClaim, Job, Codes
  <2>3. CASE FindNothing(l)
    BY <2>3 DEF FindNothing, history, Lane, Codes, Idle, Free
  <2>4. CASE Begin(l)
    BY <2>4 DEF Begin, Goes, history, Lane, Codes, Executing
  <2> QED BY <1>2, <2>1, <2>2, <2>3, <2>4 DEF Claims
<1>3. ASSUME NEW l \in Lanes, Runs(l) PROVE TypeInv'
  <2>1. CASE Prepare(l)
    BY <2>1 DEF Prepare, Goes, history, Lane, Codes, Executing
  <2>2. CASE Complete(l)
    BY <2>2 DEF Complete, Goes, history, Lane, Codes, Executing
  <2>3. CASE FailProject(l)
    BY <2>3, SMTT(30) DEF FailProject, Goes, history, Lane, Codes, Executing
  <2>4. CASE Finish(l)
    <3>1. job' \in Job /\ (job'.status = "running" => job' = job)
      <4>1. job.attempt \in 0..MaxAttempts
        BY DEF Job, Codes
      <4> QED BY <2>4, <4>1, UnownedType DEF Finish, Ended, Unowned
    <3> QED BY <2>4, <3>1 DEF Finish, Goes, history, Lane, Codes
  <2>5. CASE Requeue(l)
    <3>1. job' \in Job /\ (job'.status = "running" => job' = job)
      <4>1. job.attempt \in 0..MaxAttempts
        BY DEF Job, Codes
      <4> QED BY <2>5, <4>1, UnownedType DEF Requeue, Ended, Unowned
    <3> QED BY <2>5, <3>1 DEF Requeue, Goes, history, Lane, Codes
  <2>6. CASE LoseLease(l)
    BY <2>6 DEF LoseLease, Goes, history, Lane, Codes
  <2>7. CASE GiveUp(l)
    BY <2>7 DEF GiveUp, Goes, history, Lane, Codes
  <2>8. CASE Close(l)
    <3>1. job' \in Job /\ (job'.status = "running" => job' = job) /\ resumed' \in Nat
      <4>1. CASE Releasable(l)
        <5>1. job.attempt - 1 \in 0..MaxAttempts
          BY <4>1 DEF Releasable, Job, Codes
        <5> QED BY <2>8, <4>1, <5>1, UnownedType DEF Close, Unowned
      <4>2. CASE ~Releasable(l)
        BY <2>8, <4>2 DEF Close
      <4> QED BY <4>1, <4>2
    <3>2. lane' \in [Lanes -> Lane]
      BY <2>8 DEF Close, Lane, Codes, Idle, Free, Asking
    <3> QED BY <2>8, <3>1, <3>2 DEF Close
  <2>9. CASE Vanish(l)
    BY <2>9 DEF Vanish, history, Lane, Codes, Idle, Free
  <2> QED BY <1>3, <2>1, <2>2, <2>3, <2>4, <2>5, <2>6, <2>7, <2>8, <2>9 DEF Runs
<1>4. ASSUME NEW l \in Lanes, Watches(l) PROVE TypeInv'
  <2>1. CASE Poll(l)
    BY <2>1 DEF Poll, Aborted, history, Lane, Codes
  <2>2. CASE FailHeartbeat(l)
    BY <2>2 DEF FailHeartbeat, Aborted, history, Lane, Codes
  <2> QED BY <1>4, <2>1, <2>2 DEF Watches
<1>5. ASSUME NEW w \in Workers, Stop(w) \/ Stopped(w) \/ Die(w) PROVE TypeInv'
  <2>1. CASE Stop(w)
    <3>1. lane' \in [Lanes -> Lane]
      BY <2>1 DEF Stop, Aborted, Lane, Codes
    <3> QED BY <2>1, <3>1 DEF Stop, history
  <2>2. CASE Stopped(w)
    BY <2>2 DEF Stopped, history
  <2>3. CASE Die(w)
    BY <2>3 DEF Die, history
  <2> QED BY <1>5, <2>1, <2>2, <2>3
<1>6. CASE Lapse
  BY <1>6 DEF Lapse, history, Job, Codes
<1>7. CASE Cancel
  <2>1. job' \in Job /\ job'.status # "running"
    <3>1. job.attempt \in 0..MaxAttempts
      BY DEF Job, Codes
    <3> QED BY <1>7, <3>1, UnownedType DEF Cancel, Ended, Unowned
  <2> QED BY <1>7, <2>1 DEF Cancel, history
<1> QED BY <1>1, <1>2, <1>3, <1>4, <1>5, <1>6, <1>7 DEF Next

\* Every reachable state is well typed; a running job has attempt >= 1.
THEOREM TypeCorrect == Spec => []TypeOK
<1>1. Spec => []TypeInv
  BY TypeInit, TypeStep, PTL DEF Spec
<1>2. TypeInv => TypeOK
  BY DEF TypeInv
<1> QED BY <1>1, <1>2, PTL

-----------------------------------------------------------------------------
(* Attempts are conserved: each grant raises attempt by one, each hand-back  *)
(* lowers it by one, nothing else touches it.                                *)

Conserved == granted <= job.attempt + resumed

LEMMA ConservedStep == TypeInv /\ Conserved /\ [Next]_vars => Conserved'
<1> SUFFICES ASSUME TypeInv, Conserved, [Next]_vars PROVE Conserved'
  OBVIOUS
<1> USE DEF TypeInv, TypeOK, RunningCounted, Conserved
<1>1. CASE UNCHANGED vars
  BY <1>1 DEF vars, history
<1>2. ASSUME NEW l \in Lanes, CommitClaim(l) PROVE Conserved'
  <2>1. job.attempt \in Nat
    BY LanesAssumption DEF Job, Codes
  <2>2. CASE job.attempt < MaxAttempts
    <3>1. job'.attempt = job.attempt + 1 /\ job'.code = "none"
      BY <1>2, <2>1, <2>2, LanesAssumption DEF CommitClaim, Claimed
    <3>2. granted' = granted + 1 /\ resumed' = resumed
      BY <1>2, <3>1 DEF CommitClaim
    <3> QED BY <2>1, <3>1, <3>2
  <2>3. CASE job.attempt >= MaxAttempts
    <3>1. job'.attempt = job.attempt /\ job'.code = "exhausted"
      BY <1>2, <2>1, <2>3, LanesAssumption DEF CommitClaim, Claimed, Job, Codes
    <3>2. granted' = granted /\ resumed' = resumed
      BY <1>2, <3>1 DEF CommitClaim
    <3> QED BY <2>1, <3>1, <3>2
  <2> QED BY <2>1, <2>2, <2>3, LanesAssumption
<1>3. ASSUME NEW l \in Lanes, Finish(l) \/ Requeue(l) PROVE Conserved'
  BY <1>3 DEF Finish, Requeue, Unowned, history, Job, Codes
<1>4. ASSUME NEW l \in Lanes, Close(l) PROVE Conserved'
  <2>1. CASE Releasable(l)
    BY <1>4, <2>1 DEF Close, Releasable, Unowned, Job, Codes
  <2>2. CASE ~Releasable(l)
    BY <1>4, <2>2 DEF Close
  <2> QED BY <2>1, <2>2
<1>5. CASE Lapse \/ Cancel
  BY <1>5 DEF Lapse, Cancel, Unowned, history, Job, Codes
<1>6. ASSUME NEW l \in Lanes,
             \/ Dispatch(l) \/ FindNothing(l) \/ Begin(l) \/ Prepare(l) \/ Complete(l)
             \/ FailProject(l) \/ LoseLease(l) \/ GiveUp(l) \/ Vanish(l) \/ Watches(l)
      PROVE  Conserved'
  BY <1>6 DEF Dispatch, FindNothing, Begin, Prepare, Complete, FailProject, LoseLease,
              GiveUp, Vanish, Watches, Poll, FailHeartbeat, history
<1>7. ASSUME NEW w \in Workers, Stop(w) \/ Stopped(w) \/ Die(w) PROVE Conserved'
  BY <1>7 DEF Stop, Stopped, Die, history
<1> QED BY <1>1, <1>2, <1>3, <1>4, <1>5, <1>6, <1>7 DEF Next, Claims, Runs

\* No combination of retries, lost leases and restarts grants the analysis more
\* often than max_attempts plus the number of hand-backs.
THEOREM StartsStayBounded == Spec => []StartsBounded
<1>1. Init => TypeInv /\ Conserved
  BY TypeInit DEF Init, Conserved
<1>2. TypeInv /\ Conserved /\ [Next]_vars => (TypeInv /\ Conserved)'
  BY TypeStep, ConservedStep
<1>3. TypeInv /\ Conserved => StartsBounded
  BY LanesAssumption DEF TypeInv, TypeOK, Conserved, StartsBounded, Job, Codes
<1> QED BY <1>1, <1>2, <1>3, PTL DEF Spec

-----------------------------------------------------------------------------
(* The fence (worker, attempt) tells the last claim from all earlier ones    *)
(* until the job is claimed as exhausted, although attempt also goes down    *)
(* when a job is handed back.                                                *)

Active == Executing \cup Granted \cup {"closing"}

OwnedByLatest ==
  job.status = "running" => latest \in Lanes /\ job.owner = WorkerOf[latest]

FencesApart ==
  ~spent => \A l \in Lanes : lane[l].at \in Active =>
    /\ lane[l].attempt <= job.attempt
    /\ job.status = "running" /\ lane[l].attempt = job.attempt => l = latest

SpentStays ==
  spent => /\ job.attempt >= MaxAttempts - 1
           /\ job.status = "running" => job.attempt = MaxAttempts

IInv == TypeInv /\ OwnedByLatest /\ FencesApart /\ SpentStays

LEMMA IInvInit == Init => IInv
<1> SUFFICES ASSUME Init PROVE IInv
  OBVIOUS
<1>1. TypeInv
  BY TypeInit
<1>2. \A l \in Lanes : lane[l].at = "idle"
  BY DEF Init, Idle, Free
<1> QED BY <1>1, <1>2 DEF Init, IInv, OwnedByLatest, FencesApart, SpentStays, Active,
          Executing, Granted

\* A lane that still carries the fence of the row is the last claim, or the job
\* is at its last attempt after an exhausted claim.
Entitled(l) ==
  \/ l = latest
  \/ spent /\ WorkerOf[l] = WorkerOf[latest] /\ lane[l].attempt = MaxAttempts

LEMMA FenceEntitles ==
  ASSUME IInv, NEW l \in Lanes, lane[l].at \in Active,
         job.status = "running", job.owner = WorkerOf[l], job.attempt = lane[l].attempt
  PROVE  Entitled(l)
<1>1. CASE spent
  BY <1>1 DEF IInv, OwnedByLatest, SpentStays, Entitled
<1>2. CASE ~spent
  BY <1>2 DEF IInv, FencesApart, Entitled
<1> QED BY <1>1, <1>2

\* Steps that leave the row and the history alone and only move or stop lanes.
LEMMA LaneStepKeeps ==
  ASSUME IInv, job' = job, latest' = latest, spent' = spent,
         \A l \in Lanes : lane'[l].at \in Active =>
           lane[l].at \in Active /\ lane'[l].attempt = lane[l].attempt
  PROVE  OwnedByLatest' /\ FencesApart' /\ SpentStays'
BY DEF IInv, OwnedByLatest, FencesApart, SpentStays, Active, Executing, Granted

\* Steps that end or requeue the row: attempt stays, nobody runs.
LEMMA RowLeftKeeps ==
  ASSUME IInv, latest' = latest, spent' = spent, job'.attempt = job.attempt,
         job'.status # "running",
         \A l \in Lanes : lane'[l].at \in Active =>
           lane[l].at \in Active /\ lane'[l].attempt = lane[l].attempt
  PROVE  OwnedByLatest' /\ FencesApart' /\ SpentStays'
BY DEF IInv, OwnedByLatest, FencesApart, SpentStays, Active, Executing, Granted

LEMMA ClaimKeeps ==
  ASSUME IInv, TypeInv', NEW l \in Lanes, CommitClaim(l)
  PROVE  OwnedByLatest' /\ FencesApart' /\ SpentStays'
<1>0. job.attempt \in 0..MaxAttempts /\ lane \in [Lanes -> Lane] /\ MaxAttempts \in Nat
  BY LanesAssumption DEF IInv, TypeInv, TypeOK, Job
<1>1. latest' = l /\ job'.owner = WorkerOf[l] /\ job'.status = "running"
  BY DEF CommitClaim, Claimed
<1>2. \A m \in Lanes : m # l => lane'[m] = lane[m]
  BY <1>0 DEF CommitClaim
<1>3. CASE job.attempt < MaxAttempts
  <2>1. job'.attempt = job.attempt + 1 /\ job'.code = "none"
    BY <1>0, <1>3 DEF CommitClaim, Claimed
  <2>2. spent' = spent /\ lane'[l].attempt = job'.attempt
    BY <1>0, <2>1 DEF CommitClaim, IInv, TypeInv, TypeOK
  <2>3. FencesApart'
    <3> SUFFICES ASSUME ~spent', NEW m \in Lanes, lane'[m].at \in Active
                 PROVE  /\ lane'[m].attempt <= job'.attempt
                        /\ lane'[m].attempt = job'.attempt => m = latest'
      BY DEF FencesApart, Active, Executing, Granted
    <3>1. CASE m = l
      BY <3>1, <1>0, <1>1, <2>1, <2>2
    <3>2. CASE m # l
      <4>1. lane[m].attempt <= job.attempt /\ lane[m].attempt \in Nat
        BY <3>2, <1>0, <1>2, <2>2 DEF IInv, FencesApart, Lane
      <4> QED BY <4>1, <3>2, <1>0, <1>2, <2>1
    <3> QED BY <3>1, <3>2
  <2>4. SpentStays'
    BY <1>0, <1>3, <2>1, <2>2 DEF IInv, SpentStays
  <2> QED BY <1>1, <2>3, <2>4 DEF OwnedByLatest
<1>4. CASE job.attempt >= MaxAttempts
  <2>1. job'.attempt = MaxAttempts /\ job'.code = "exhausted"
    BY <1>0, <1>4 DEF CommitClaim, Claimed
  <2>2. spent'
    BY <2>1 DEF CommitClaim
  <2> QED BY <1>0, <1>1, <2>1, <2>2 DEF OwnedByLatest, FencesApart, SpentStays
<1> QED BY <1>0, <1>3, <1>4

LEMMA HandBackKeeps ==
  ASSUME IInv, NEW l \in Lanes, Close(l), Releasable(l)
  PROVE  OwnedByLatest' /\ FencesApart' /\ SpentStays'
<1>0. job.attempt \in 0..MaxAttempts /\ lane \in [Lanes -> Lane] /\ MaxAttempts \in Nat
  BY LanesAssumption DEF IInv, TypeInv, TypeOK, Job
<1>1. job' = Unowned("queued", job.attempt - 1) /\ latest' = latest /\ spent' = spent
  BY DEF Close
<1>2. job'.status = "queued" /\ job'.attempt = job.attempt - 1
  BY <1>1 DEF Unowned
<1>3. lane[l].at = "closing" /\ job.status = "running" /\ job.attempt = lane[l].attempt
  BY DEF Close, Releasable
<1>4. lane'[l].at \notin Active /\ \A m \in Lanes : m # l => lane'[m] = lane[m]
  BY <1>0 DEF Close, Free, Active, Executing, Granted
<1>5. FencesApart'
  <2> SUFFICES ASSUME ~spent, NEW m \in Lanes, lane'[m].at \in Active
               PROVE  lane'[m].attempt <= job'.attempt
    BY <1>1, <1>2 DEF FencesApart, Active, Executing, Granted
  <2>1. m # l /\ lane'[m] = lane[m]
    BY <1>4
  <2>2. l = latest
    BY <1>3 DEF IInv, FencesApart, Active
  <2>3. lane[m].attempt <= job.attempt /\ lane[m].attempt # job.attempt
    BY <2>1, <2>2, <1>3 DEF IInv, FencesApart
  <2>4. lane[m].attempt \in Nat
    BY <1>0 DEF Lane
  <2> QED BY <1>0, <1>2, <2>1, <2>3, <2>4
<1>6. SpentStays'
  BY <1>0, <1>1, <1>2, <1>3 DEF IInv, SpentStays
<1> QED BY <1>2, <1>5, <1>6 DEF OwnedByLatest

LEMMA IInvStep == IInv /\ [Next]_vars => IInv'
<1> SUFFICES ASSUME IInv, [Next]_vars PROVE IInv'
  OBVIOUS
<1>0. TypeInv' /\ lane \in [Lanes -> Lane] /\ job \in Job
  BY TypeStep DEF IInv, TypeInv, TypeOK
<1> SUFFICES OwnedByLatest' /\ FencesApart' /\ SpentStays'
  BY <1>0 DEF IInv
<1>1. CASE UNCHANGED vars
  BY <1>1, LaneStepKeeps DEF vars, history
<1>2. ASSUME NEW l \in Lanes, CommitClaim(l)
      PROVE  OwnedByLatest' /\ FencesApart' /\ SpentStays'
  BY <1>0, <1>2, ClaimKeeps
<1>3. ASSUME NEW l \in Lanes,
             \/ Dispatch(l) \/ FindNothing(l) \/ Begin(l) \/ Prepare(l) \/ Complete(l)
             \/ FailProject(l) \/ LoseLease(l) \/ GiveUp(l) \/ Vanish(l) \/ Watches(l)
      PROVE  OwnedByLatest' /\ FencesApart' /\ SpentStays'
  <2>1. job' = job /\ latest' = latest /\ spent' = spent
    BY <1>3 DEF Dispatch, FindNothing, Begin, Prepare, Complete, FailProject, LoseLease,
                GiveUp, Vanish, Watches, Poll, FailHeartbeat, history
  <2>2. \A m \in Lanes : lane'[m].at \in Active =>
          lane[m].at \in Active /\ lane'[m].attempt = lane[m].attempt
    <3>1. CASE Dispatch(l)
      BY <1>0, <3>1, GoesEffect DEF Dispatch, Active, Executing, Granted
    <3>2. CASE FindNothing(l) \/ Vanish(l)
      BY <1>0, <3>2 DEF FindNothing, Vanish, Idle, Free, Active, Executing, Granted
    <3>3. CASE Begin(l)
      <4>1. Goes(l, IF lane[l].code = "exhausted" THEN "finalizing" ELSE "preparing")
        BY <3>3 DEF Begin
      <4>2. lane[l].at \in Active
        BY <3>3 DEF Begin, Active
      <4> QED BY <1>0, <4>1, <4>2, GoesEffect
    <3>4. CASE \/ Prepare(l) \/ Complete(l) \/ FailProject(l) \/ LoseLease(l) \/ GiveUp(l)
      <4>1. lane[l].at \in Active
        BY <3>4 DEF Prepare, Complete, Completes, FailProject, LoseLease, GiveUp, Active,
                    Executing
      <4>2. \E at \in {"working", "completing", "failing", "closing"} : Goes(l, at)
        BY <3>4 DEF Prepare, Complete, FailProject, LoseLease, GiveUp
      <4> QED BY <1>0, <4>1, <4>2, GoesEffect
    <3>5. CASE Watches(l)
      BY <1>0, <3>5, AbortedEffect DEF Watches, Poll, FailHeartbeat
    <3> QED BY <1>3, <3>1, <3>2, <3>3, <3>4, <3>5
  <2> QED BY <2>1, <2>2, LaneStepKeeps
<1>4. ASSUME NEW l \in Lanes, Finish(l) \/ Requeue(l)
      PROVE  OwnedByLatest' /\ FencesApart' /\ SpentStays'
  <2>1. latest' = latest /\ spent' = spent
    BY <1>4 DEF Finish, Requeue, history
  <2>2. \A m \in Lanes : lane'[m].at \in Active =>
          lane[m].at \in Active /\ lane'[m].attempt = lane[m].attempt
    <3>1. lane[l].at \in Active /\ Goes(l, "closing")
      BY <1>4 DEF Finish, Requeue, Active, Executing
    <3> QED BY <1>0, <3>1, GoesEffect
  <2>3. job' = job \/ (job'.attempt = job.attempt /\ job'.status # "running")
    BY <1>4 DEF Finish, Requeue, Unowned
  <2> QED BY <2>1, <2>2, <2>3, LaneStepKeeps, RowLeftKeeps
<1>5. ASSUME NEW l \in Lanes, Close(l)
      PROVE  OwnedByLatest' /\ FencesApart' /\ SpentStays'
  <2>1. CASE Releasable(l)
    BY <1>5, <2>1, HandBackKeeps
  <2>2. CASE ~Releasable(l)
    <3>1. job' = job /\ latest' = latest /\ spent' = spent
      BY <1>5, <2>2 DEF Close
    <3>2. \A m \in Lanes : lane'[m].at \in Active =>
            lane[m].at \in Active /\ lane'[m].attempt = lane[m].attempt
      BY <1>0, <1>5 DEF Close, Free, Active, Executing, Granted
    <3> QED BY <3>1, <3>2, LaneStepKeeps
  <2> QED BY <2>1, <2>2
<1>6. ASSUME NEW w \in Workers, Stop(w) \/ Stopped(w) \/ Die(w)
      PROVE  OwnedByLatest' /\ FencesApart' /\ SpentStays'
  <2>1. job' = job /\ latest' = latest /\ spent' = spent
    BY <1>6 DEF Stop, Stopped, Die, history
  <2>2. \A m \in Lanes : lane'[m].at = lane[m].at /\ lane'[m].attempt = lane[m].attempt
    <3>1. CASE lane' = lane
      BY <3>1
    <3>2. CASE lane' # lane
      <4>1. Stop(w) /\ controller[w] # None
        BY <1>6, <3>2 DEF Stop, Stopped, Die
      <4>2. controller[w] \in Lanes
        BY <4>1 DEF IInv, TypeInv, TypeOK
      <4>3. lane' = Aborted(controller[w], "stopping")
        BY <4>1 DEF Stop
      <4> QED BY <1>0, <4>2, <4>3, AbortedEffect
    <3> QED BY <3>1, <3>2
  <2> QED BY <2>1, <2>2, LaneStepKeeps
<1>7. CASE Lapse
  <2>1. /\ job'.attempt = job.attempt /\ job'.status = job.status /\ job'.owner = job.owner
        /\ lane' = lane /\ latest' = latest /\ spent' = spent
    BY <1>0, <1>7 DEF Lapse, history, Job
  <2> QED BY <2>1 DEF IInv, OwnedByLatest, FencesApart, SpentStays, Active, Executing,
              Granted
<1>8. CASE Cancel
  <2>1. /\ job'.attempt = job.attempt /\ job'.status # "running"
        /\ lane' = lane /\ latest' = latest /\ spent' = spent
    BY <1>8 DEF Cancel, Unowned, history
  <2> QED BY <2>1, RowLeftKeeps
<1> QED BY <1>1, <1>2, <1>3, <1>4, <1>5, <1>6, <1>7, <1>8 DEF Next, Claims, Runs

\* A step in which a lane writes as an execution is fenced, or hands the job back
\* under the same condition.
LEMMA WritesFenced ==
  ASSUME IInv, [Next]_vars, NEW l \in Lanes, Writes(l)
  PROVE  /\ lane[l].at \in Active
         /\ job.status = "running" /\ job.owner = WorkerOf[l]
         /\ job.attempt = lane[l].attempt
<1>0. lane \in [Lanes -> Lane]
  BY DEF IInv, TypeInv, TypeOK
<1>1. /\ lane[l].at \in Active /\ lane[l].at \notin Asking
      /\ lane'[l].at # lane[l].at
      /\ job' # job \/ project' # project
  BY DEF Writes, Active, Executing, Asking
<1>2. ASSUME NEW m \in Lanes, Claims(m) PROVE FALSE
  <2>1. CASE CommitClaim(m)
    <3>1. m # l
      BY <1>1, <2>1 DEF CommitClaim
    <3> QED BY <1>0, <1>1, <2>1, <3>1 DEF CommitClaim
  <2>2. CASE Dispatch(m) \/ FindNothing(m) \/ Begin(m)
    BY <1>1, <2>2 DEF Dispatch, FindNothing, Begin
  <2> QED BY <1>2, <2>1, <2>2 DEF Claims
<1>3. ASSUME NEW m \in Lanes, Runs(m)
      PROVE  /\ m = l
             /\ job.status = "running" /\ job.owner = WorkerOf[l]
             /\ job.attempt = lane[l].attempt
  <2>1. CASE Prepare(m) \/ Complete(m) \/ FailProject(m) \/ Finish(m) \/ Requeue(m)
    <3>1. \E at \in {"working", "completing", "failing", "closing"} : Goes(m, at)
      BY <2>1 DEF Prepare, Complete, FailProject, Finish, Requeue
    <3>2. m = l
      BY <1>0, <1>1, <3>1, GoesEffect
    <3>3. Fenced(m)
      BY <1>1, <2>1 DEF Prepare, Complete, Completes, FailProject, Finish, Requeue
    <3> QED BY <3>2, <3>3 DEF Fenced
  <2>2. CASE Close(m)
    <3>1. m = l
      BY <1>0, <1>1, <2>2 DEF Close
    <3>2. Releasable(m)
      BY <1>1, <2>2 DEF Close
    <3> QED BY <3>1, <3>2 DEF Releasable
  <2>3. CASE LoseLease(m) \/ GiveUp(m) \/ Vanish(m)
    BY <1>1, <2>3 DEF LoseLease, GiveUp, Vanish
  <2> QED BY <1>3, <2>1, <2>2, <2>3 DEF Runs
<1>4. ASSUME NEW m \in Lanes, Watches(m) PROVE FALSE
  BY <1>0, <1>1, <1>4 DEF Watches, Poll, FailHeartbeat
<1>5. ASSUME NEW w \in Workers, Stop(w) \/ Stopped(w) \/ Die(w) PROVE FALSE
  BY <1>1, <1>5 DEF Stop, Stopped, Die
<1>6. CASE Lapse \/ Cancel \/ UNCHANGED vars
  BY <1>1, <1>6 DEF Lapse, Cancel, vars
<1> QED BY <1>1, <1>2, <1>3, <1>4, <1>5, <1>6 DEF Next

\* Only the last claim of a job writes: an execution that lost its job to another
\* worker, or to a later claim of its own worker, changes neither the job nor the
\* project, short of the exhausted claim whose fence is a repeated one.
THEOREM StaleWritesRefused == Spec => StaleNeverWrites
<1>1. IInv /\ [Next]_vars =>
        [\A l \in Lanes : Writes(l) =>
           \/ l = latest
           \/ spent /\ WorkerOf[l] = WorkerOf[latest] /\ lane[l].attempt = MaxAttempts]_vars
  BY WritesFenced, FenceEntitles DEF Entitled
<1> QED BY <1>1, IInvInit, IInvStep, PTL DEF Spec, StaleNeverWrites

-----------------------------------------------------------------------------
(* The end is final: every write asks for a job that is queued or running.   *)

\* Once a job has ended nothing changes it or its project, whoever still runs.
THEOREM EndIsFinal == Spec => EndedForGood
<1>1. TypeInv /\ [Next]_vars => [job.status \in Ended => UNCHANGED <<job, project>>]_vars
  <2> SUFFICES ASSUME TypeInv, Next, job.status \in Ended
               PROVE  job' = job /\ project' = project
    BY DEF vars
  <2>0. job.status \notin {"queued", "running"}
    BY DEF Ended
  <2>1. ASSUME NEW l \in Lanes, Claims(l) PROVE job' = job /\ project' = project
    BY <2>0, <2>1 DEF Claims, Dispatch, CommitClaim, Claimable, FindNothing, Begin
  <2>2. ASSUME NEW l \in Lanes, Runs(l) PROVE job' = job /\ project' = project
    BY <2>0, <2>2 DEF Runs, Prepare, Complete, Completes, FailProject, Finish, Requeue,
                      LoseLease, GiveUp, Close, Vanish, Fenced, Releasable
  <2>3. ASSUME NEW l \in Lanes, Watches(l) PROVE job' = job /\ project' = project
    BY <2>3 DEF Watches, Poll, FailHeartbeat
  <2>4. ASSUME NEW w \in Workers, Stop(w) \/ Stopped(w) \/ Die(w)
        PROVE  job' = job /\ project' = project
    BY <2>4 DEF Stop, Stopped, Die
  <2>5. CASE Lapse \/ Cancel
    BY <2>0, <2>5 DEF Lapse, Cancel
  <2> QED BY <2>1, <2>2, <2>3, <2>4, <2>5 DEF Next
<1> QED BY <1>1, TypeInit, TypeStep, PTL DEF Spec, EndedForGood

-----------------------------------------------------------------------------
(* Job and project end alike, although two transactions write them.          *)

\* Only the loops that were started ever execute.
LoopsOnly == /\ \A l \in Lanes : lane[l].at # "idle" => l \in loops
             /\ latest \in loops \cup {None}

\* While fences are apart an end that is half written, or written, is in the project.
HalfEnded ==
  OneLoopEach \/ ~spent =>
    /\ Agreement
    /\ \A l \in Lanes :
         /\ lane[l].at \in {"completing", "failing"}
         /\ job.status = "running" /\ job.owner = WorkerOf[l] /\ job.attempt = lane[l].attempt
         => project = IF lane[l].at = "completing" THEN "done" ELSE "failed"

AInv == IInv /\ LoopsOnly /\ HalfEnded

\* Steps that move lanes among the loops started.
LEMMA LoopsStep == IInv /\ LoopsOnly /\ [Next]_vars => LoopsOnly'
<1> SUFFICES ASSUME IInv, LoopsOnly, [Next]_vars PROVE LoopsOnly'
  OBVIOUS
<1> USE DEF LoopsOnly
<1>0. lane \in [Lanes -> Lane]
  BY DEF IInv, TypeInv, TypeOK
<1>1. CASE UNCHANGED vars
  BY <1>1 DEF vars, history
<1>2. ASSUME NEW l \in Lanes, Claims(l) PROVE LoopsOnly'
  BY <1>0, <1>2 DEF Claims, Dispatch, CommitClaim, FindNothing, Begin, Goes, history,
                    Idle, Free, Asking, Granted, Lane
<1>3. ASSUME NEW l \in Lanes, Runs(l) PROVE LoopsOnly'
  <2>1. CASE Close(l)
    BY <1>0, <2>1 DEF Close, Free, Lane
  <2>2. CASE Vanish(l)
    BY <1>0, <2>2 DEF Vanish, Idle, Free, history
  <2>3. CASE Prepare(l) \/ Complete(l) \/ FailProject(l) \/ Finish(l) \/ Requeue(l)
              \/ LoseLease(l) \/ GiveUp(l)
    <3>1. \E at \in {"working", "completing", "failing", "closing"} : Goes(l, at)
      BY <2>3 DEF Prepare, Complete, FailProject, Finish, Requeue, LoseLease, GiveUp
    <3>2. lane[l].at # "idle" /\ UNCHANGED history
      BY <2>3 DEF Prepare, Complete, Completes, FailProject, Finish, Requeue, LoseLease,
                  GiveUp, Executing
    <3> QED BY <1>0, <3>1, <3>2, GoesEffect DEF history
  <2> QED BY <1>3, <2>1, <2>2, <2>3 DEF Runs
<1>4. ASSUME NEW l \in Lanes, Watches(l) PROVE LoopsOnly'
  BY <1>0, <1>4, AbortedEffect DEF Watches, Poll, FailHeartbeat, history
<1>5. ASSUME NEW w \in Workers, Stop(w) \/ Stopped(w) \/ Die(w) PROVE LoopsOnly'
  <2>1. CASE lane' = lane
    BY <1>5, <2>1 DEF Stop, Stopped, Die, history
  <2>2. CASE lane' # lane
    <3>1. controller[w] \in Lanes /\ lane' = Aborted(controller[w], "stopping")
      BY <1>5, <2>2 DEF Stop, Stopped, Die, IInv, TypeInv, TypeOK
    <3> QED BY <1>0, <1>5, <3>1, AbortedEffect DEF Stop, Stopped, Die, history
  <2> QED BY <2>1, <2>2
<1>6. CASE Lapse \/ Cancel
  BY <1>6 DEF Lapse, Cancel, history
<1> QED BY <1>1, <1>2, <1>3, <1>4, <1>5, <1>6 DEF Next

\* Where fences are apart, only the last claim carries the fence of the row.
LEMMA OnlyLatest ==
  ASSUME IInv, LoopsOnly, OneLoopEach \/ ~spent, NEW l \in Lanes, lane[l].at \in Active,
         job.status = "running", job.owner = WorkerOf[l], job.attempt = lane[l].attempt
  PROVE  l = latest
<1>1. CASE ~spent
  BY <1>1, FenceEntitles DEF Entitled
<1>2. CASE OneLoopEach
  <2>1. l \in loops /\ latest \in Lanes /\ latest \in loops
    BY LanesAssumption DEF IInv, OwnedByLatest, LoopsOnly, Active, Executing, Granted
  <2>2. WorkerOf[l] = WorkerOf[latest]
    BY FenceEntitles DEF IInv, OwnedByLatest, Entitled
  <2> QED BY <1>2, <2>1, <2>2 DEF OneLoopEach
<1> QED BY <1>1, <1>2

\* Steps that leave the row, the project and the executions that end alone.
LEMMA EndsKept ==
  ASSUME HalfEnded, project' = project, loops' = loops, spent => spent',
         job' = job \/ job'.status \in {"queued"},
         \A l \in Lanes : lane'[l].at \in {"completing", "failing"} =>
           lane'[l].at = lane[l].at /\ lane'[l].attempt = lane[l].attempt
  PROVE  HalfEnded'
BY DEF HalfEnded, Agreement, OneLoopEach

\* A fenced write of the project, by the only execution that can make one.
LEMMA ProjectWritten ==
  ASSUME AInv, NEW l \in Lanes, Fenced(l), lane[l].at \in {"preparing", "working", "finalizing"},
         job' = job, UNCHANGED history, NEW at, Goes(l, at),
         \/ at = "working" /\ project' = "active"
         \/ at = "completing" /\ project' = "done"
         \/ at = "failing" /\ project' = "failed"
  PROVE  HalfEnded'
<1>0. lane \in [Lanes -> Lane]
  BY DEF AInv, IInv, TypeInv, TypeOK
<1>1. /\ lane'[l].at = at /\ lane'[l].attempt = lane[l].attempt
      /\ \A m \in Lanes : m # l => lane'[m] = lane[m]
  BY <1>0, GoesEffect
<1>2. OneLoopEach' = OneLoopEach /\ spent' = spent /\ loops' = loops
  BY DEF OneLoopEach, history
<1> SUFFICES ASSUME OneLoopEach \/ ~spent
             PROVE  /\ Agreement'
                    /\ \A m \in Lanes :
                         /\ lane'[m].at \in {"completing", "failing"}
                         /\ job.status = "running" /\ job.owner = WorkerOf[m]
                         /\ job.attempt = lane'[m].attempt
                         => project' = IF lane'[m].at = "completing" THEN "done" ELSE "failed"
  BY <1>2 DEF HalfEnded, OneLoopEach, history
<1>3. job.status = "running" /\ l = latest
  BY OnlyLatest DEF AInv, Fenced, Active, Executing
<1>4. Agreement'
  BY <1>3 DEF Agreement
<1>5. ASSUME NEW m \in Lanes, m # l, lane'[m].at \in {"completing", "failing"},
             job.owner = WorkerOf[m], job.attempt = lane'[m].attempt
      PROVE  FALSE
  <2>1. lane[m].at \in Active /\ job.attempt = lane[m].attempt
    BY <1>1, <1>5 DEF Active, Executing
  <2> QED BY <1>3, <1>5, <2>1, OnlyLatest DEF AInv
<1> QED BY <1>1, <1>4, <1>5

LEMMA HalfEndedStep == AInv /\ [Next]_vars => HalfEnded'
<1> SUFFICES ASSUME AInv, [Next]_vars PROVE HalfEnded'
  OBVIOUS
<1>0. /\ lane \in [Lanes -> Lane] /\ job \in Job /\ HalfEnded /\ IInv' /\ LoopsOnly'
      /\ IInv /\ LoopsOnly
  BY IInvStep, LoopsStep DEF AInv, IInv, TypeInv, TypeOK
<1>1. CASE UNCHANGED vars
  BY <1>0, <1>1, EndsKept DEF vars, history
<1>2. ASSUME NEW l \in Lanes, CommitClaim(l) PROVE HalfEnded'
  <2>1. job'.status = "running" /\ latest' = l /\ project' = project
    BY <1>2 DEF CommitClaim, Claimed
  <2>2. lane'[l].at \notin {"completing", "failing"}
    BY <1>0, <1>2 DEF CommitClaim
  <2> SUFFICES ASSUME (OneLoopEach \/ ~spent)', NEW m \in Lanes,
                      lane'[m].at \in {"completing", "failing"},
                      job'.owner = WorkerOf[m], job'.attempt = lane'[m].attempt
               PROVE  FALSE
    BY <2>1 DEF HalfEnded, Agreement
  <2>3. lane'[m].at \in Active
    BY DEF Active, Executing
  <2>4. m = latest'
    <3>1. CASE ~spent'
      BY <1>0, <2>1, <2>3, <3>1 DEF IInv, FencesApart
    <3>2. CASE OneLoopEach'
      <4>1. m \in loops' /\ latest' \in loops'
        BY <1>0, <2>1, <2>3, LanesAssumption DEF LoopsOnly, Active, Executing, Granted
      <4>2. job'.owner = WorkerOf[latest']
        BY <1>0, <2>1 DEF IInv, OwnedByLatest
      <4> QED BY <3>2, <4>1, <4>2 DEF OneLoopEach
    <3> QED BY <3>1, <3>2
  <2> QED BY <2>1, <2>2, <2>4
<1>3. ASSUME NEW l \in Lanes, Dispatch(l) \/ FindNothing(l) \/ Begin(l) PROVE HalfEnded'
  <2>1. CASE FindNothing(l)
    BY <1>0, <2>1, EndsKept DEF FindNothing, Idle, Free, history
  <2>2. CASE Dispatch(l) \/ Begin(l)
    <3>1. \E at \in {"dispatching", "finalizing", "preparing"} : Goes(l, at)
      BY <2>2 DEF Dispatch, Begin
    <3> QED BY <1>0, <2>2, <3>1, GoesEffect, EndsKept DEF Dispatch, Begin, history
  <2> QED BY <1>3, <2>1, <2>2
<1>4. ASSUME NEW l \in Lanes, Prepare(l) \/ Complete(l) \/ FailProject(l) PROVE HalfEnded'
  <2>1. /\ Fenced(l) /\ lane[l].at \in {"preparing", "working", "finalizing"}
        /\ job' = job /\ UNCHANGED history
    BY <1>4 DEF Prepare, Complete, Completes, FailProject
  <2>2. \E at : /\ Goes(l, at)
                /\ \/ at = "working" /\ project' = "active"
                   \/ at = "completing" /\ project' = "done"
                   \/ at = "failing" /\ project' = "failed"
    BY <1>4 DEF Prepare, Complete, FailProject
  <2> QED BY <2>1, <2>2, ProjectWritten
<1>5. ASSUME NEW l \in Lanes, Finish(l) PROVE HalfEnded'
  <2>1. /\ lane'[l].at = "closing" /\ lane[l].at \in {"completing", "failing"}
        /\ \A m \in Lanes : m # l => lane'[m] = lane[m]
    BY <1>0, <1>5, GoesEffect DEF Finish
  <2>2. CASE ~Fenced(l)
    BY <1>0, <1>5, <2>1, <2>2, EndsKept DEF Finish, history
  <2>3. CASE Fenced(l)
    <3>1. /\ job'.status = IF lane[l].at = "completing" THEN "succeeded" ELSE "failed"
          /\ project' = project /\ UNCHANGED history
      BY <1>5, <2>3 DEF Finish, Unowned
    <3>2. OneLoopEach \/ ~spent =>
            project = IF lane[l].at = "completing" THEN "done" ELSE "failed"
      BY <1>0, <2>1, <2>3 DEF HalfEnded, Fenced
    <3> QED BY <2>1, <3>1, <3>2 DEF HalfEnded, Agreement, OneLoopEach, history
  <2> QED BY <2>2, <2>3
<1>6. ASSUME NEW l \in Lanes, Requeue(l) \/ LoseLease(l) \/ GiveUp(l) PROVE HalfEnded'
  <2>1. /\ lane'[l].at = "closing"
        /\ \A m \in Lanes : m # l => lane'[m] = lane[m]
    BY <1>0, <1>6, GoesEffect DEF Requeue, LoseLease, GiveUp
  <2>2. job' = job \/ job'.status = "queued"
    BY <1>6 DEF Requeue, LoseLease, GiveUp, Unowned
  <2> QED BY <1>0, <1>6, <2>1, <2>2, EndsKept DEF Requeue, LoseLease, GiveUp, history
<1>7. ASSUME NEW l \in Lanes, Close(l) \/ Vanish(l) PROVE HalfEnded'
  <2>1. /\ lane'[l].at \in {"draining", "idle"}
        /\ \A m \in Lanes : m # l => lane'[m] = lane[m]
    BY <1>0, <1>7 DEF Close, Vanish, Idle, Free
  <2>2. job' = job \/ job'.status = "queued"
    BY <1>7 DEF Close, Vanish, Unowned
  <2> QED BY <1>0, <1>7, <2>1, <2>2, EndsKept DEF Close, Vanish, history
<1>8. ASSUME NEW l \in Lanes, Watches(l) PROVE HalfEnded'
  BY <1>0, <1>8, AbortedEffect, EndsKept DEF Watches, Poll, FailHeartbeat, history
<1>9. ASSUME NEW w \in Workers, Stop(w) \/ Stopped(w) \/ Die(w) PROVE HalfEnded'
  <2>1. \A m \in Lanes : lane'[m].at = lane[m].at /\ lane'[m].attempt = lane[m].attempt
    <3>1. CASE lane' = lane
      BY <3>1
    <3>2. CASE lane' # lane
      <4>1. controller[w] \in Lanes /\ lane' = Aborted(controller[w], "stopping")
        BY <1>9, <3>2 DEF Stop, Stopped, Die, AInv, IInv, TypeInv, TypeOK
      <4> QED BY <1>0, <4>1, AbortedEffect
    <3> QED BY <3>1, <3>2
  <2> QED BY <1>0, <1>9, <2>1, EndsKept DEF Stop, Stopped, Die, history
<1>10. CASE Lapse
  <2>1. /\ job'.attempt = job.attempt /\ job'.status = job.status /\ job'.owner = job.owner
        /\ lane' = lane /\ project' = project /\ UNCHANGED history
    BY <1>0, <1>10 DEF Lapse, Job
  <2> QED BY <1>0, <2>1 DEF HalfEnded, Agreement, OneLoopEach, history
<1>11. CASE Cancel
  BY <1>0, <1>11 DEF Cancel, Unowned, HalfEnded, Agreement, OneLoopEach, history
<1> QED BY <1>1, <1>2, <1>3, <1>4, <1>5, <1>6, <1>7, <1>8, <1>9, <1>10, <1>11
        DEF Next, Claims, Runs

\* A job that has ended and its project tell the same story, for any number of
\* workers, attempts and faults, wherever one claim has one fence.
THEOREM EndsAgree == Spec => []AgreementOfLoops
<1>1. Init => AInv
  <2> SUFFICES ASSUME Init PROVE AInv
    OBVIOUS
  <2>1. \A l \in Lanes : lane[l].at = "idle"
    BY DEF Init, Idle, Free
  <2> QED BY <2>1, IInvInit DEF Init, AInv, LoopsOnly, HalfEnded, Agreement
<1>2. AInv /\ [Next]_vars => AInv'
  BY IInvStep, LoopsStep, HalfEndedStep DEF AInv
<1>3. AInv => AgreementOfLoops
  BY DEF AInv, HalfEnded, AgreementOfLoops
<1> QED BY <1>1, <1>2, <1>3, PTL DEF Spec
=============================================================================
