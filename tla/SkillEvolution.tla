-------------------------- MODULE SkillEvolution --------------------------
(***************************************************************************)
(* The evolution of one Skill (evolution/pi/src): feedback is promoted to  *)
(* tasks, a worker makes a candidate of each, and reviewers publish,       *)
(* reject and roll back candidates.  What happened is kept in two places   *)
(* that no transaction spans: the registry, a directory for each version   *)
(* and a manifest (versions.ts), and the ledger of each task               *)
(* (state-store.ts).  Both are guarded by lock files that outlive a        *)
(* process.  After a crash an operator calls recover() (runner.ts).        *)
(*                                                                         *)
(* Staging directories have random names and are left out, and so is the   *)
(* status of a candidate, saved just before the ledger: it could only      *)
(* refuse a second rollback that the registry refuses as well.  A live     *)
(* review ends before its lock counts as stale (30 minutes); one operator  *)
(* recovers at a time.                                                     *)
(***************************************************************************)
EXTENDS Integers, Sequences

CONSTANTS
  EvoTasks,
  Reviewers,
  Diffs,        \* the changes a candidate may consist of
  MaxBreaks     \* bound: processes that die and operations that fail

ASSUME EvolutionAssumption ==
  /\ MaxBreaks \in Nat
  /\ "none" \notin EvoTasks /\ {"free", "dead", "operator"} \cap Reviewers = {}

VARIABLES
  manifest,      \* its history: revision n is manifest[n], the last is current
  installed,    \* the versions whose directory exists
  registryLock, \* "free", "dead", "operator", or the reviewer who holds it
  task,         \* base revision and change of the candidate of each task
  ledger,       \* of each task: status, registry operations in doubt, published revision
  decision,     \* the durable decision, written once
  reviewLock,   \* of each task: "free", "held" or "dead"
  reviewer,     \* each reviewer: stage, task, what is to be done, the ledger in memory,
                \* and the revision it wrote
  worker,       \* the task the worker executes, "none" otherwise
  operator,     \* the recovery: stage, task, and the ledger as it was loaded
  breaks

registry == <<manifest, installed, registryLock>>
records == <<ledger, decision, reviewLock>>
evolutionVars == <<registry, records, task, reviewer, worker, operator, breaks>>

Version(t) == [revision |-> task[t].base + 1, diff |-> task[t].diff]
BaseVersion(t) == manifest[task[t].base].version
Entry(v, t, a) == [version |-> v, task |-> t, action |-> a]
Latest == manifest[Len(manifest)]

\* Of the operations of a ledger only those on the registry are kept, and of these only
\* how many of a kind are "started" or "uncertain": recover() treats both alike.
Kinds == {"publish", "rollback"}
NoLedger == [status |-> "absent", doubts |-> [k \in Kinds |-> 0], revision |-> 0]
NoReview ==
  [stage |-> "idle", task |-> "none", action |-> "none", ledger |-> NoLedger, result |-> 0]
NoRecovery == [stage |-> "idle", task |-> "none", ledger |-> NoLedger]
Bundled == [revision |-> 1, diff |-> "bundled"]

EvolutionInit ==
  /\ manifest = <<Entry(Bundled, "none", "bootstrap")>>
  /\ installed = {Bundled} /\ registryLock = "free"
  /\ task = [t \in EvoTasks |-> [base |-> 0, diff |-> "none"]]
  /\ ledger = [t \in EvoTasks |-> NoLedger]
  /\ decision = [t \in EvoTasks |-> "none"] /\ reviewLock = [t \in EvoTasks |-> "free"]
  /\ reviewer = [r \in Reviewers |-> NoReview]
  /\ worker = "none" /\ operator = NoRecovery /\ breaks = 0

Status(t, s) == ledger' = [ledger EXCEPT ![t].status = s]
Breaks == breaks < MaxBreaks /\ breaks' = breaks + 1

\* Mutant: a version that is current again after a rollback passes for the base.
IsCurrentAgain(n) == manifest[n].version = Latest.version

\* The manifest's revision, version and digest are those of the binding.
IsCurrent(n) == n = Len(manifest)

-----------------------------------------------------------------------------
(* From feedback to a candidate.                                             *)

\* promoteFeedbackRequests(): the task is bound to the version of this moment.
Promote(t) ==
  /\ ledger[t] = NoLedger
  /\ task' = [task EXCEPT ![t].base = Len(manifest)]
  /\ Status(t, "created")
  /\ UNCHANGED <<registry, decision, reviewLock, reviewer, worker, operator, breaks>>

\* run() of a task whose base is still current; any other stays "created".
RunTask(t) ==
  /\ worker = "none" /\ ledger[t].status = "created" /\ IsCurrent(task[t].base)
  /\ worker' = t /\ Status(t, "agent_running")
  /\ UNCHANGED <<registry, task, decision, reviewLock, reviewer, operator, breaks>>

Submit(t, d) ==
  /\ worker = t
  /\ task' = [task EXCEPT ![t].diff = d]
  /\ worker' = "none" /\ Status(t, "awaiting_review")
  /\ UNCHANGED <<registry, decision, reviewLock, reviewer, operator, breaks>>

GiveUp(t, s) ==
  /\ worker = t /\ Breaks
  /\ worker' = "none"
  /\ Status(t, s)
  /\ UNCHANGED <<registry, task, decision, reviewLock, reviewer, operator>>

WorkerDies ==
  /\ worker # "none" /\ Breaks
  /\ worker' = "none"
  /\ UNCHANGED <<registry, records, task, reviewer, operator>>

-----------------------------------------------------------------------------
(* Reviews: approve(), reject() and rollback(), each under the review lock.  *)

In(r, s) == reviewer[r].stage = s
Goes(r, s) == reviewer' = [reviewer EXCEPT ![r].stage = s]
Of(r) == reviewer[r].task
Operation(r) == IF reviewer[r].action = "approve" THEN "publish" ELSE "rollback"

\* The ledger in memory after beginOperation(), and with an operation settled.
Begun(l, kind) == [l EXCEPT !.doubts[kind] = @ + 1]
Settled(l, kind) == [l EXCEPT !.doubts[kind] = @ - 1]
Manual(l) == [l EXCEPT !.status = "needs_manual_recovery"]

\* What the review writes into the ledger in memory when all went well.
Outcome(r) ==
  LET l == reviewer[r].ledger IN
  CASE reviewer[r].action = "reject" -> [l EXCEPT !.status = "rejected"]
    [] reviewer[r].action = "approve" ->
         [l EXCEPT !.status = "published", !.revision = reviewer[r].result]
    [] OTHER -> [l EXCEPT !.status = "rolled_back", !.revision = reviewer[r].result]

\* What the saveLedger() of a stage writes.  An error is saved twice: finishOperation()
\* with the status as it was, and then the status.
Written(r) ==
  LET l == reviewer[r].ledger IN
  CASE In(r, "begin") -> Begun(l, Operation(r))
    [] In(r, "record") -> IF reviewer[r].action = "reject" THEN Outcome(r)
                          ELSE Settled(Outcome(r), Operation(r))
    [] In(r, "conflict") -> Settled(l, Operation(r))
    [] In(r, "stale") -> IF Operation(r) = "publish" THEN [l EXCEPT !.status = "failed"] ELSE l
    [] In(r, "manual") -> Manual(l)
    [] OTHER -> l

Saves(r, s, l) ==
  /\ ledger' = [ledger EXCEPT ![Of(r)] = l]
  /\ reviewer' = [reviewer EXCEPT ![r].stage = s, ![r].ledger = l]

\* The review has nothing left to do but to release its lock.
Ends(r) ==
  reviewer' = [reviewer EXCEPT ![r] = [NoReview EXCEPT !.stage = "close", !.task = Of(r)]]

Open(r, t, a) ==
  /\ In(r, "idle") /\ reviewLock[t] = "free"
  /\ ledger[t].status = IF a = "rollback" THEN "published" ELSE "awaiting_review"
  /\ reviewLock' = [reviewLock EXCEPT ![t] = "held"]
  /\ reviewer' = [reviewer EXCEPT ![r] =
       [stage |-> IF a = "rollback" THEN "begin" ELSE "claim", task |-> t, action |-> a,
        ledger |-> ledger[t], result |-> 0]]
  /\ UNCHANGED <<registry, ledger, decision, task, worker, operator, breaks>>

\* claimReviewDecision(): one decision for ever, also if it is not carried out.
Claim(r) ==
  /\ In(r, "claim")
  /\ IF decision[Of(r)] = "none"
     THEN /\ decision' = [decision EXCEPT ![Of(r)] = reviewer[r].action]
          /\ Goes(r, IF reviewer[r].action = "approve" THEN "begin" ELSE "record")
     ELSE Ends(r) /\ UNCHANGED decision
  /\ UNCHANGED <<registry, ledger, reviewLock, task, worker, operator, breaks>>

\* beginOperation(): what will be tried is written down before it is.
BeginOperation(r) ==
  /\ In(r, "begin") /\ Saves(r, "enter", Written(r))
  /\ UNCHANGED <<registry, decision, reviewLock, task, worker, operator, breaks>>

\* Mutant: every error means that nothing was published.
ErrsAsConflict(r, kind, l) ==
  reviewer' = [reviewer EXCEPT ![r].stage = "conflict", ![r].ledger = l]

\* A conflict is known to have changed nothing; of any other error that is not known.
Errs(r, kind, l) == reviewer' = [reviewer EXCEPT ![r].stage = kind, ![r].ledger = l]

\* withSkillLock() and the comparison with the manifest.
Expected(r) ==
  IF Operation(r) = "publish" THEN IsCurrent(task[Of(r)].base)
  ELSE /\ IsCurrent(reviewer[r].ledger.revision)
       /\ Latest.task = Of(r) /\ Latest.action = "publish"
Obstructed(r) ==
  \/ registryLock # "free"
  \/ Expected(r) /\ BaseVersion(Of(r)) \notin installed
  \/ Expected(r) /\ Operation(r) = "publish" /\ Version(Of(r)) \in installed

TakeLock(r) ==
  /\ In(r, "enter") /\ Expected(r) /\ ~Obstructed(r)
  /\ registryLock' = r
  /\ Goes(r, IF Operation(r) = "publish" THEN "install" ELSE "commit")
  /\ UNCHANGED <<manifest, installed, records, task, worker, operator, breaks>>

Refuse(r) ==
  /\ In(r, "enter") /\ (Obstructed(r) \/ ~Expected(r))
  /\ Errs(r, IF Obstructed(r) THEN "error" ELSE "conflict", reviewer[r].ledger)
  /\ UNCHANGED <<registry, records, task, worker, operator, breaks>>

\* The staged directory gets its final name ...
Install(r) ==
  /\ In(r, "install")
  /\ installed' = installed \cup {Version(Of(r))}
  /\ Goes(r, "commit")
  /\ UNCHANGED <<manifest, registryLock, records, task, worker, operator, breaks>>

\* ... and then the manifest a new entry.
WriteManifest(r) ==
  /\ In(r, "commit")
  /\ manifest' = Append(manifest,
       Entry(IF Operation(r) = "publish" THEN Version(Of(r)) ELSE BaseVersion(Of(r)),
             Of(r), Operation(r)))
  /\ reviewer' = [reviewer EXCEPT ![r].stage = "unlock", ![r].result = Len(manifest')]
  /\ UNCHANGED <<installed, registryLock, records, task, worker, operator, breaks>>

Unlock(r) ==
  /\ In(r, "unlock")
  /\ registryLock' = "free" /\ Goes(r, "record")
  /\ UNCHANGED <<manifest, installed, records, task, worker, operator, breaks>>

\* saveCandidate(), and the ledger with its new status and the operation settled.
Record(r) ==
  /\ In(r, "record")
  /\ ledger' = [ledger EXCEPT ![Of(r)] = Written(r)] /\ Ends(r)
  /\ UNCHANGED <<registry, decision, reviewLock, task, worker, operator, breaks>>

\* The catch of approve() and rollback(): finishOperation() ...
FinishOperation(r) ==
  /\ \/ In(r, "conflict") /\ Saves(r, "stale", Written(r))
     \/ In(r, "error") /\ Saves(r, "manual", Written(r))
  /\ UNCHANGED <<registry, decision, reviewLock, task, worker, operator, breaks>>

\* ... and after it the status, for which a recovery bundle may have to be saved first.
MarkLedger(r) ==
  /\ In(r, "stale") \/ In(r, "manual")
  /\ ledger' = [ledger EXCEPT ![Of(r)] = Written(r)] /\ Ends(r)
  /\ UNCHANGED <<registry, decision, reviewLock, task, worker, operator, breaks>>

Close(r) ==
  /\ In(r, "close")
  /\ reviewLock' = [reviewLock EXCEPT ![Of(r)] = "free"]
  /\ reviewer' = [reviewer EXCEPT ![r] = NoReview]
  /\ UNCHANGED <<registry, ledger, decision, task, worker, operator, breaks>>

\* A save that throws may have reached the journal.
MayBeSaved(r) ==
  \E l \in {ledger[Of(r)], Written(r)} : ledger' = [ledger EXCEPT ![Of(r)] = l]

\* An error before the operation is begun, or while an error is recorded, ends the
\* review; one of the operation removes what was installed and is recorded.
Fails(r) ==
  /\ Breaks
  /\ \/ /\ \/ reviewer[r].stage \in {"begin", "conflict", "stale", "error", "manual"}
           \/ In(r, "record") /\ reviewer[r].action = "reject"
        /\ MayBeSaved(r) /\ Ends(r) /\ UNCHANGED registry
     \/ /\ In(r, "install") \/ In(r, "commit")
        /\ installed' = IF In(r, "commit") /\ Operation(r) = "publish"
                        THEN installed \ {Version(Of(r))} ELSE installed
        /\ registryLock' = "free" /\ Errs(r, "error", reviewer[r].ledger)
        /\ UNCHANGED <<manifest, ledger>>
     \/ /\ In(r, "record") /\ reviewer[r].action # "reject"
        /\ \/ Errs(r, "error", reviewer[r].ledger) /\ UNCHANGED ledger
           \/ Errs(r, "error", Outcome(r)) /\ MayBeSaved(r)
        /\ UNCHANGED registry
  /\ UNCHANGED <<decision, reviewLock, task, worker, operator>>

Dies(r) ==
  /\ ~In(r, "idle") /\ Breaks
  /\ reviewLock' = [reviewLock EXCEPT ![Of(r)] = "dead"]
  /\ registryLock' = IF registryLock = r THEN "dead" ELSE registryLock
  /\ reviewer' = [reviewer EXCEPT ![r] = NoReview]
  /\ UNCHANGED <<manifest, installed, ledger, decision, task, worker, operator>>

\* withReviewLock() on a lock older than 30 minutes.
FindStale(t) ==
  /\ reviewLock[t] = "dead" /\ Status(t, "needs_manual_recovery")
  /\ UNCHANGED <<registry, decision, reviewLock, task, reviewer, worker, operator, breaks>>

-----------------------------------------------------------------------------
(* recover(), which takes no review lock and works on the ledger it loaded.  *)

InDoubt(l) == \E k \in Kinds : l.doubts[k] # 0
OneInDoubt(l) == \E k \in Kinds : l.doubts = [NoLedger.doubts EXCEPT ![k] = 1]

\* The registry is inspected for a single operation in doubt; several stay as they are.
Load(t, s) ==
  LET l == ledger[t] IN
  /\ operator = NoRecovery
  /\ operator' = [stage |-> IF OneInDoubt(l) THEN "inspect" ELSE "save", task |-> t,
                  ledger |-> [l EXCEPT !.status = s]]
  /\ \/ InDoubt(l) /\ s # "failed"
     \/ l.status = "agent_running" /\ worker # t
     \/ ~InDoubt(l) /\ s # "failed" /\ l.status = "created"
     \/ ~InDoubt(l) /\ s # "failed" /\ l.status = "awaiting_review" /\ decision[t] # "none"
  /\ UNCHANGED <<registry, records, task, reviewer, worker, breaks>>

\* Mutant: the owner of the lock is taken for dead.
TakenOverAlways(lock) == TRUE

\* claimRecoveryLock(): the process named in the lock is gone.
TakenOver(lock) == lock \in {"free", "dead"}

ClaimLock ==
  /\ operator.stage = "inspect"
  /\ IF TakenOver(registryLock)
     THEN registryLock' = "operator" /\ operator' = [operator EXCEPT !.stage = "look"]
     ELSE operator' = [operator EXCEPT !.stage = "save"] /\ UNCHANGED registryLock
  /\ UNCHANGED <<manifest, installed, records, task, reviewer, worker, breaks>>

\* recoverInterrupted(): if the manifest is still the one before the publication, the
\* directory the publication may have left is set aside.
Look ==
  LET t == operator.task IN
  /\ operator.stage = "look"
  /\ installed' = IF /\ operator.ledger.doubts["publish"] = 1 /\ IsCurrent(task[t].base)
                     /\ \A n \in DOMAIN manifest : manifest[n].version # Version(t)
                  THEN installed \ {Version(t)} ELSE installed
  /\ registryLock' = "free"
  /\ operator' = [operator EXCEPT !.stage = "save"]
  /\ UNCHANGED <<manifest, records, task, reviewer, worker, breaks>>

SaveRecovery ==
  /\ operator.stage = "save"
  /\ ledger' = [ledger EXCEPT ![operator.task] = operator.ledger]
  /\ operator' = NoRecovery
  /\ UNCHANGED <<registry, decision, reviewLock, task, reviewer, worker, breaks>>

OperatorDies ==
  /\ operator # NoRecovery /\ Breaks
  /\ operator' = NoRecovery
  /\ registryLock' = IF registryLock = "operator" THEN "dead" ELSE registryLock
  /\ UNCHANGED <<manifest, installed, records, task, reviewer, worker>>

-----------------------------------------------------------------------------
Unsettled == {"failed", "needs_manual_recovery"}

EvolutionNext ==
  \/ \E t \in EvoTasks :
       \/ Promote(t) \/ RunTask(t) \/ FindStale(t)
       \/ \E d \in Diffs : Submit(t, d)
       \/ \E s \in Unsettled : GiveUp(t, s) \/ Load(t, s)
  \/ \E r \in Reviewers :
       \/ \E t \in EvoTasks, a \in {"approve", "reject", "rollback"} : Open(r, t, a)
       \/ Claim(r) \/ BeginOperation(r) \/ TakeLock(r) \/ Refuse(r) \/ Install(r) \/ WriteManifest(r)
       \/ Unlock(r) \/ Record(r) \/ FinishOperation(r) \/ MarkLedger(r) \/ Close(r) \/ Fails(r) \/ Dies(r)
  \/ WorkerDies \/ ClaimLock \/ Look \/ SaveRecovery \/ OperatorDies

EvolutionSpec == EvolutionInit /\ [][EvolutionNext]_evolutionVars

-----------------------------------------------------------------------------
(* Properties.                                                               *)

\* Every version of the manifest's history keeps its directory: neither the clean-up
\* after an error nor the recovery of another task takes away what was published,
\* although two tasks may aim at the same directory.
VersionsKept == \A n \in DOMAIN manifest : manifest[n].version \in installed

\* What reached the registry is exactly what was decided: a publication follows the
\* very revision its candidate was made from and reviewed on, was approved, and
\* happens once; a rollback undoes the publication just before it.
HistoryAsDecided ==
  \A n \in 2 .. Len(manifest) :
    LET e == manifest[n] IN
    /\ decision[e.task] = "approve"
    /\ \A k \in 2 .. n - 1 :
         manifest[k].task = e.task => k = n - 1 /\ e.action = "rollback"
    /\ e.action = "publish" => task[e.task].base = n - 1 /\ e.version = Version(e.task)
    /\ e.action = "rollback" =>
         manifest[n - 1] = Entry(Version(e.task), e.task, "publish")
         /\ e.version = manifest[n - 2].version

\* What a ledger claims of the registry is so, at every moment of a review, of a recovery
\* and after the death or the failed save of either: unless it shows an operation in
\* doubt or asks for a look by hand, a task has published, and has rolled back, exactly
\* if its status says so, and the ledger names the revision of its last entry.
Done(t, a) == \E n \in DOMAIN manifest : manifest[n].task = t /\ manifest[n].action = a
LedgerTruthful ==
  \A t \in EvoTasks :
    LET l == ledger[t] IN
    \/ InDoubt(l) \/ l.status = "needs_manual_recovery"
    \/ /\ Done(t, "publish") <=> l.status \in {"published", "rolled_back"}
       /\ Done(t, "rollback") <=> l.status = "rolled_back"
       /\ Done(t, "publish") => manifest[l.revision].task = t
                               /\ (manifest[l.revision].action = "rollback" <=> Done(t, "rollback"))
=============================================================================
