---------------------------- MODULE RecordsProofs ----------------------------
(***************************************************************************)
(* Theorems about the records of the product.                              *)
(*                                                                         *)
(* Part 1, SkillEvolution, for any number of tasks, reviewers, changes,    *)
(* deaths and errors: type correctness, that what reached the registry is  *)
(* what was decided, that published versions stay, and that the ledgers of *)
(* the tasks say what the registry says.                                   *)
(*                                                                         *)
(* Part 2, ConversationTurns, for any number of requests, messages,        *)
(* snapshots, faults and steps of a plan: that answers stay paired with    *)
(* their questions, that the context of the model holds nothing the        *)
(* transcript does not show, that a message of the user authorises one     *)
(* action at most, and that what was accepted is kept.                     *)
(***************************************************************************)
EXTENDS ConversationTurns, SkillEvolution, FiniteSetTheorems, WellFoundedInduction, TLAPS

-----------------------------------------------------------------------------
(* Part 1: SkillEvolution.                                                 *)

Statuses == {"absent", "created", "agent_running", "awaiting_review", "published",
             "rejected", "rolled_back"} \cup Unsettled
Ledgers == [status : Statuses, doubts : [Kinds -> Nat], revision : Nat]
SomeTask == EvoTasks \cup {"none"}
Contents == [revision : Nat, diff : Diffs \cup {"none", "bundled"}]
Entries == [version : Contents, task : SomeTask, action : {"bootstrap", "publish", "rollback"}]
Stages == {"idle", "claim", "begin", "enter", "install", "commit", "unlock", "record",
           "conflict", "stale", "error", "manual", "close"}
Reviews ==
  [stage : Stages, task : SomeTask, action : {"none", "approve", "reject", "rollback"},
   ledger : Ledgers, result : Nat]

\* Every variable keeps its type; that of the review locks is part of LocksInv.
EvolutionTypeOK ==
  /\ manifest \in Seq(Entries) /\ Len(manifest) >= 1
  /\ registryLock \in {"free", "dead", "operator"} \cup Reviewers
  /\ task \in [EvoTasks -> [base : Nat, diff : Diffs \cup {"none"}]]
  /\ ledger \in [EvoTasks -> Ledgers]
  /\ decision \in [EvoTasks -> {"none", "approve", "reject"}]
  /\ reviewer \in [Reviewers -> Reviews]
  /\ worker \in SomeTask
  /\ operator \in [stage : {"idle", "inspect", "look", "save"}, task : SomeTask, ledger : Ledgers]

-----------------------------------------------------------------------------
(* The inductive invariant.                                                *)

Early == {"absent", "created"}
Untouched == Early \cup {"agent_running"}

\* Only the first entry of the history belongs to no task.
HistoryStarts ==
  /\ manifest[1].task = "none"
  /\ \A n \in 2 .. Len(manifest) : manifest[n].task # "none" /\ manifest[n].action # "bootstrap"

\* What is not yet a candidate has no decision, no reviewer and no entry.
NotYetReviewed ==
  \A t \in EvoTasks :
    /\ worker = t => ledger[t].status \notin {"awaiting_review", "published"}
    /\ worker = t \/ ledger[t].status \in Early =>
         /\ decision[t] = "none" /\ \A r \in Reviewers : Of(r) # t
         /\ \A n \in DOMAIN manifest : manifest[n].task # t

\* The operation of the review is begun, and not yet settled in the ledger it holds.
Doubting(x) == \/ x.stage \in {"enter", "install", "commit", "unlock", "conflict", "error"}
               \/ x.stage = "record" /\ x.action # "reject"
OperationOf(x) == IF x.action = "approve" THEN "publish" ELSE "rollback"

\* A review that goes on was decided; the one that holds the lock of the registry finds
\* it as it expected, and publishes a directory no entry names.
ReviewInv(r) ==
  /\ Of(r) = "none" <=> In(r, "idle")
  /\ reviewer[r].action = "none" <=> In(r, "idle") \/ In(r, "close")
  /\ ~In(r, "idle") /\ ~In(r, "close") => reviewer[r].ledger.status \notin Untouched
  /\ In(r, "claim") => reviewer[r].action # "rollback"
  /\ reviewer[r].action = "reject" => In(r, "claim") \/ In(r, "record")
  /\ reviewer[r].action = "approve" /\ ~In(r, "claim") => decision[Of(r)] = "approve"
  /\ Doubting(reviewer[r]) => reviewer[r].ledger.doubts[OperationOf(reviewer[r])] > 0
  /\ reviewer[r].stage \in {"install", "commit", "unlock"} => registryLock = r
  /\ In(r, "install") => Operation(r) = "publish"
  /\ In(r, "install") \/ In(r, "commit") =>
       /\ Expected(r)
       /\ Operation(r) = "publish" =>
            \A n \in DOMAIN manifest : manifest[n].version # Version(Of(r))
  /\ In(r, "commit") /\ Operation(r) = "publish" => Version(Of(r)) \in installed

OperatorInv ==
  /\ operator.stage # "idle" => operator.task \in EvoTasks /\ operator.ledger.status \in Unsettled
  /\ operator.stage = "look" => registryLock = "operator"

EvolutionInv ==
  /\ EvolutionTypeOK /\ HistoryStarts /\ NotYetReviewed
  /\ HistoryAsDecided /\ VersionsKept /\ OperatorInv
  /\ \A r \in Reviewers : ReviewInv(r)

-----------------------------------------------------------------------------
(* What the updates of a review and of a ledger leave behind.              *)

LEMMA LedgerUpdates ==
  ASSUME NEW l \in Ledgers, NEW kind \in Kinds
  PROVE  /\ Begun(l, kind) \in Ledgers /\ Begun(l, kind).doubts[kind] > 0
         /\ Begun(l, kind).status = l.status /\ Settled(Begun(l, kind), kind) = l
         /\ l.doubts[kind] > 0 => /\ Settled(l, kind) \in Ledgers
                                 /\ Settled(l, kind).status = l.status
                                 /\ Settled(l, kind).revision = l.revision
         /\ InDoubt(Begun(l, kind)) /\ (l.doubts[kind] > 0 => InDoubt(l))
<1>1. l.doubts \in [Kinds -> Nat] /\ l.revision \in Nat /\ l.status \in Statuses
  BY DEF Ledgers
<1> DEFINE more == [l.doubts EXCEPT ![kind] = @ + 1]
           less == [l.doubts EXCEPT ![kind] = @ - 1]
<1>2. /\ more \in [Kinds -> Nat] /\ more[kind] = l.doubts[kind] + 1 /\ more[kind] > 0
      /\ [more EXCEPT ![kind] = @ - 1] = l.doubts
      /\ l.doubts[kind] > 0 => less \in [Kinds -> Nat]
  BY <1>1
<1>3. Begun(l, kind) = [l EXCEPT !.doubts = more] /\ Settled(l, kind) = [l EXCEPT !.doubts = less]
  BY DEF Begun, Settled
<1> HIDE DEF more, less
<1>4. /\ Begun(l, kind) \in Ledgers /\ Begun(l, kind).doubts = more
      /\ Begun(l, kind).status = l.status
  BY <1>2, <1>3 DEF Ledgers
<1>5. Settled(Begun(l, kind), kind) = [Begun(l, kind) EXCEPT !.doubts = l.doubts]
  BY <1>2, <1>4 DEF Settled
<1>6. Settled(Begun(l, kind), kind) = l
  BY <1>3, <1>5 DEF Ledgers
<1>7. l.doubts[kind] > 0 => /\ Settled(l, kind) \in Ledgers
                           /\ Settled(l, kind).status = l.status
                           /\ Settled(l, kind).revision = l.revision
  BY <1>2, <1>3 DEF Ledgers
<1>8. InDoubt(Begun(l, kind)) /\ (l.doubts[kind] > 0 => InDoubt(l))
  BY <1>2, <1>4 DEF InDoubt
<1> QED BY <1>2, <1>4, <1>6, <1>7, <1>8

\* A ledger with another status, and perhaps another revision.
LEMMA StatusUpdates ==
  ASSUME NEW l \in Ledgers, NEW s \in Statuses, NEW m, m = [l EXCEPT !.status = s]
  PROVE  m \in Ledgers /\ m.status = s /\ m.doubts = l.doubts /\ m.revision = l.revision
BY DEF Ledgers

LEMMA RevisionUpdates ==
  ASSUME NEW l \in Ledgers, NEW s \in Statuses, NEW n \in Nat, NEW m,
         m = [l EXCEPT !.status = s, !.revision = n]
  PROVE  m \in Ledgers /\ m.status = s /\ m.doubts = l.doubts /\ m.revision = n
BY DEF Ledgers

LEMMA OutcomeUpdates ==
  ASSUME NEW r \in Reviewers, reviewer[r] \in Reviews,
         reviewer[r].action \in {"approve", "reject", "rollback"}
  PROVE  /\ Outcome(r) \in Ledgers /\ Outcome(r).doubts = reviewer[r].ledger.doubts
         /\ Outcome(r).status = CASE reviewer[r].action = "reject" -> "rejected"
                                  [] reviewer[r].action = "approve" -> "published"
                                  [] OTHER -> "rolled_back"
         /\ reviewer[r].action # "reject" => Outcome(r).revision = reviewer[r].result
<1> DEFINE l == reviewer[r].ledger
           n == reviewer[r].result
<1>1. l \in Ledgers /\ n \in Nat
  BY DEF Reviews
<1>2. {"rejected", "published", "rolled_back"} \subseteq Statuses
  BY DEF Statuses
<1>3. CASE reviewer[r].action = "reject"
  <2>1. Outcome(r) = [l EXCEPT !.status = "rejected"]
    BY <1>3 DEF Outcome
  <2> HIDE DEF l
  <2> QED BY <1>1, <1>2, <1>3, <2>1, StatusUpdates DEF l
<1>4. CASE reviewer[r].action = "approve"
  <2>1. Outcome(r) = [l EXCEPT !.status = "published", !.revision = n]
    BY <1>4 DEF Outcome
  <2> HIDE DEF l, n
  <2>2. Outcome(r) \in Ledgers /\ Outcome(r).status = "published" /\ Outcome(r).doubts = l.doubts
        /\ Outcome(r).revision = n
    BY <1>1, <1>2, <2>1 DEF Ledgers
  <2> QED BY <1>4, <2>2 DEF l, n
<1>5. CASE reviewer[r].action = "rollback"
  <2>1. Outcome(r) = [l EXCEPT !.status = "rolled_back", !.revision = n]
    BY <1>5 DEF Outcome
  <2> HIDE DEF l, n
  <2>2. Outcome(r) \in Ledgers /\ Outcome(r).status = "rolled_back" /\ Outcome(r).doubts = l.doubts
        /\ Outcome(r).revision = n
    BY <1>1, <1>2, <2>1 DEF Ledgers
  <2> QED BY <1>5, <2>2 DEF l, n
<1> QED BY <1>3, <1>4, <1>5

LEMMA ReviewUpdate ==
  ASSUME reviewer \in [Reviewers -> Reviews], NEW r \in Reviewers, NEW s \in Stages, Goes(r, s)
  PROVE  /\ reviewer' \in [Reviewers -> Reviews]
         /\ reviewer'[r].stage = s /\ reviewer'[r].task = Of(r)
         /\ reviewer'[r].action = reviewer[r].action /\ reviewer'[r].ledger = reviewer[r].ledger
         /\ reviewer'[r].result = reviewer[r].result
         /\ \A o \in Reviewers \ {r} : reviewer'[o] = reviewer[o]
<1>1. reviewer'[r] = [reviewer[r] EXCEPT !.stage = s]
  BY DEF Goes
<1>2. reviewer[r] \in Reviews
  OBVIOUS
<1>3. /\ reviewer'[r].stage = s /\ reviewer'[r].task = Of(r)
      /\ reviewer'[r].action = reviewer[r].action /\ reviewer'[r].ledger = reviewer[r].ledger
      /\ reviewer'[r].result = reviewer[r].result
      /\ reviewer'[r] \in Reviews
  BY <1>1, <1>2 DEF Reviews, Of
<1>4. reviewer' = [reviewer EXCEPT ![r] = reviewer'[r]]
  BY <1>1 DEF Goes
<1> QED BY <1>3, <1>4

LEMMA ReviewSaved ==
  ASSUME reviewer \in [Reviewers -> Reviews], NEW r \in Reviewers, NEW s \in Stages,
         NEW l \in Ledgers, Errs(r, s, l)
  PROVE  /\ reviewer' \in [Reviewers -> Reviews]
         /\ reviewer'[r].stage = s /\ reviewer'[r].task = Of(r)
         /\ reviewer'[r].action = reviewer[r].action /\ reviewer'[r].ledger = l
         /\ reviewer'[r].result = reviewer[r].result
         /\ \A o \in Reviewers \ {r} : reviewer'[o] = reviewer[o]
<1>1. reviewer'[r] = [reviewer[r] EXCEPT !.stage = s, !.ledger = l]
  BY DEF Errs
<1>2. reviewer[r] \in Reviews
  OBVIOUS
<1>3. /\ reviewer'[r].stage = s /\ reviewer'[r].task = Of(r)
      /\ reviewer'[r].action = reviewer[r].action /\ reviewer'[r].ledger = l
      /\ reviewer'[r].result = reviewer[r].result
      /\ reviewer'[r] \in Reviews
  BY <1>1, <1>2 DEF Reviews, Of
<1>4. reviewer' = [reviewer EXCEPT ![r] = reviewer'[r]]
  BY <1>1 DEF Errs
<1> QED BY <1>3, <1>4

LEMMA LedgerSaved ==
  ASSUME ledger \in [EvoTasks -> Ledgers], NEW t \in EvoTasks, NEW l \in Ledgers,
         ledger' = [ledger EXCEPT ![t] = l]
  PROVE  /\ ledger' \in [EvoTasks -> Ledgers] /\ ledger'[t] = l
         /\ \A o \in EvoTasks \ {t} : ledger'[o] = ledger[o]
OBVIOUS

LEMMA StatusSaved ==
  ASSUME ledger \in [EvoTasks -> Ledgers], NEW t \in EvoTasks, NEW s \in Statuses, Status(t, s)
  PROVE  /\ ledger' \in [EvoTasks -> Ledgers] /\ ledger'[t].status = s
         /\ \A o \in EvoTasks \ {t} : ledger'[o] = ledger[o]
<1>1. ledger'[t] = [ledger[t] EXCEPT !.status = s]
  BY DEF Status
<1>2. ledger'[t] \in Ledgers /\ ledger'[t].status = s
  BY <1>1 DEF Ledgers
<1>3. ledger' = [ledger EXCEPT ![t] = ledger'[t]]
  BY <1>1 DEF Status
<1> QED BY <1>2, <1>3

LEMMA NothingIn == NoLedger \in Ledgers /\ NoReview \in Reviews
<1>1. NoLedger \in Ledgers
  BY DEF NoLedger, Ledgers, Statuses
<1> HIDE DEF NoLedger
<1> QED BY <1>1 DEF NoReview, Reviews, Stages, SomeTask

LEMMA ReviewEnds ==
  ASSUME reviewer \in [Reviewers -> Reviews], NEW r \in Reviewers, Ends(r)
  PROVE  /\ reviewer' \in [Reviewers -> Reviews]
         /\ reviewer'[r].stage = "close" /\ reviewer'[r].task = Of(r)
         /\ reviewer'[r].action = "none"
         /\ \A o \in Reviewers \ {r} : reviewer'[o] = reviewer[o]
<1> DEFINE x == [NoReview EXCEPT !.stage = "close", !.task = Of(r)]
<1>1. Of(r) \in SomeTask
  BY DEF Reviews, Of
<1>2. x \in Reviews /\ x.stage = "close" /\ x.task = Of(r) /\ x.action = NoReview.action
  BY <1>1, NothingIn DEF Reviews, Stages
<1>3. NoReview.action = "none" /\ reviewer' = [reviewer EXCEPT ![r] = x]
  BY DEF NoReview, Ends
<1> HIDE DEF x
<1> QED BY <1>2, <1>3

-----------------------------------------------------------------------------
(* What a step that writes no manifest keeps.                              *)

LEMMA ReviewKept ==
  ASSUME NEW r \in Reviewers, ReviewInv(r), reviewer'[r] = reviewer[r],
         ~In(r, "idle") => /\ decision[Of(r)] = "approve" => decision'[Of(r)] = "approve"
                           /\ task'[Of(r)] = task[Of(r)],
         registryLock = r =>
           registryLock' = r /\ manifest' = manifest /\ installed \subseteq installed'
  PROVE  ReviewInv(r)'
BY DEF ReviewInv, In, Of, Operation, Expected, IsCurrent, Latest, Version

LEMMA HistoryKept ==
  ASSUME HistoryStarts, HistoryAsDecided, manifest' = manifest,
         \A n \in 2 .. Len(manifest) :
           /\ task'[manifest[n].task] = task[manifest[n].task]
           /\ decision[manifest[n].task] = "approve" => decision'[manifest[n].task] = "approve"
  PROVE  HistoryStarts' /\ HistoryAsDecided'
<1>1. HistoryStarts'
  BY DEF HistoryStarts
<1>2. ASSUME NEW n \in 2 .. Len(manifest)
      PROVE  Version(manifest[n].task)' = Version(manifest[n].task)
  BY DEF Version
<1>3. HistoryAsDecided'
  BY <1>2 DEF HistoryAsDecided
<1> QED BY <1>1, <1>3

LEMMA CandidatesKept ==
  ASSUME NotYetReviewed, manifest' = manifest,
         \A t \in EvoTasks :
           /\ worker' = t => worker = t \/ ledger[t].status \in Early
           /\ worker' = t => ledger'[t].status \notin {"awaiting_review", "published"}
           /\ ledger'[t].status \in Early => ledger[t].status \in Early \/ worker = t
           /\ worker = t \/ ledger[t].status \in Early =>
                decision'[t] = decision[t] /\ \A r \in Reviewers : reviewer'[r].task # t
  PROVE  NotYetReviewed'
BY DEF NotYetReviewed, Of

-----------------------------------------------------------------------------
(* From feedback to a candidate.                                           *)

LEMMA CandidateStep ==
  ASSUME EvolutionInv, NEW t \in EvoTasks, NEW d,
         Promote(t) \/ RunTask(t) \/ (d \in Diffs /\ Submit(t, d))
  PROVE  EvolutionInv'
<1> USE EvolutionAssumption DEF EvolutionInv, EvolutionTypeOK
<1>1. /\ registry' = registry /\ decision' = decision /\ reviewer' = reviewer
      /\ operator' = operator
  BY DEF Promote, RunTask, Submit, registry
<1>2. manifest' = manifest /\ installed' = installed /\ registryLock' = registryLock
  BY <1>1 DEF registry
<1>3. /\ ledger' \in [EvoTasks -> Ledgers]
      /\ ledger'[t].status \in {"created", "agent_running", "awaiting_review"}
      /\ ledger'[t].status = "created" => ledger[t].status = "absent" /\ worker' = worker
      /\ ledger'[t].status = "agent_running" => ledger[t].status = "created" /\ worker' = t
      /\ ledger'[t].status = "awaiting_review" => worker = t /\ worker' = "none"
      /\ \A o \in EvoTasks \ {t} : ledger'[o] = ledger[o]
  <2>1. CASE Promote(t)
    BY <2>1, StatusSaved DEF Promote, NoLedger, Statuses
  <2>2. CASE RunTask(t)
    BY <2>2, StatusSaved DEF RunTask, Statuses
  <2>3. CASE Submit(t, d)
    BY <2>3, StatusSaved DEF Submit, Statuses
  <2> QED BY <2>1, <2>2, <2>3
<1>4. task' \in [EvoTasks -> [base : Nat, diff : Diffs \cup {"none"}]]
  <2>1. CASE Promote(t)
    <3>1. task'[t] = [task[t] EXCEPT !.base = Len(manifest)]
      BY <2>1 DEF Promote
    <3>2. task' = [task EXCEPT ![t] = task'[t]]
      BY <2>1, <3>1 DEF Promote
    <3>3. task[t] \in [base : Nat, diff : Diffs \cup {"none"}] /\ Len(manifest) \in Nat
      OBVIOUS
    <3>4. task'[t] \in [base : Nat, diff : Diffs \cup {"none"}]
      BY <3>1, <3>3
    <3> QED BY <3>2, <3>4
  <2>2. CASE d \in Diffs /\ Submit(t, d)
    <3>1. task'[t] = [task[t] EXCEPT !.diff = d]
      BY <2>2 DEF Submit
    <3>2. task' = [task EXCEPT ![t] = task'[t]]
      BY <2>2, <3>1 DEF Submit
    <3>3. task'[t] \in [base : Nat, diff : Diffs \cup {"none"}]
      BY <2>2, <3>1
    <3> QED BY <3>2, <3>3
  <2> QED BY <2>1, <2>2 DEF RunTask
<1>5. task' = task \/ worker = t \/ ledger[t].status \in Early
  BY DEF Promote, RunTask, Submit, NoLedger, Early
<1>6. \A o \in EvoTasks \ {t} : task'[o] = task[o]
  BY DEF Promote, RunTask, Submit
<1>7. task' # task => /\ \A r \in Reviewers : Of(r) # t
                      /\ \A n \in DOMAIN manifest : manifest[n].task # t
  BY <1>5 DEF NotYetReviewed
<1>8. NotYetReviewed'
  <2>1. ledger[t].status \in Early \/ worker = t
    BY DEF Promote, RunTask, Submit, NoLedger, Early
  <2>2. \A r \in Reviewers : worker = t \/ ledger[t].status \in Early => Of(r) # t
    BY DEF NotYetReviewed
  <2>3. ASSUME NEW o \in EvoTasks
        PROVE  /\ worker' = o => worker = o \/ ledger[o].status \in Early
               /\ worker' = o => ledger'[o].status \notin {"awaiting_review", "published"}
               /\ ledger'[o].status \in Early => ledger[o].status \in Early \/ worker = o
               /\ worker = o \/ ledger[o].status \in Early =>
                    decision'[o] = decision[o] /\ \A r \in Reviewers : reviewer'[r].task # o
    <3>1. worker' \in {worker, t, "none"}
      BY DEF Promote, RunTask, Submit
    <3>2. worker' # worker /\ worker' = t => ledger'[t].status = "agent_running"
      BY <1>3
    <3>3. worker = o => ledger[o].status \notin {"awaiting_review", "published"}
      BY DEF NotYetReviewed
    <3>4. worker = o \/ ledger[o].status \in Early => \A r \in Reviewers : Of(r) # o
      BY DEF NotYetReviewed
    <3> QED BY <1>1, <1>3, <2>1, <3>1, <3>2, <3>3, <3>4 DEF Of, Early
  <2> QED BY <1>2, <2>3, CandidatesKept
<1>9. HistoryStarts' /\ HistoryAsDecided'
  <2>1. ASSUME NEW n \in 2 .. Len(manifest)
        PROVE  task'[manifest[n].task] = task[manifest[n].task]
    <3>1. manifest[n] \in Entries /\ manifest[n].task # "none" /\ n \in DOMAIN manifest
      BY DEF HistoryStarts
    <3>2. manifest[n].task \in EvoTasks
      BY <3>1 DEF Entries, SomeTask
    <3> QED BY <1>6, <1>7, <3>1, <3>2
  <2> QED BY <1>1, <1>2, <2>1, HistoryKept
<1>10. ASSUME NEW r \in Reviewers
       PROVE  ReviewInv(r)'
  <2>1. ~In(r, "idle") => task'[Of(r)] = task[Of(r)]
    <3>1. ~In(r, "idle") => Of(r) \in EvoTasks
      BY DEF ReviewInv, Reviews, SomeTask, Of
    <3> QED BY <1>6, <1>7, <3>1
  <2> QED BY <1>1, <1>2, <2>1, ReviewKept
<1>11. VersionsKept' /\ OperatorInv'
  BY <1>1, <1>2 DEF VersionsKept, OperatorInv
<1>12. worker' \in SomeTask
  BY DEF Promote, RunTask, Submit, SomeTask
<1> QED BY <1>1, <1>2, <1>3, <1>4, <1>8, <1>9, <1>10, <1>11, <1>12

LEMMA WorkerStops ==
  ASSUME EvolutionInv,
         WorkerDies \/ (\E t \in EvoTasks, s \in Unsettled : GiveUp(t, s))
           \/ (\E t \in EvoTasks : FindStale(t))
  PROVE  EvolutionInv'
<1> USE EvolutionAssumption DEF EvolutionInv, EvolutionTypeOK
<1>1. /\ registry' = registry /\ decision' = decision /\ reviewer' = reviewer
      /\ operator' = operator /\ task' = task
  BY DEF WorkerDies, GiveUp, FindStale, registry, records
<1>2. manifest' = manifest /\ installed' = installed /\ registryLock' = registryLock
  BY <1>1 DEF registry
<1>3. /\ ledger' \in [EvoTasks -> Ledgers]
      /\ \A o \in EvoTasks : ledger'[o] = ledger[o] \/ ledger'[o].status \in Unsettled
      /\ worker' \in {worker, "none"}
  <2>1. CASE WorkerDies
    BY <2>1 DEF WorkerDies, records
  <2>2. ASSUME NEW t \in EvoTasks, NEW s \in Unsettled, GiveUp(t, s)
        PROVE  <1>3!1 /\ <1>3!2 /\ <1>3!3
    BY <2>2, StatusSaved DEF GiveUp, Statuses, Unsettled
  <2>3. ASSUME NEW t \in EvoTasks, FindStale(t)
        PROVE  <1>3!1 /\ <1>3!2 /\ <1>3!3
    BY <2>3, StatusSaved DEF FindStale, Statuses, Unsettled
  <2> QED BY <2>1, <2>2, <2>3
<1>4. NotYetReviewed'
  <2>1. ASSUME NEW o \in EvoTasks
        PROVE  /\ worker' = o => worker = o \/ ledger[o].status \in Early
               /\ worker' = o => ledger'[o].status \notin {"awaiting_review", "published"}
               /\ ledger'[o].status \in Early => ledger[o].status \in Early \/ worker = o
               /\ worker = o \/ ledger[o].status \in Early =>
                    decision'[o] = decision[o] /\ \A r \in Reviewers : reviewer'[r].task # o
    <3>1. ledger'[o] = ledger[o] \/ ledger'[o].status \notin {"awaiting_review", "published"} \cup Early
      BY <1>3 DEF Early, Unsettled
    <3>2. /\ worker = o => ledger[o].status \notin {"awaiting_review", "published"}
          /\ worker = o \/ ledger[o].status \in Early =>
               decision[o] = "none" /\ \A r \in Reviewers : reviewer[r].task # o
      BY DEF NotYetReviewed, Of
    <3>3. worker' = o => worker = o
      BY <1>3, EvolutionAssumption
    <3> QED BY <1>1, <3>1, <3>2, <3>3
  <2> QED BY <1>2, <2>1, CandidatesKept
<1>5. HistoryStarts' /\ HistoryAsDecided'
  BY <1>1, <1>2, HistoryKept
<1>6. ASSUME NEW r \in Reviewers
      PROVE  ReviewInv(r)'
  BY <1>1, <1>2, ReviewKept
<1>7. VersionsKept' /\ OperatorInv'
  BY <1>1, <1>2 DEF VersionsKept, OperatorInv
<1> QED BY <1>1, <1>2, <1>3, <1>4, <1>5, <1>6, <1>7 DEF SomeTask

-----------------------------------------------------------------------------
(* A review up to the lock of the registry, and after it.                  *)

LEMMA OpenStep ==
  ASSUME EvolutionInv, NEW r \in Reviewers, NEW t \in EvoTasks,
         NEW a \in {"approve", "reject", "rollback"}, Open(r, t, a)
  PROVE  EvolutionInv'
<1> USE EvolutionAssumption DEF EvolutionInv, EvolutionTypeOK
<1>1. /\ manifest' = manifest /\ installed' = installed /\ registryLock' = registryLock
      /\ ledger' = ledger /\ decision' = decision /\ task' = task /\ worker' = worker
      /\ operator' = operator
  BY DEF Open, registry
<1>2. /\ reviewer' \in [Reviewers -> Reviews]
      /\ reviewer'[r].stage = (IF a = "rollback" THEN "begin" ELSE "claim")
      /\ reviewer'[r].task = t /\ reviewer'[r].action = a /\ reviewer'[r].ledger = ledger[t]
      /\ \A o \in Reviewers \ {r} : reviewer'[o] = reviewer[o]
  <2> DEFINE new == [stage |-> IF a = "rollback" THEN "begin" ELSE "claim", task |-> t,
                     action |-> a, ledger |-> ledger[t], result |-> 0]
  <2>1. new \in Reviews
    BY DEF Reviews, Stages, SomeTask
  <2>2. reviewer' = [reviewer EXCEPT ![r] = new]
    BY DEF Open
  <2> QED BY <2>1, <2>2
<1>3. ledger[t].status \notin Untouched /\ worker # t
  BY DEF Open, Untouched, Early, NotYetReviewed
<1>4. NotYetReviewed'
  <2>1. ASSUME NEW o \in EvoTasks, worker = o \/ ledger[o].status \in Early
        PROVE  \A q \in Reviewers : reviewer'[q].task # o
    BY <1>2, <1>3, <2>1 DEF NotYetReviewed, Of, Untouched
  <2> QED BY <1>1, <2>1, CandidatesKept DEF NotYetReviewed
<1>5. HistoryStarts' /\ HistoryAsDecided'
  BY <1>1, HistoryKept
<1>6. ReviewInv(r)'
  BY <1>2, <1>3, t # "none" DEF ReviewInv, In, Of, Doubting
<1>7. ASSUME NEW o \in Reviewers \ {r}
      PROVE  ReviewInv(o)'
  BY <1>1, <1>2, ReviewKept
<1>8. VersionsKept' /\ OperatorInv'
  BY <1>1 DEF VersionsKept, OperatorInv
<1> QED BY <1>1, <1>2, <1>4, <1>5, <1>6, <1>7, <1>8

LEMMA ClaimStep ==
  ASSUME EvolutionInv, NEW r \in Reviewers, Claim(r)
  PROVE  EvolutionInv'
<1> USE EvolutionAssumption DEF EvolutionInv, EvolutionTypeOK
<1>1. /\ manifest' = manifest /\ installed' = installed /\ registryLock' = registryLock
      /\ ledger' = ledger /\ task' = task /\ worker' = worker /\ operator' = operator
  BY DEF Claim, registry
<1>2. /\ In(r, "claim") /\ Of(r) # "none" /\ Of(r) \in EvoTasks
      /\ reviewer[r].action \in {"approve", "reject"}
      /\ reviewer[r].ledger.status \notin Untouched
  BY DEF Claim, ReviewInv, In, Of, Reviews, SomeTask
<1>3. \/ /\ Goes(r, "begin") /\ reviewer[r].action = "approve"
         /\ decision' = [decision EXCEPT ![Of(r)] = "approve"]
      \/ Goes(r, "record") /\ reviewer[r].action = "reject"
      \/ Ends(r)
  BY <1>2 DEF Claim
<1>4. /\ reviewer' \in [Reviewers -> Reviews] /\ reviewer'[r].task = Of(r)
      /\ \/ /\ reviewer'[r].stage = "begin" /\ reviewer'[r].action = "approve"
            /\ decision' = [decision EXCEPT ![Of(r)] = "approve"]
            /\ reviewer'[r].ledger = reviewer[r].ledger
         \/ /\ reviewer'[r].stage = "record" /\ reviewer'[r].action = "reject"
            /\ reviewer'[r].ledger = reviewer[r].ledger
         \/ reviewer'[r].stage = "close" /\ reviewer'[r].action = "none"
      /\ \A o \in Reviewers \ {r} : reviewer'[o] = reviewer[o]
  BY <1>3, ReviewUpdate, ReviewEnds DEF Stages
<1>5. /\ decision' \in [EvoTasks -> {"none", "approve", "reject"}]
      /\ \A o \in EvoTasks : decision'[o] = decision[o] \/ (o = Of(r) /\ decision[o] = "none")
  BY <1>2 DEF Claim
<1>6. NotYetReviewed'
  <2>1. ASSUME NEW o \in EvoTasks, worker = o \/ ledger[o].status \in Early
        PROVE  decision'[o] = decision[o] /\ \A q \in Reviewers : reviewer'[q].task # o
    <3>1. \A q \in Reviewers : Of(q) # o
      BY <2>1 DEF NotYetReviewed
    <3> QED BY <1>4, <1>5, <3>1 DEF Of
  <2> QED BY <1>1, <2>1, CandidatesKept DEF NotYetReviewed
<1>7. HistoryStarts' /\ HistoryAsDecided'
  <2>1. ASSUME NEW n \in 2 .. Len(manifest)
        PROVE  decision[manifest[n].task] = "approve" => decision'[manifest[n].task] = "approve"
    <3>1. manifest[n] \in Entries /\ manifest[n].task # "none"
      BY DEF HistoryStarts
    <3>2. manifest[n].task \in EvoTasks
      BY <3>1 DEF Entries, SomeTask
    <3> QED BY <1>5, <3>2
  <2> QED BY <1>1, <2>1, HistoryKept
<1>8. ReviewInv(r)'
  BY <1>2, <1>4 DEF ReviewInv, In, Of, Doubting
<1>9. ASSUME NEW o \in Reviewers \ {r}
      PROVE  ReviewInv(o)'
  <2>1. ~In(o, "idle") => (decision[Of(o)] = "approve" => decision'[Of(o)] = "approve")
    <3>1. ~In(o, "idle") => Of(o) \in EvoTasks
      BY DEF ReviewInv, Reviews, SomeTask, Of
    <3> QED BY <1>5, <3>1
  <2> QED BY <1>1, <1>4, <2>1, ReviewKept
<1>10. VersionsKept' /\ OperatorInv'
  BY <1>1 DEF VersionsKept, OperatorInv
<1> QED BY <1>1, <1>4, <1>5, <1>6, <1>7, <1>8, <1>9, <1>10

\* What a review that writes no manifest may leave of what was installed, on its way.
MayRemove(r) ==
  \/ registryLock' = registryLock /\ installed' = installed
  \/ /\ registryLock = r /\ registryLock' = "free"
     /\ \/ installed' = installed
        \/ /\ \A n \in DOMAIN manifest : manifest[n].version # Version(Of(r))
           /\ installed' = installed \ {Version(Of(r))}

\* A review that goes to a stage without the lock of the registry, or lets it go:
\* installed may lose what no entry names.
LEMMA ReviewGoesOn ==
  ASSUME EvolutionInv, NEW r \in Reviewers,
         NEW s \in {"enter", "record", "conflict", "stale", "error", "manual", "close"},
         ~In(r, "idle"),
         manifest' = manifest, decision' = decision, task' = task, worker' = worker,
         operator' = operator, MayRemove(r),
         reviewer' \in [Reviewers -> Reviews],
         reviewer'[r].stage = s, reviewer'[r].task = Of(r),
         IF s = "close" THEN reviewer'[r].action = "none"
         ELSE /\ ~In(r, "claim") /\ ~In(r, "close")
              /\ reviewer'[r].action = reviewer[r].action
              /\ reviewer'[r].ledger.status \notin Untouched
              /\ reviewer[r].action = "reject" => s = "record"
              /\ Doubting(reviewer'[r]) =>
                   reviewer'[r].ledger.doubts[OperationOf(reviewer'[r])] > 0,
         \A o \in Reviewers \ {r} : reviewer'[o] = reviewer[o],
         ledger' \in [EvoTasks -> Ledgers],
         Of(r) \in EvoTasks => ledger'[Of(r)] = ledger[Of(r)] \/ ledger'[Of(r)].status \notin Untouched,
         \A o \in EvoTasks \ {Of(r)} : ledger'[o] = ledger[o]
  PROVE  EvolutionInv'
<1> USE EvolutionAssumption DEF EvolutionInv, EvolutionTypeOK
<1>1. /\ Of(r) \in EvoTasks /\ Of(r) # "none"
      /\ s # "close" => reviewer[r].action # "none"
  BY DEF ReviewInv, Reviews, SomeTask, Of
<1>2. worker # Of(r) /\ ledger[Of(r)].status \notin Early
  BY <1>1 DEF NotYetReviewed
<1>3. NotYetReviewed'
  <2>1. ASSUME NEW o \in EvoTasks
        PROVE  /\ worker' = o => ledger'[o].status \notin {"awaiting_review", "published"}
               /\ ledger'[o].status \in Early => ledger[o].status \in Early
               /\ worker = o \/ ledger[o].status \in Early =>
                    \A q \in Reviewers : reviewer'[q].task # o
    <3>1. worker = o \/ ledger[o].status \in Early => \A q \in Reviewers : Of(q) # o
      BY DEF NotYetReviewed
    <3>2. worker = o => ledger[o].status \notin {"awaiting_review", "published"}
      BY DEF NotYetReviewed
    <3>3. ledger'[o].status \in Early => ledger[o].status \in Early
      BY <1>1 DEF Untouched
    <3>4. worker' = o => ledger'[o].status \notin {"awaiting_review", "published"}
      BY <1>1, <1>2, <3>2
    <3>5. \A q \in Reviewers : reviewer'[q].task = Of(q)
      BY DEF Of
    <3> QED BY <3>1, <3>3, <3>4, <3>5
  <2> QED BY <2>1, CandidatesKept
<1>4. HistoryStarts' /\ HistoryAsDecided'
  BY HistoryKept
<1>5. ReviewInv(r)'
  <2>1. CASE s = "close"
    BY <1>1, <2>1 DEF ReviewInv, In, Of, Doubting
  <2>2. CASE s # "close"
    BY <1>1, <2>2 DEF ReviewInv, In, Of
  <2> QED BY <2>1, <2>2
<1>6. ASSUME NEW o \in Reviewers \ {r}
      PROVE  ReviewInv(o)'
  BY ReviewKept DEF MayRemove
<1>7. VersionsKept'
  BY DEF VersionsKept, MayRemove
<1>8. OperatorInv'
  BY DEF OperatorInv, MayRemove
<1>9. registryLock' \in {"free", "dead", "operator"} \cup Reviewers
  BY DEF MayRemove
<1> QED BY <1>3, <1>4, <1>5, <1>6, <1>7, <1>8, <1>9

\* The ledger a review writes down is one of a task that was reviewed.
LEMMA WrittenWell ==
  ASSUME EvolutionInv, NEW r \in Reviewers,
         reviewer[r].stage \in {"begin", "record", "conflict", "stale", "error", "manual"}
  PROVE  /\ Of(r) \in EvoTasks /\ reviewer[r] \in Reviews /\ reviewer[r].ledger \in Ledgers
         /\ reviewer[r].action \in {"approve", "reject", "rollback"}
         /\ reviewer[r].ledger.status \notin Untouched
         /\ Operation(r) \in Kinds /\ Operation(r) = OperationOf(reviewer[r])
         /\ Written(r) \in Ledgers /\ Written(r).status \notin Untouched
         /\ In(r, "begin") => Written(r) = Begun(reviewer[r].ledger, Operation(r))
         /\ In(r, "error") => Written(r) = reviewer[r].ledger
         /\ In(r, "conflict") => Written(r) = Settled(reviewer[r].ledger, Operation(r))
         /\ In(r, "manual") => Written(r).status = "needs_manual_recovery"
<1> DEFINE l == reviewer[r].ledger
<1>1. /\ Of(r) \in EvoTasks /\ reviewer[r] \in Reviews /\ l \in Ledgers
      /\ reviewer[r].action \in {"approve", "reject", "rollback"}
      /\ l.status \notin Untouched
      /\ Doubting(reviewer[r]) => l.doubts[Operation(r)] > 0
  BY EvolutionAssumption
     DEF EvolutionInv, EvolutionTypeOK, ReviewInv, Reviews, SomeTask, Of, In, Operation, OperationOf
<1>2. Operation(r) \in Kinds /\ Operation(r) = OperationOf(reviewer[r])
  BY DEF Operation, OperationOf, Kinds
<1>3. /\ Outcome(r) \in Ledgers /\ Outcome(r).status \notin Untouched
      /\ Outcome(r).doubts = l.doubts
  BY <1>1, OutcomeUpdates DEF Untouched, Early
<1>4. CASE In(r, "begin")
  <2>1. Written(r) = Begun(l, Operation(r))
    BY <1>4 DEF Written, In
  <2> QED BY <1>1, <1>2, <1>4, <2>1, LedgerUpdates DEF In
<1>5. CASE In(r, "record")
  <2>1. Written(r) = IF reviewer[r].action = "reject" THEN Outcome(r)
                     ELSE Settled(Outcome(r), Operation(r))
    BY <1>5 DEF Written, In
  <2>2. reviewer[r].action # "reject" => Outcome(r).doubts[Operation(r)] > 0
    BY <1>1, <1>3, <1>5 DEF Doubting, In
  <2> QED BY <1>1, <1>2, <1>3, <1>5, <2>1, <2>2, LedgerUpdates DEF In
<1>6. CASE In(r, "conflict")
  <2>1. Written(r) = Settled(l, Operation(r)) /\ l.doubts[Operation(r)] > 0
    BY <1>1, <1>6 DEF Written, In, Doubting
  <2> QED BY <1>1, <1>2, <1>6, <2>1, LedgerUpdates DEF In
<1>7. CASE In(r, "stale")
  <2>1. Written(r) = l \/ Written(r) = [l EXCEPT !.status = "failed"]
    BY <1>7 DEF Written, In
  <2> HIDE DEF l
  <2>2. \A m : m = [l EXCEPT !.status = "failed"] => m \in Ledgers /\ m.status = "failed"
    BY <1>1, StatusUpdates DEF Statuses, Unsettled, l
  <2>3. Written(r) \in Ledgers /\ Written(r).status \notin Untouched
    BY <1>1, <2>1, <2>2 DEF Untouched, Early
  <2> QED BY <1>1, <1>2, <1>7, <2>3 DEF In, l
<1>8. CASE In(r, "manual")
  <2>1. Written(r) = [l EXCEPT !.status = "needs_manual_recovery"]
    BY <1>8 DEF Written, In, Manual
  <2> HIDE DEF l
  <2>2. Written(r) \in Ledgers /\ Written(r).status = "needs_manual_recovery"
    BY <1>1, <2>1, StatusUpdates DEF Statuses, Unsettled, l
  <2> QED BY <1>1, <1>2, <1>8, <2>2 DEF In, l, Untouched, Early
<1>9. CASE In(r, "error")
  BY <1>1, <1>2, <1>9 DEF Written, In
<1> QED BY <1>4, <1>5, <1>6, <1>7, <1>8, <1>9 DEF In

\* A review that ends, having saved its ledger or not.
LEMMA EndStep ==
  ASSUME EvolutionInv, NEW r \in Reviewers, ~In(r, "idle"), Ends(r),
         manifest' = manifest, decision' = decision, task' = task, worker' = worker,
         operator' = operator, MayRemove(r),
         \/ ledger' = ledger
         \/ /\ reviewer[r].stage \in {"record", "stale", "begin", "conflict", "error", "manual"}
            /\ \E l \in {ledger[Of(r)], Written(r)} : ledger' = [ledger EXCEPT ![Of(r)] = l]
  PROVE  EvolutionInv'
<1>1. reviewer \in [Reviewers -> Reviews] /\ ledger \in [EvoTasks -> Ledgers]
  BY DEF EvolutionInv, EvolutionTypeOK
<1>2. /\ ledger' \in [EvoTasks -> Ledgers]
      /\ Of(r) \in EvoTasks => ledger'[Of(r)] = ledger[Of(r)] \/ ledger'[Of(r)].status \notin Untouched
      /\ \A o \in EvoTasks \ {Of(r)} : ledger'[o] = ledger[o]
  <2>1. CASE ledger' = ledger
    BY <1>1, <2>1
  <2>2. ASSUME reviewer[r].stage \in {"record", "stale", "begin", "conflict", "error", "manual"},
               NEW l \in {ledger[Of(r)], Written(r)}, ledger' = [ledger EXCEPT ![Of(r)] = l]
        PROVE  <1>2!1 /\ <1>2!2 /\ <1>2!3
    <3>1. Of(r) \in EvoTasks /\ Written(r) \in Ledgers /\ Written(r).status \notin Untouched
      BY <2>2, WrittenWell
    <3>2. l \in Ledgers /\ (l = ledger[Of(r)] \/ l.status \notin Untouched)
      BY <1>1, <2>2, <3>1
    <3> QED BY <1>1, <2>2, <3>1, <3>2, LedgerSaved
  <2> QED BY <2>1, <2>2
<1>3. /\ reviewer' \in [Reviewers -> Reviews]
      /\ reviewer'[r].stage = "close" /\ reviewer'[r].task = Of(r)
      /\ reviewer'[r].action = "none"
      /\ \A o \in Reviewers \ {r} : reviewer'[o] = reviewer[o]
  BY <1>1, ReviewEnds
<1> QED BY <1>2, <1>3, ReviewGoesOn

\* An error or a conflict of an operation in doubt, with the ledger l in memory.
LEMMA ErrStep ==
  ASSUME EvolutionInv, NEW r \in Reviewers, NEW kind \in {"error", "conflict"}, NEW l,
         Errs(r, kind, l), Doubting(reviewer[r]), l \in {reviewer[r].ledger, Outcome(r)},
         manifest' = manifest, decision' = decision, task' = task, worker' = worker,
         operator' = operator, MayRemove(r),
         \/ ledger' = ledger
         \/ /\ In(r, "record")
            /\ \E k \in {ledger[Of(r)], Written(r)} : ledger' = [ledger EXCEPT ![Of(r)] = k]
  PROVE  EvolutionInv'
<1>1. /\ reviewer \in [Reviewers -> Reviews] /\ ledger \in [EvoTasks -> Ledgers]
      /\ reviewer[r] \in Reviews /\ reviewer[r].ledger \in Ledgers
  BY DEF EvolutionInv, EvolutionTypeOK, Reviews
<1>2. /\ ~In(r, "idle") /\ ~In(r, "claim") /\ ~In(r, "close")
      /\ reviewer[r].action \in {"approve", "rollback"}
      /\ reviewer[r].ledger.status \notin Untouched
      /\ reviewer[r].ledger.doubts[OperationOf(reviewer[r])] > 0
  BY <1>1 DEF EvolutionInv, ReviewInv, Doubting, In, Reviews
<1>3. /\ l \in Ledgers /\ l.status \notin Untouched
      /\ l.doubts = reviewer[r].ledger.doubts
  BY <1>1, <1>2, OutcomeUpdates DEF Untouched, Early
<1>4. /\ ledger' \in [EvoTasks -> Ledgers]
      /\ Of(r) \in EvoTasks => ledger'[Of(r)] = ledger[Of(r)] \/ ledger'[Of(r)].status \notin Untouched
      /\ \A o \in EvoTasks \ {Of(r)} : ledger'[o] = ledger[o]
  <2>1. CASE ledger' = ledger
    BY <1>1, <2>1
  <2>2. ASSUME In(r, "record"), NEW k \in {ledger[Of(r)], Written(r)},
               ledger' = [ledger EXCEPT ![Of(r)] = k]
        PROVE  <1>4!1 /\ <1>4!2 /\ <1>4!3
    <3>1. Of(r) \in EvoTasks /\ Written(r) \in Ledgers /\ Written(r).status \notin Untouched
      BY <2>2, WrittenWell DEF In
    <3>2. k \in Ledgers /\ (k = ledger[Of(r)] \/ k.status \notin Untouched)
      BY <1>1, <2>2, <3>1
    <3> QED BY <1>1, <2>2, <3>1, <3>2, LedgerSaved
  <2> QED BY <2>1, <2>2
<1>5. /\ reviewer' \in [Reviewers -> Reviews]
      /\ reviewer'[r].stage = kind /\ reviewer'[r].task = Of(r)
      /\ reviewer'[r].action = reviewer[r].action /\ reviewer'[r].ledger = l
      /\ \A o \in Reviewers \ {r} : reviewer'[o] = reviewer[o]
  <2>1. kind \in Stages
    BY DEF Stages
  <2> QED BY <1>1, <1>3, <2>1, ReviewSaved
<1>6. OperationOf(reviewer'[r]) = OperationOf(reviewer[r])
  BY <1>5 DEF OperationOf
<1>7. /\ reviewer'[r].ledger.status \notin Untouched
      /\ reviewer'[r].ledger.doubts[OperationOf(reviewer'[r])] > 0
  BY <1>2, <1>3, <1>5, <1>6
<1> QED BY <1>2, <1>4, <1>5, <1>7, ReviewGoesOn

LEMMA RecordStep ==
  ASSUME EvolutionInv, NEW r \in Reviewers,
         BeginOperation(r) \/ Refuse(r) \/ Record(r) \/ FinishOperation(r) \/ MarkLedger(r)
  PROVE  EvolutionInv'
<1>1. /\ manifest' = manifest /\ installed' = installed /\ registryLock' = registryLock
      /\ decision' = decision /\ task' = task /\ worker' = worker /\ operator' = operator
      /\ ~In(r, "idle")
  <2>1. CASE BeginOperation(r) \/ Refuse(r) \/ Record(r)
    BY <2>1 DEF BeginOperation, Refuse, Record, registry, records, In
  <2>2. CASE FinishOperation(r) \/ MarkLedger(r)
    BY <2>2 DEF FinishOperation, MarkLedger, registry, In
  <2> QED BY <2>1, <2>2
<1>2. MayRemove(r)
  BY <1>1 DEF MayRemove
<1>3. ASSUME NEW s \in {"enter", "stale", "manual"}, Saves(r, s, Written(r)),
             reviewer[r].stage \in {"begin", "conflict", "error"},
             s = "enter" => In(r, "begin")
      PROVE  EvolutionInv'
  <2>1. /\ Of(r) \in EvoTasks /\ reviewer[r].ledger \in Ledgers
        /\ reviewer[r].action \in {"approve", "reject", "rollback"}
        /\ Operation(r) \in Kinds /\ Operation(r) = OperationOf(reviewer[r])
        /\ Written(r) \in Ledgers /\ Written(r).status \notin Untouched
        /\ s = "enter" => Written(r).doubts[Operation(r)] > 0
    BY <1>3, WrittenWell, LedgerUpdates
  <2>2. /\ ledger' \in [EvoTasks -> Ledgers] /\ ledger'[Of(r)] = Written(r)
        /\ \A o \in EvoTasks \ {Of(r)} : ledger'[o] = ledger[o]
    BY <1>3, <2>1, LedgerSaved DEF Saves, EvolutionInv, EvolutionTypeOK
  <2>3. /\ reviewer' \in [Reviewers -> Reviews]
        /\ reviewer'[r].stage = s /\ reviewer'[r].task = Of(r)
        /\ reviewer'[r].action = reviewer[r].action /\ reviewer'[r].ledger = Written(r)
        /\ \A o \in Reviewers \ {r} : reviewer'[o] = reviewer[o]
    <3>1. reviewer \in [Reviewers -> Reviews] /\ s \in Stages
      BY DEF EvolutionInv, EvolutionTypeOK, Stages
    <3>2. Errs(r, s, Written(r))
      BY <1>3 DEF Saves, Errs
    <3> QED BY <2>1, <3>1, <3>2, ReviewSaved
  <2>4. OperationOf(reviewer'[r]) = Operation(r) /\ (Doubting(reviewer'[r]) => s = "enter")
    BY <2>1, <2>3 DEF OperationOf, Doubting
  <2>5. reviewer[r].action # "reject" /\ ~In(r, "claim") /\ ~In(r, "close")
    BY <1>3 DEF EvolutionInv, ReviewInv, In
  <2> QED BY <1>1, <1>2, <2>1, <2>2, <2>3, <2>4, <2>5, ReviewGoesOn
<1>4. CASE BeginOperation(r)
  BY <1>3, <1>4 DEF BeginOperation, In
<1>5. CASE Refuse(r)
  <2>1. PICK kind \in {"error", "conflict"} : Errs(r, kind, reviewer[r].ledger)
    BY <1>5 DEF Refuse
  <2>2. Doubting(reviewer[r]) /\ ledger' = ledger
    BY <1>5 DEF Refuse, Doubting, In, records
  <2> QED BY <1>1, <1>2, <2>1, <2>2, ErrStep
<1>6. CASE Record(r) \/ MarkLedger(r)
  <2>1. /\ Ends(r) /\ reviewer[r].stage \in {"record", "stale", "manual"}
        /\ ledger' = [ledger EXCEPT ![Of(r)] = Written(r)]
    BY <1>6 DEF Record, MarkLedger, In
  <2> QED BY <1>1, <1>2, <2>1, EndStep
<1>7. CASE FinishOperation(r)
  BY <1>3, <1>7 DEF FinishOperation, In
<1> QED BY <1>4, <1>5, <1>6, <1>7

LEMMA UnlockStep ==
  ASSUME EvolutionInv, NEW r \in Reviewers, Unlock(r)
  PROVE  EvolutionInv'
<1>1. /\ manifest' = manifest /\ installed' = installed /\ registryLock' = "free"
      /\ ledger' = ledger /\ decision' = decision /\ task' = task /\ worker' = worker
      /\ operator' = operator /\ Goes(r, "record") /\ In(r, "unlock")
  BY DEF Unlock, records
<1>2. /\ registryLock = r /\ reviewer[r].ledger.status \notin Untouched
      /\ reviewer[r].action # "reject" /\ Doubting(reviewer[r])
      /\ reviewer[r].ledger.doubts[OperationOf(reviewer[r])] > 0
  BY <1>1 DEF EvolutionInv, ReviewInv, In, Doubting
<1>3. /\ reviewer' \in [Reviewers -> Reviews]
      /\ reviewer'[r].stage = "record" /\ reviewer'[r].task = Of(r)
      /\ reviewer'[r].action = reviewer[r].action /\ reviewer'[r].ledger = reviewer[r].ledger
      /\ \A o \in Reviewers \ {r} : reviewer'[o] = reviewer[o]
  BY <1>1, ReviewUpdate DEF EvolutionInv, EvolutionTypeOK, Stages
<1>4. /\ ledger' \in [EvoTasks -> Ledgers] /\ ~In(r, "idle") /\ ~In(r, "claim") /\ ~In(r, "close")
      /\ MayRemove(r) /\ OperationOf(reviewer'[r]) = OperationOf(reviewer[r])
  BY <1>1, <1>2, <1>3 DEF EvolutionInv, EvolutionTypeOK, In, MayRemove, OperationOf
<1> QED BY <1>1, <1>2, <1>3, <1>4, ReviewGoesOn

LEMMA FailStep ==
  ASSUME EvolutionInv, NEW r \in Reviewers, Fails(r)
  PROVE  EvolutionInv'
<1>1. /\ decision' = decision /\ task' = task /\ worker' = worker /\ operator' = operator
      /\ manifest' = manifest /\ ~In(r, "idle")
  BY DEF Fails, registry, In
<1>2. CASE /\ \/ reviewer[r].stage \in {"begin", "conflict", "stale", "error", "manual"}
              \/ In(r, "record") /\ reviewer[r].action = "reject"
           /\ MayBeSaved(r) /\ Ends(r) /\ UNCHANGED registry
  <2>1. MayRemove(r)
    BY <1>2 DEF MayRemove, registry
  <2> QED BY <1>1, <1>2, <2>1, EndStep DEF MayBeSaved, In
<1>3. CASE /\ In(r, "install") \/ In(r, "commit")
           /\ installed' = IF In(r, "commit") /\ Operation(r) = "publish"
                           THEN installed \ {Version(Of(r))} ELSE installed
           /\ registryLock' = "free" /\ Errs(r, "error", reviewer[r].ledger)
           /\ UNCHANGED <<manifest, ledger>>
  <2>1. registryLock = r /\ Doubting(reviewer[r])
    BY <1>3 DEF EvolutionInv, ReviewInv, In, Doubting
  <2>2. In(r, "commit") /\ Operation(r) = "publish" =>
          \A n \in DOMAIN manifest : manifest[n].version # Version(Of(r))
    BY DEF EvolutionInv, ReviewInv
  <2>3. MayRemove(r)
    BY <1>3, <2>1, <2>2 DEF MayRemove
  <2> QED BY <1>1, <1>3, <2>1, <2>3, ErrStep
<1>4. CASE /\ In(r, "record") /\ reviewer[r].action # "reject"
           /\ \/ Errs(r, "error", reviewer[r].ledger) /\ UNCHANGED ledger
              \/ Errs(r, "error", Outcome(r)) /\ MayBeSaved(r)
           /\ UNCHANGED registry
  <2>1. Doubting(reviewer[r]) /\ MayRemove(r)
    BY <1>4 DEF Doubting, In, MayRemove, registry
  <2> QED BY <1>1, <1>4, <2>1, ErrStep DEF MayBeSaved
<1> QED BY <1>2, <1>3, <1>4 DEF Fails

-----------------------------------------------------------------------------
(* A review that holds the lock of the registry.                           *)

LEMMA LockStep ==
  ASSUME EvolutionInv, NEW r \in Reviewers, TakeLock(r) \/ Install(r)
  PROVE  EvolutionInv'
<1> USE EvolutionAssumption DEF EvolutionInv, EvolutionTypeOK
<1>1. /\ manifest' = manifest /\ ledger' = ledger /\ decision' = decision /\ task' = task
      /\ worker' = worker /\ operator' = operator
      /\ installed \subseteq installed'
  BY DEF TakeLock, Install, records
<1>2. PICK s \in {"install", "commit"} :
        /\ Goes(r, s)
        /\ s = "install" => TakeLock(r) /\ Operation(r) = "publish"
  BY DEF TakeLock, Install
<1>3. /\ reviewer' \in [Reviewers -> Reviews]
      /\ reviewer'[r].stage = s /\ reviewer'[r].task = Of(r)
      /\ reviewer'[r].action = reviewer[r].action /\ reviewer'[r].ledger = reviewer[r].ledger
      /\ \A o \in Reviewers \ {r} : reviewer'[o] = reviewer[o]
  BY <1>2, ReviewUpdate DEF Stages
<1>4. /\ In(r, "enter") \/ In(r, "install")
      /\ registryLock' = r
      /\ \A o \in Reviewers \ {r} : registryLock # o
      /\ registryLock # "operator"
  <2>1. CASE TakeLock(r)
    <3>1. registryLock = "free" /\ registryLock' = r /\ In(r, "enter")
      BY <2>1 DEF TakeLock, Obstructed
    <3>2. \A o \in Reviewers : o # "free"
      BY EvolutionAssumption
    <3> QED BY <3>1, <3>2
  <2>2. CASE Install(r)
    BY <2>2 DEF Install, ReviewInv, In
  <2> QED BY <2>1, <2>2
<1>5. Expected(r) /\ Expected(r)'
  <2>1. Expected(r)
    BY DEF TakeLock, Install, ReviewInv
  <2> QED BY <1>1, <1>3, <2>1 DEF Expected, Operation, IsCurrent, Latest, Of
<1>6. Operation(r) = "publish" => \A n \in DOMAIN manifest : manifest[n].version # Version(Of(r))
  <2>1. CASE TakeLock(r)
    BY <2>1 DEF TakeLock, Obstructed, VersionsKept
  <2>2. CASE Install(r)
    BY <2>2 DEF Install, ReviewInv
  <2> QED BY <2>1, <2>2
<1>7. s = "commit" /\ Operation(r) = "publish" => Version(Of(r)) \in installed'
  <2>1. CASE TakeLock(r)
    <3>1. Operation(r) = "publish" => reviewer'[r].stage = "install"
      BY <1>3, <2>1 DEF TakeLock, Goes
    <3> QED BY <1>3, <3>1
  <2>2. CASE Install(r)
    BY <2>2 DEF Install
  <2> QED BY <2>1, <2>2
<1>8. NotYetReviewed'
  <2>1. \A q \in Reviewers : reviewer'[q].task = Of(q)
    BY <1>3 DEF Of
  <2> QED BY <1>1, <2>1, CandidatesKept DEF NotYetReviewed
<1>9. HistoryStarts' /\ HistoryAsDecided'
  BY <1>1, HistoryKept
<1>10. ReviewInv(r)'
  <2>1. /\ Operation(r)' = Operation(r) /\ Version(Of(r))' = Version(Of(r))
        /\ Of(r)' = Of(r)
    BY <1>1, <1>3 DEF Operation, Version, Of
  <2>2. /\ Of(r) # "none" /\ reviewer[r].action \notin {"none", "reject"}
        /\ reviewer[r].ledger.status \notin Untouched
        /\ reviewer[r].action = "approve" => decision[Of(r)] = "approve"
        /\ reviewer[r].ledger.doubts[OperationOf(reviewer[r])] > 0
    BY <1>4 DEF ReviewInv, In, Doubting
  <2>3. reviewer'[r].ledger.doubts[OperationOf(reviewer'[r])] > 0
    BY <1>3, <2>2 DEF OperationOf
  <2> QED BY <1>1, <1>2, <1>3, <1>4, <1>5, <1>6, <1>7, <2>1, <2>2, <2>3 DEF ReviewInv, In
<1>11. ASSUME NEW o \in Reviewers \ {r}
       PROVE  ReviewInv(o)'
  BY <1>1, <1>3, <1>4, ReviewKept
<1>12. VersionsKept' /\ OperatorInv'
  BY <1>1, <1>4 DEF VersionsKept, OperatorInv
<1> QED BY <1>1, <1>3, <1>4, <1>8, <1>9, <1>10, <1>11, <1>12

\* A new entry of the history is what its task's decision says.
LEMMA EntryDecided ==
  ASSUME HistoryAsDecided, NEW n \in 2 .. Len(manifest)
  PROVE  /\ decision[manifest[n].task] = "approve"
         /\ \A k \in 2 .. n - 1 :
              manifest[k].task = manifest[n].task => k = n - 1 /\ manifest[n].action = "rollback"
         /\ manifest[n].action = "publish" =>
              /\ task[manifest[n].task].base = n - 1
              /\ manifest[n].version = Version(manifest[n].task)
         /\ manifest[n].action = "rollback" =>
              manifest[n - 1] = Entry(Version(manifest[n].task), manifest[n].task, "publish")
              /\ manifest[n].version = manifest[n - 2].version
BY DEF HistoryAsDecided

LEMMA PublishEntry ==
  ASSUME EvolutionInv, NEW r \in Reviewers, In(r, "commit"), Operation(r) = "publish",
         NEW k \in 2 .. Len(manifest)
  PROVE  manifest[k].task # Of(r)
<1> USE DEF EvolutionInv, EvolutionTypeOK
<1>1. task[Of(r)].base = Len(manifest)
  BY DEF ReviewInv, Expected, IsCurrent
<1>2. SUFFICES ASSUME manifest[k].task = Of(r) PROVE FALSE
  OBVIOUS
<1>3. manifest[k].action \in {"publish", "rollback"}
  <2>1. manifest[k] \in Entries /\ manifest[k].action # "bootstrap"
    BY DEF HistoryStarts
  <2> QED BY <2>1 DEF Entries
<1>4. CASE manifest[k].action = "publish"
  BY <1>1, <1>2, <1>4, EntryDecided
<1>5. CASE manifest[k].action = "rollback"
  <2>1. manifest[k - 1].task = Of(r) /\ manifest[k - 1].action = "publish"
    <3>1. manifest[k - 1] = Entry(Version(manifest[k].task), manifest[k].task, "publish")
      BY <1>5, EntryDecided
    <3> HIDE DEF EvolutionInv, EvolutionTypeOK
    <3> QED BY <1>2, <3>1 DEF Entry
  <2>2. Of(r) # "none"
    BY DEF ReviewInv, In
  <2>3. k - 1 \in 2 .. Len(manifest)
    BY <2>1, <2>2 DEF HistoryStarts
  <2>4. task[manifest[k - 1].task].base = k - 2
    BY <2>1, <2>3, EntryDecided
  <2> QED BY <1>1, <2>1, <2>3, <2>4
<1> QED BY <1>3, <1>4, <1>5

LEMMA RollbackEntry ==
  ASSUME EvolutionInv, NEW r \in Reviewers, In(r, "commit"), Operation(r) = "rollback"
  PROVE  LET n == Len(manifest) IN
         /\ n \in 2 .. Len(manifest) /\ decision[Of(r)] = "approve"
         /\ \A k \in 2 .. n : manifest[k].task = Of(r) => k = n
         /\ manifest[n] = Entry(Version(Of(r)), Of(r), "publish")
         /\ task[Of(r)].base = n - 1
<1> USE DEF EvolutionInv, EvolutionTypeOK
<1> DEFINE n == Len(manifest)
<1>1. manifest[n].task = Of(r) /\ manifest[n].action = "publish" /\ Of(r) # "none"
  BY DEF ReviewInv, Expected, Latest, In
<1>2. n \in 2 .. Len(manifest)
  BY <1>1 DEF HistoryStarts
<1>3. /\ decision[Of(r)] = "approve"
      /\ \A k \in 2 .. n - 1 : manifest[k].task # Of(r)
      /\ task[Of(r)].base = n - 1 /\ manifest[n].version = Version(Of(r))
  <2>1. HistoryAsDecided
    OBVIOUS
  <2> HIDE DEF EvolutionInv, EvolutionTypeOK
  <2>2. /\ decision[manifest[n].task] = "approve"
        /\ \A k \in 2 .. n - 1 : manifest[k].task = manifest[n].task => manifest[n].action = "rollback"
        /\ manifest[n].action = "publish" =>
             task[manifest[n].task].base = n - 1 /\ manifest[n].version = Version(manifest[n].task)
    BY <1>2, <2>1, EntryDecided
  <2> QED BY <1>1, <2>2
<1>4. manifest[n] = Entry(Version(Of(r)), Of(r), "publish")
  <2>1. manifest[n] \in Entries
    BY <1>2
  <2> QED BY <1>1, <1>3, <2>1 DEF Entries, Entry
<1>5. \A k \in 2 .. n : k = n \/ k \in 2 .. n - 1
  BY <1>2
<1> QED BY <1>1, <1>2, <1>3, <1>4, <1>5

\* The review that wrote an entry keeps its revision.
LEMMA RevisionSaved ==
  ASSUME reviewer \in [Reviewers -> Reviews], NEW r \in Reviewers, NEW n \in Nat,
         reviewer' = [reviewer EXCEPT ![r].stage = "unlock", ![r].result = n]
  PROVE  /\ reviewer' \in [Reviewers -> Reviews]
         /\ reviewer'[r].stage = "unlock" /\ reviewer'[r].task = Of(r)
         /\ reviewer'[r].action = reviewer[r].action
         /\ reviewer'[r].ledger = reviewer[r].ledger /\ reviewer'[r].result = n
         /\ \A o \in Reviewers \ {r} : reviewer'[o] = reviewer[o]
<1> DEFINE x == [reviewer[r] EXCEPT !.stage = "unlock", !.result = n]
<1>1. reviewer[r] \in Reviews /\ reviewer' = [reviewer EXCEPT ![r] = x]
  OBVIOUS
<1>2. /\ x \in Reviews /\ x.stage = "unlock" /\ x.task = Of(r) /\ x.action = reviewer[r].action
      /\ x.ledger = reviewer[r].ledger /\ x.result = n
  BY <1>1 DEF Reviews, Stages, Of
<1> HIDE DEF x
<1> QED BY <1>1, <1>2

LEMMA WriteStep ==
  ASSUME EvolutionInv, NEW r \in Reviewers, WriteManifest(r)
  PROVE  EvolutionInv'
<1> USE EvolutionAssumption DEF EvolutionInv, EvolutionTypeOK
<1> DEFINE n == Len(manifest)
           e == Entry(IF Operation(r) = "publish" THEN Version(Of(r)) ELSE BaseVersion(Of(r)),
                      Of(r), Operation(r))
<1>1. /\ installed' = installed /\ registryLock' = registryLock /\ ledger' = ledger
      /\ decision' = decision /\ task' = task /\ worker' = worker /\ operator' = operator
  BY DEF WriteManifest, records
<1>2. /\ In(r, "commit") /\ registryLock = r /\ Of(r) # "none" /\ Of(r) \in EvoTasks
      /\ Operation(r) \in {"publish", "rollback"}
  BY DEF WriteManifest, ReviewInv, In, Of, Reviews, SomeTask, Operation
<1>3. /\ Operation(r) = "publish" =>
           /\ decision[Of(r)] = "approve" /\ task[Of(r)].base = n
           /\ Version(Of(r)) \in installed
           /\ \A k \in 2 .. n : manifest[k].task # Of(r)
      /\ Operation(r) = "rollback" =>
           /\ n \in 2 .. n /\ decision[Of(r)] = "approve" /\ task[Of(r)].base = n - 1
           /\ \A k \in 2 .. n : manifest[k].task = Of(r) => k = n
           /\ manifest[n] = Entry(Version(Of(r)), Of(r), "publish")
  <2>1. Operation(r) = "publish" =>
           /\ decision[Of(r)] = "approve" /\ task[Of(r)].base = n
           /\ Version(Of(r)) \in installed
    BY <1>2 DEF ReviewInv, Expected, IsCurrent, Operation, In
  <2>2. Operation(r) = "publish" => \A k \in 2 .. n : manifest[k].task # Of(r)
    BY <1>2, PublishEntry
  <2> QED BY <1>2, <2>1, <2>2, RollbackEntry
<1>4. e.task = Of(r) /\ e.action = Operation(r)
      /\ e.version = IF Operation(r) = "publish" THEN Version(Of(r)) ELSE BaseVersion(Of(r))
  BY DEF Entry
<1>5. n \in Nat \ {0} /\ task[Of(r)].base \in Nat /\ task[Of(r)].diff \in Diffs \cup {"none"}
  BY <1>2
<1>6. e.version \in Contents /\ e.version \in installed
  <2>1. CASE Operation(r) = "publish"
    <3>1. Version(Of(r)) \in Contents
      BY <1>5 DEF Version, Contents
    <3> QED BY <1>3, <1>4, <2>1, <3>1
  <2>2. CASE Operation(r) = "rollback"
    <3>1. n - 1 \in DOMAIN manifest /\ e.version = manifest[n - 1].version
      BY <1>3, <1>4, <1>5, <2>2 DEF BaseVersion
    <3>2. manifest[n - 1] \in Entries
      BY <3>1
    <3> QED BY <3>1, <3>2 DEF Entries, VersionsKept
  <2> QED BY <1>2, <2>1, <2>2
<1>7. e \in Entries
  BY <1>2, <1>6 DEF Entries, Entry, SomeTask
<1>8. manifest' = Append(manifest, e)
  BY DEF WriteManifest
<1> HIDE DEF e
<1>9. /\ manifest' \in Seq(Entries) /\ Len(manifest') = n + 1 /\ manifest'[n + 1] = e
      /\ \A k \in 1 .. n : manifest'[k] = manifest[k]
      /\ DOMAIN manifest' = 1 .. n + 1 /\ DOMAIN manifest = 1 .. n
  BY <1>7, <1>8
<1>10. /\ reviewer' \in [Reviewers -> Reviews]
       /\ reviewer'[r].stage = "unlock" /\ reviewer'[r].task = Of(r)
       /\ reviewer'[r].action = reviewer[r].action
       /\ reviewer'[r].ledger = reviewer[r].ledger
       /\ \A o \in Reviewers \ {r} : reviewer'[o] = reviewer[o]
  <2>1. n + 1 \in Nat
    BY <1>5
  <2>2. reviewer' = [reviewer EXCEPT ![r].stage = "unlock", ![r].result = n + 1]
    BY <1>9 DEF WriteManifest
  <2>3. reviewer \in [Reviewers -> Reviews]
    BY DEF EvolutionInv, EvolutionTypeOK
  <2> HIDE DEF EvolutionInv, EvolutionTypeOK, n
  <2> QED BY <2>1, <2>2, <2>3, RevisionSaved
<1>11. HistoryStarts'
  <2>1. manifest'[1] = manifest[1]
    BY <1>5, <1>9
  <2>2. ASSUME NEW k \in 2 .. n + 1
        PROVE  manifest'[k].task # "none" /\ manifest'[k].action # "bootstrap"
    <3>1. CASE k = n + 1
      BY <1>2, <1>4, <1>9, <3>1
    <3>2. CASE k \in 2 .. n
      <4>1. manifest'[k] = manifest[k]
        BY <1>9, <3>2
      <4> QED BY <3>2, <4>1 DEF HistoryStarts
    <3> QED BY <1>5, <3>1, <3>2
  <2> QED BY <1>9, <2>1, <2>2 DEF HistoryStarts
<1>12. NotYetReviewed'
  <2>1. ASSUME NEW t \in EvoTasks, worker = t \/ ledger[t].status \in Early
        PROVE  /\ \A q \in Reviewers : reviewer'[q].task # t
               /\ \A k \in DOMAIN manifest' : manifest'[k].task # t
    <3>1. \A q \in Reviewers : Of(q) # t
      BY <2>1 DEF NotYetReviewed
    <3>2. \A k \in DOMAIN manifest : manifest[k].task # t
      BY <2>1 DEF NotYetReviewed
    <3>3. \A k \in DOMAIN manifest' : k \in 1 .. n \/ k = n + 1
      BY <1>5, <1>9
    <3>4. \A q \in Reviewers : reviewer'[q].task # t
      BY <1>10, <3>1 DEF Of
    <3>5. manifest'[n + 1].task # t
      BY <1>4, <1>9, <3>1
    <3>6. \A k \in 1 .. n : manifest'[k].task # t
      BY <1>9, <3>2
    <3> QED BY <3>3, <3>4, <3>5, <3>6
  <2> QED BY <1>1, <2>1 DEF NotYetReviewed, Of
<1>13. \A t : Version(t)' = Version(t)
  BY <1>1 DEF Version
<1>14. HistoryAsDecided'
  <2> DEFINE Sanctioned(x, h, m) ==
        /\ decision[x.task] = "approve"
        /\ \A k \in 2 .. m - 1 : h[k].task = x.task => k = m - 1 /\ x.action = "rollback"
        /\ x.action = "publish" => task[x.task].base = m - 1 /\ x.version = Version(x.task)
        /\ x.action = "rollback" =>
             h[m - 1] = Entry(Version(x.task), x.task, "publish")
             /\ x.version = h[m - 2].version
  <2>1. ASSUME NEW m \in 2 .. n + 1
        PROVE  Sanctioned(manifest'[m], manifest', m)
    <3>1. CASE m \in 2 .. n
      <4>1. /\ manifest'[m] = manifest[m] /\ manifest'[m - 1] = manifest[m - 1]
            /\ \A k \in 2 .. m - 1 : manifest'[k] = manifest[k]
        <5>1. m \in 1 .. n /\ m - 1 \in 1 .. n /\ 2 .. m - 1 \subseteq 1 .. n
          BY <1>5, <3>1
        <5> QED BY <1>9, <5>1
      <4>2. manifest[m].action = "rollback" => manifest'[m - 2] = manifest[m - 2]
        <5>1. SUFFICES ASSUME manifest[m].action = "rollback" PROVE m # 2
          <6>1. m # 2 => m - 2 \in 1 .. n
            BY <1>5, <3>1
          <6> QED BY <1>9, <6>1
        <5>2. manifest[m - 1].task = manifest[m].task
          <6>1. manifest[m - 1] = Entry(Version(manifest[m].task), manifest[m].task, "publish")
            BY <3>1, <5>1, EntryDecided
          <6> HIDE DEF EvolutionInv, EvolutionTypeOK
          <6> QED BY <6>1 DEF Entry
        <5> QED BY <3>1, <5>2 DEF HistoryStarts
      <4>3. Sanctioned(manifest[m], manifest, m)
        BY <3>1, EntryDecided
      <4> HIDE DEF EvolutionInv, EvolutionTypeOK
      <4> QED BY <3>1, <4>1, <4>2, <4>3
    <3>2. CASE m = n + 1
      <4>1. manifest'[m] = e /\ \A k \in 2 .. m - 1 : manifest'[k] = manifest[k]
        BY <1>5, <1>9, <3>2
      <4>2. CASE Operation(r) = "publish"
        <5>1. decision[e.task] = "approve" /\ task[e.task].base = m - 1
              /\ e.version = Version(e.task)
          BY <1>3, <1>4, <1>5, <3>2, <4>2
        <5>2. \A k \in 2 .. m - 1 : manifest'[k].task # e.task
          BY <1>3, <1>4, <1>5, <3>2, <4>1, <4>2
        <5>3. e.action = "publish"
          BY <1>4, <4>2
        <5> QED BY <4>1, <5>1, <5>2, <5>3
      <4>3. CASE Operation(r) = "rollback"
        <5>1. decision[e.task] = "approve" /\ e.action = "rollback"
          BY <1>3, <1>4, <4>3
        <5>2. \A k \in 2 .. m - 1 : manifest'[k].task = e.task => k = m - 1
          BY <1>3, <1>4, <1>5, <3>2, <4>1, <4>3
        <5>3. manifest'[m - 1] = Entry(Version(e.task), e.task, "publish")
          <6>1. m - 1 = n /\ n \in 1 .. n /\ manifest'[n] = manifest[n]
            BY <1>5, <1>9, <3>2
          <6>2. manifest[n] = Entry(Version(Of(r)), Of(r), "publish")
            BY <1>3, <4>3
          <6> HIDE DEF n
          <6> QED BY <1>4, <6>1, <6>2
        <5>4. e.version = manifest[n - 1].version
          BY <1>3, <1>4, <4>3 DEF BaseVersion
        <5>5. manifest'[m - 2] = manifest[n - 1]
          <6>1. n \in 2 .. n
            BY <1>3, <4>3
          <6>2. m - 2 = n - 1 /\ n - 1 \in 1 .. n
            BY <1>5, <3>2, <6>1
          <6> QED BY <1>9, <6>2
        <5> QED BY <4>1, <5>1, <5>2, <5>3, <5>4, <5>5
      <4> QED BY <1>2, <4>2, <4>3
    <3> QED BY <1>5, <3>1, <3>2
  <2> QED BY <1>1, <1>9, <1>13, <2>1 DEF HistoryAsDecided
<1>15. VersionsKept'
  BY <1>1, <1>5, <1>6, <1>9 DEF VersionsKept
<1>16. ReviewInv(r)'
  <2>1. /\ reviewer[r].action \notin {"none", "reject"}
        /\ reviewer[r].ledger.status \notin Untouched
        /\ reviewer[r].action = "approve" => decision[Of(r)] = "approve"
        /\ reviewer[r].ledger.doubts[OperationOf(reviewer[r])] > 0
    BY <1>2 DEF ReviewInv, In, Doubting
  <2>2. OperationOf(reviewer'[r]) = OperationOf(reviewer[r])
    BY <1>10 DEF OperationOf
  <2>3. reviewer'[r].ledger.doubts[OperationOf(reviewer'[r])] > 0
    BY <1>10, <2>1, <2>2
  <2> QED BY <1>1, <1>2, <1>10, <2>1, <2>3 DEF ReviewInv, In, Of
<1>17. ASSUME NEW o \in Reviewers \ {r}
       PROVE  ReviewInv(o)'
  BY <1>1, <1>2, <1>10, ReviewKept
<1>18. OperatorInv'
  BY <1>1 DEF OperatorInv
<1> QED BY <1>1, <1>9, <1>5, <1>10, <1>11, <1>12, <1>14, <1>15, <1>16, <1>17, <1>18

LEMMA LeaveStep ==
  ASSUME EvolutionInv, NEW r \in Reviewers, Close(r) \/ Dies(r)
  PROVE  EvolutionInv'
<1> USE EvolutionAssumption DEF EvolutionInv, EvolutionTypeOK
<1>1. /\ manifest' = manifest /\ installed' = installed /\ ledger' = ledger
      /\ decision' = decision /\ task' = task /\ worker' = worker /\ operator' = operator
      /\ registryLock' = registryLock \/ (registryLock = r /\ registryLock' = "dead")
  BY DEF Close, Dies, registry
<1>2. /\ reviewer' \in [Reviewers -> Reviews] /\ reviewer'[r] = NoReview
      /\ \A o \in Reviewers \ {r} : reviewer'[o] = reviewer[o]
  BY NothingIn DEF Close, Dies
<1>3. NotYetReviewed'
  <2>1. \A q \in Reviewers : reviewer'[q].task \in {Of(q), "none"}
    BY <1>2 DEF Of, NoReview
  <2> QED BY <1>1, <2>1, CandidatesKept DEF NotYetReviewed
<1>4. HistoryStarts' /\ HistoryAsDecided'
  BY <1>1, HistoryKept
<1>5. ReviewInv(r)'
  BY <1>2 DEF ReviewInv, In, Of, NoReview, Doubting
<1>6. ASSUME NEW o \in Reviewers \ {r}
      PROVE  ReviewInv(o)'
  BY <1>1, <1>2, ReviewKept
<1>7. VersionsKept' /\ OperatorInv'
  <2>1. r # "operator"
    OBVIOUS
  <2> QED BY <1>1, <2>1 DEF VersionsKept, OperatorInv
<1> QED BY <1>1, <1>2, <1>3, <1>4, <1>5, <1>6, <1>7

-----------------------------------------------------------------------------
(* Recovery.                                                               *)

LEMMA RecoveryStep ==
  ASSUME EvolutionInv,
         (\E t \in EvoTasks, s \in Unsettled : Load(t, s)) \/ ClaimLock \/ Look \/ SaveRecovery
           \/ OperatorDies
  PROVE  EvolutionInv'
<1> USE EvolutionAssumption DEF EvolutionInv, EvolutionTypeOK
<1> DEFINE Recoveries == [stage : {"idle", "inspect", "look", "save"}, task : SomeTask,
                          ledger : Ledgers]
<1>1. /\ manifest' = manifest /\ decision' = decision /\ task' = task /\ worker' = worker
      /\ reviewer' = reviewer
  BY DEF Load, ClaimLock, Look, SaveRecovery, OperatorDies, registry, records
<1>2. operator \in Recoveries /\ NoRecovery \in Recoveries /\ NoRecovery.stage = "idle"
  BY NothingIn DEF NoRecovery, SomeTask
<1>3. /\ operator' \in Recoveries
      /\ operator'.stage # "idle" =>
           operator'.task \in EvoTasks /\ operator'.ledger.status \in Unsettled
      /\ operator'.stage = "look" => registryLock' = "operator"
  <2>1. ASSUME NEW t \in EvoTasks, NEW s \in Unsettled, Load(t, s)
        PROVE  <1>3!1 /\ <1>3!2 /\ <1>3!3
    <3> DEFINE l == [ledger[t] EXCEPT !.status = s]
               st == IF OneInDoubt(ledger[t]) THEN "inspect" ELSE "save"
    <3>1. l \in Ledgers /\ l.status \in Unsettled
      BY StatusUpdates DEF Unsettled, Statuses
    <3>2. operator' = [stage |-> st, task |-> t, ledger |-> l]
      BY <2>1 DEF Load
    <3>3. st \in {"inspect", "save"}
      OBVIOUS
    <3> HIDE DEF l, st
    <3> QED BY <3>1, <3>2, <3>3 DEF SomeTask
  <2>2. CASE ClaimLock
    <3>1. PICK st \in {"look", "save"} :
            /\ operator' = [operator EXCEPT !.stage = st]
            /\ st = "look" => registryLock' = "operator"
      BY <2>2 DEF ClaimLock
    <3>2. operator.stage # "idle"
      BY <2>2 DEF ClaimLock
    <3> QED BY <1>2, <3>1, <3>2 DEF OperatorInv
  <2>3. CASE Look
    <3>1. operator' = [operator EXCEPT !.stage = "save"] /\ operator.stage # "idle"
      BY <2>3 DEF Look
    <3> QED BY <1>2, <3>1 DEF OperatorInv
  <2>4. CASE SaveRecovery \/ OperatorDies
    BY <1>2, <2>4 DEF SaveRecovery, OperatorDies
  <2> QED BY <2>1, <2>2, <2>3, <2>4
<1>4. /\ ledger' \in [EvoTasks -> Ledgers]
      /\ \A o \in EvoTasks : ledger'[o] = ledger[o] \/ ledger'[o].status \in Unsettled
  <2>1. CASE SaveRecovery
    <3>1. operator.task \in EvoTasks /\ operator.ledger.status \in Unsettled
          /\ operator.ledger \in Ledgers
      BY <1>2, <2>1 DEF SaveRecovery, OperatorInv
    <3> QED BY <2>1, <3>1, LedgerSaved DEF SaveRecovery
  <2>2. CASE ~SaveRecovery
    BY <2>2 DEF Load, ClaimLock, Look, OperatorDies, records
  <2> QED BY <2>1, <2>2
<1>5. /\ registryLock' \in {"free", "dead", "operator"} \cup Reviewers
      /\ \A r \in Reviewers : registryLock = r => registryLock' = r /\ installed' = installed
  <2>1. \A r \in Reviewers : r \notin {"free", "dead", "operator"}
    OBVIOUS
  <2>2. CASE ClaimLock
    BY <2>1, <2>2 DEF ClaimLock, TakenOver
  <2>3. CASE Look
    BY <2>1, <2>3 DEF Look, OperatorInv
  <2>4. CASE OperatorDies
    BY <2>1, <2>4 DEF OperatorDies
  <2>5. CASE SaveRecovery \/ (\E t \in EvoTasks, s \in Unsettled : Load(t, s))
    BY <2>5 DEF SaveRecovery, Load, registry
  <2> QED BY <2>2, <2>3, <2>4, <2>5
<1>6. NotYetReviewed'
  <2>1. ASSUME NEW o \in EvoTasks
        PROVE  /\ worker' = o => ledger'[o].status \notin {"awaiting_review", "published"}
               /\ ledger'[o].status \in Early => ledger[o].status \in Early
               /\ worker = o \/ ledger[o].status \in Early =>
                    \A r \in Reviewers : reviewer'[r].task # o
    BY <1>1, <1>4 DEF NotYetReviewed, Of, Early, Unsettled
  <2>2. \A o \in EvoTasks : worker' = o => worker = o
    BY <1>1
  <2> QED BY <1>1, <2>1, <2>2, CandidatesKept
<1>7. HistoryStarts' /\ HistoryAsDecided'
  BY <1>1, HistoryKept
<1>8. ASSUME NEW r \in Reviewers
      PROVE  ReviewInv(r)'
  BY <1>1, <1>5, ReviewKept
<1>9. VersionsKept'
  <2>1. CASE Look
    BY <1>1, <2>1 DEF VersionsKept, Look
  <2>2. CASE ~Look
    BY <1>1, <2>2 DEF VersionsKept, Load, ClaimLock, SaveRecovery, OperatorDies, registry
  <2> QED BY <2>1, <2>2
<1>10. OperatorInv'
  BY <1>3 DEF OperatorInv
<1> QED BY <1>1, <1>3, <1>4, <1>5, <1>6, <1>7, <1>8, <1>9, <1>10

-----------------------------------------------------------------------------
(* The theorems.                                                           *)

LEMMA StartsWell == EvolutionInit => EvolutionInv
<1> SUFFICES ASSUME EvolutionInit PROVE EvolutionInv
  OBVIOUS
<1> USE EvolutionAssumption DEF EvolutionInit
<1>1. Entry(Bundled, "none", "bootstrap") \in Entries
  BY DEF Entry, Bundled, Entries, Contents, SomeTask
<1>2. /\ manifest \in Seq(Entries) /\ Len(manifest) = 1
      /\ manifest[1] = Entry(Bundled, "none", "bootstrap") /\ DOMAIN manifest = 1 .. 1
  BY <1>1
<1>3. EvolutionTypeOK
  BY <1>2, NothingIn DEF EvolutionTypeOK, SomeTask, NoRecovery
<1>4. HistoryStarts /\ HistoryAsDecided /\ VersionsKept
  BY <1>2 DEF HistoryStarts, HistoryAsDecided, VersionsKept, Entry
<1>5. NotYetReviewed
  <2>1. \A n \in DOMAIN manifest : manifest[n].task = "none"
    BY <1>2 DEF Entry
  <2>2. \A r \in Reviewers : Of(r) = "none"
    BY DEF Of, NoReview
  <2>3. ASSUME NEW t \in EvoTasks
        PROVE  t # "none" /\ worker # t /\ decision[t] = "none"
    OBVIOUS
  <2> QED BY <2>1, <2>2, <2>3 DEF NotYetReviewed
<1>6. OperatorInv
  BY DEF OperatorInv, NoRecovery
<1>7. ASSUME NEW r \in Reviewers
      PROVE  ReviewInv(r)
  BY DEF ReviewInv, In, Of, NoReview, Doubting
<1> QED BY <1>3, <1>4, <1>5, <1>6, <1>7 DEF EvolutionInv

LEMMA StepsWell == EvolutionInv /\ [EvolutionNext]_evolutionVars => EvolutionInv'
<1> SUFFICES ASSUME EvolutionInv, [EvolutionNext]_evolutionVars PROVE EvolutionInv'
  OBVIOUS
<1>1. CASE UNCHANGED evolutionVars
  BY <1>1 DEF evolutionVars, registry, records, EvolutionInv, EvolutionTypeOK, HistoryStarts,
     NotYetReviewed, HistoryAsDecided, VersionsKept, OperatorInv, ReviewInv, In, Of, Operation,
     Expected, IsCurrent, Latest, Version, Doubting, OperationOf
<1>2. CASE EvolutionNext
  <2>1. ASSUME NEW t \in EvoTasks,
               Promote(t) \/ RunTask(t) \/ FindStale(t) \/ (\E d \in Diffs : Submit(t, d))
                 \/ (\E s \in Unsettled : GiveUp(t, s) \/ Load(t, s))
        PROVE  EvolutionInv'
    <3>1. CASE \E d \in Diffs : Submit(t, d)
      BY <3>1, CandidateStep
    <3>2. CASE Promote(t) \/ RunTask(t)
      BY <3>2, CandidateStep
    <3>3. CASE FindStale(t) \/ (\E s \in Unsettled : GiveUp(t, s))
      BY <3>3, WorkerStops
    <3>4. CASE \E s \in Unsettled : Load(t, s)
      BY <3>4, RecoveryStep
    <3> QED BY <2>1, <3>1, <3>2, <3>3, <3>4
  <2>2. ASSUME NEW r \in Reviewers,
               (\E t \in EvoTasks, a \in {"approve", "reject", "rollback"} : Open(r, t, a))
                 \/ Claim(r) \/ BeginOperation(r) \/ TakeLock(r) \/ Refuse(r) \/ Install(r)
                 \/ WriteManifest(r) \/ Unlock(r) \/ Record(r) \/ FinishOperation(r)
                 \/ MarkLedger(r) \/ Close(r) \/ Fails(r) \/ Dies(r)
        PROVE  EvolutionInv'
    <3>1. CASE \E t \in EvoTasks, a \in {"approve", "reject", "rollback"} : Open(r, t, a)
      BY <3>1, OpenStep
    <3>2. CASE Claim(r)
      BY <3>2, ClaimStep
    <3>3. CASE BeginOperation(r) \/ Refuse(r) \/ Record(r) \/ FinishOperation(r) \/ MarkLedger(r)
      BY <3>3, RecordStep
    <3>4. CASE TakeLock(r) \/ Install(r)
      BY <3>4, LockStep
    <3>5. CASE WriteManifest(r) \/ Unlock(r)
      BY <3>5, WriteStep, UnlockStep
    <3>6. CASE Close(r) \/ Fails(r) \/ Dies(r)
      BY <3>6, LeaveStep, FailStep
    <3> QED BY <2>2, <3>1, <3>2, <3>3, <3>4, <3>5, <3>6
  <2>3. CASE WorkerDies
    BY <2>3, WorkerStops
  <2>4. CASE ClaimLock \/ Look \/ SaveRecovery \/ OperatorDies
    BY <2>4, RecoveryStep
  <2> QED BY <1>2, <2>1, <2>2, <2>3, <2>4 DEF EvolutionNext
<1> QED BY <1>1, <1>2

THEOREM EvolutionInvariant == EvolutionSpec => []EvolutionInv
BY StartsWell, StepsWell, PTL DEF EvolutionSpec

\* Every reachable state of the registry, the ledgers, the reviews and the recovery is
\* well typed.
THEOREM EvolutionTypeCorrect == EvolutionSpec => []EvolutionTypeOK
<1>1. EvolutionInv => EvolutionTypeOK
  BY DEF EvolutionInv
<1> QED BY <1>1, EvolutionInvariant, PTL

\* What reached the registry is what was decided, on the revision it was decided for,
\* once, whatever processes die and whatever an operator recovers in between.
THEOREM HistoryFollowsDecisions == EvolutionSpec => []HistoryAsDecided
<1>1. EvolutionInv => HistoryAsDecided
  BY DEF EvolutionInv
<1> QED BY <1>1, EvolutionInvariant, PTL

\* No clean-up and no recovery removes a version the manifest's history names.
THEOREM PublishedVersionsStay == EvolutionSpec => []VersionsKept
<1>1. EvolutionInv => VersionsKept
  BY DEF EvolutionInv
<1> QED BY <1>1, EvolutionInvariant, PTL

-----------------------------------------------------------------------------
(* The ledgers against the registry.  What is said of a history h, a task,   *)
(* a ledger l and a review x takes them as parameters, so that it says the   *)
(* same wherever they are the same.                                          *)

Wrote(h, t, a) == \E n \in DOMAIN h : h[n].task = t /\ h[n].action = a
Unnamed(h, t) == \A n \in DOMAIN h : h[n].task # t
NamedAt(h, t, n) == n \in DOMAIN h /\ h[n].task = t

Unsure(l) == InDoubt(l) \/ l.status = "needs_manual_recovery"

Tells(h, t, l) ==
  /\ Wrote(h, t, "publish") <=> l.status \in {"published", "rolled_back"}
  /\ Wrote(h, t, "rollback") <=> l.status = "rolled_back"
  /\ Wrote(h, t, "publish") =>
       /\ NamedAt(h, t, l.revision)
       /\ h[l.revision].action = "rollback" <=> Wrote(h, t, "rollback")

\* Nobody has seen a candidate of the task: no review, no entry, no decision to make.
Fresh(t) == worker = t \/ ledger[t].status \in Untouched

LedgerInv(t) ==
  /\ Unsure(ledger[t]) \/ Tells(manifest, t, ledger[t])
  /\ Fresh(t) => /\ reviewLock[t] = "free" /\ Unnamed(manifest, t)
                 /\ \A r \in Reviewers : Of(r) # t

\* The lock of a review gives it the task for itself.
LocksInv ==
  /\ reviewLock \in [EvoTasks -> {"free", "held", "dead"}]
  /\ \A r \in Reviewers : Of(r) # "none" =>
       /\ reviewLock[Of(r)] = "held"
       /\ \A q \in Reviewers \ {r} : Of(q) # Of(r)

\* Where a review x stands with the history and with the ledger l on disk.  Until its
\* entry is written the ledger it read still holds; after that its outcome does.
Opening(x) == x.stage \in {"claim", "begin"} \/ (x.stage = "record" /\ x.action = "reject")
Trying(x) == x.stage \in {"enter", "install", "commit"}
Entered(x) == x.stage = "unlock" \/ (x.stage = "record" /\ x.action # "reject")
Unwritten(x) == Opening(x) \/ Trying(x) \/ x.stage \in {"conflict", "stale"}
AsRead(x) == IF Trying(x) \/ x.stage = "conflict" THEN Settled(x.ledger, OperationOf(x)) ELSE x.ledger

Reviewing(h, t, x, l) ==
  /\ Trying(x) \/ Entered(x) => Unsure(l)
  /\ Unwritten(x) =>
       /\ x.ledger.status = IF x.action = "rollback" THEN "published" ELSE "awaiting_review"
       /\ InDoubt(AsRead(x)) \/ Tells(h, t, AsRead(x))
  /\ Entered(x) =>
       /\ Wrote(h, t, "publish") /\ (Wrote(h, t, "rollback") <=> x.action = "rollback")
       /\ NamedAt(h, t, x.result) /\ (h[x.result].action = "rollback" <=> x.action = "rollback")

ReviewTells(r) == Of(r) # "none" => Reviewing(manifest, Of(r), reviewer[r], ledger[Of(r)])

\* The recovery writes that a look is needed, or ends a task whose worker is gone.
RecoveryTells ==
  operator.stage # "idle" =>
    \/ operator.ledger.status = "needs_manual_recovery"
    \/ /\ operator.ledger.status = "failed"
       /\ ledger[operator.task].status = "agent_running" /\ worker # operator.task

TruthInv ==
  /\ \A t \in EvoTasks : LedgerInv(t)
  /\ LocksInv /\ (\A r \in Reviewers : ReviewTells(r)) /\ RecoveryTells

\* A task is named by an entry exactly if it was published or rolled back.
LEMMA NamedByAction ==
  ASSUME EvolutionInv, NEW t \in EvoTasks
  PROVE  Unnamed(manifest, t) <=>
           ~Wrote(manifest, t, "publish") /\ ~Wrote(manifest, t, "rollback")
<1>1. t # "none"
  BY EvolutionAssumption
<1>2. ASSUME NEW n \in DOMAIN manifest, manifest[n].task = t
      PROVE  manifest[n].action \in {"publish", "rollback"}
  <2>1. manifest[n] \in Entries
    BY DEF EvolutionInv, EvolutionTypeOK
  <2>2. n # 1 /\ n \in 1 .. Len(manifest) /\ Len(manifest) \in Nat
    BY <1>1, <1>2 DEF EvolutionInv, EvolutionTypeOK, HistoryStarts
  <2>3. n \in 2 .. Len(manifest)
    BY <2>2
  <2> QED BY <2>1, <2>3 DEF Entries, EvolutionInv, HistoryStarts
<1> QED BY <1>2 DEF Unnamed, Wrote

\* A ledger marked for a look by hand satisfies every review.
LEMMA MarkedByHand ==
  ASSUME NEW h, NEW t, NEW x, NEW l, NEW k, Reviewing(h, t, x, l),
         k = l \/ k.status = "needs_manual_recovery"
  PROVE  Reviewing(h, t, x, k)
BY DEF Reviewing, Unsure

\* A step of one review that writes no entry and keeps the lock of the review.
LEMMA ReviewMoves ==
  ASSUME EvolutionInv, TruthInv, NEW r \in Reviewers, Of(r) \in EvoTasks,
         manifest' = manifest, worker' = worker, operator' = operator, reviewLock' = reviewLock,
         reviewer'[r].task = Of(r), \A o \in Reviewers \ {r} : reviewer'[o] = reviewer[o],
         ledger' = ledger \/ ledger'[Of(r)].status \notin Untouched,
         \A o \in EvoTasks \ {Of(r)} : ledger'[o] = ledger[o],
         Unsure(ledger'[Of(r)]) \/ Tells(manifest, Of(r), ledger'[Of(r)]),
         Reviewing(manifest, Of(r), reviewer'[r], ledger'[Of(r)])
  PROVE  TruthInv'
<1> USE DEF TruthInv
<1>1. Of(r) # "none" /\ reviewLock[Of(r)] = "held" /\ ~Fresh(Of(r))
  BY EvolutionAssumption DEF LocksInv, LedgerInv
<1>2. \A q \in Reviewers : reviewer'[q].task = reviewer[q].task
  BY DEF Of
<1>3. ASSUME NEW t \in EvoTasks
      PROVE  LedgerInv(t)'
  <2>1. CASE t = Of(r)
    <3>1. ~Fresh(t)'
      BY <1>1, <2>1 DEF Fresh
    <3>2. Unsure(ledger'[t]) \/ Tells(manifest', t, ledger'[t])
      BY <2>1
    <3> QED BY <1>1, <2>1, <3>1, <3>2 DEF LedgerInv
  <2>2. CASE t # Of(r)
    BY <1>2, <2>2 DEF LedgerInv, Fresh, Of
  <2> QED BY <2>1, <2>2
<1>4. LocksInv'
  BY <1>2 DEF LocksInv, Of
<1>5. ASSUME NEW o \in Reviewers
      PROVE  ReviewTells(o)'
  <2>1. CASE o = r
    BY <2>1 DEF ReviewTells, Of
  <2>2. CASE o # r
    <3>1. Of(o) # "none" => Of(o) \in EvoTasks \ {Of(r)}
      BY <1>1, <2>2 DEF LocksInv, EvolutionInv, EvolutionTypeOK, Reviews, SomeTask, Of
    <3> QED BY <2>2, <3>1 DEF ReviewTells, Of
  <2> QED BY <2>1, <2>2
<1>6. RecoveryTells'
  <2>1. operator.stage # "idle" /\ ledger[operator.task].status = "agent_running"
          => operator.task # Of(r) /\ operator.task \in EvoTasks
    BY <1>1 DEF Fresh, Untouched, EvolutionInv, OperatorInv
  <2> QED BY <2>1 DEF RecoveryTells
<1> QED BY <1>3, <1>4, <1>5, <1>6

\* A review that changes its stage only, within the same part of its way.
LEMMA ReviewPasses ==
  ASSUME EvolutionInv, TruthInv, NEW r \in Reviewers, ~In(r, "idle"), NEW s \in Stages, Goes(r, s),
         ledger' = ledger, manifest' = manifest, worker' = worker, operator' = operator,
         reviewLock' = reviewLock,
         \/ Opening(reviewer[r]) /\ Opening(reviewer'[r])
         \/ Trying(reviewer[r]) /\ Trying(reviewer'[r])
         \/ Entered(reviewer[r]) /\ Entered(reviewer'[r])
  PROVE  TruthInv'
<1>1. Of(r) \in EvoTasks /\ Of(r) # "none"
  BY EvolutionAssumption DEF EvolutionInv, EvolutionTypeOK, ReviewInv, Reviews, SomeTask, Of
<1>2. /\ reviewer'[r].stage = s /\ reviewer'[r].task = Of(r)
      /\ reviewer'[r].action = reviewer[r].action /\ reviewer'[r].ledger = reviewer[r].ledger
      /\ reviewer'[r].result = reviewer[r].result
      /\ \A o \in Reviewers \ {r} : reviewer'[o] = reviewer[o]
  BY ReviewUpdate DEF EvolutionInv, EvolutionTypeOK
<1>3. Reviewing(manifest, Of(r), reviewer[r], ledger[Of(r)])
  BY <1>1 DEF TruthInv, ReviewTells
<1>4. /\ Unwritten(reviewer'[r]) => Unwritten(reviewer[r]) /\ AsRead(reviewer'[r]) = AsRead(reviewer[r])
      /\ Trying(reviewer'[r]) => Trying(reviewer[r])
      /\ Entered(reviewer'[r]) => Entered(reviewer[r])
  BY <1>2 DEF Unwritten, Opening, Trying, Entered, AsRead, OperationOf
<1>5. Reviewing(manifest, Of(r), reviewer'[r], ledger'[Of(r)])
  BY <1>2, <1>3, <1>4 DEF Reviewing
<1>6. Unsure(ledger'[Of(r)]) \/ Tells(manifest, Of(r), ledger'[Of(r)])
  BY <1>1 DEF TruthInv, LedgerInv
<1> QED BY <1>1, <1>2, <1>5, <1>6, ReviewMoves

\* Whatever a review may write down is in doubt, asks for a look, or is so.
LEMMA WrittenTells ==
  ASSUME EvolutionInv, TruthInv, NEW r \in Reviewers,
         reviewer[r].stage \in {"begin", "record", "conflict", "stale", "error", "manual"}
  PROVE  Unsure(Written(r)) \/ Tells(manifest, Of(r), Written(r))
<1> DEFINE x == reviewer[r]
           t == Of(r)
<1>1. /\ t \in EvoTasks /\ x \in Reviews /\ x.ledger \in Ledgers
      /\ x.action \in {"approve", "reject", "rollback"}
      /\ Operation(r) \in Kinds /\ Operation(r) = OperationOf(x)
  BY WrittenWell
<1>2. /\ Reviewing(manifest, t, x, ledger[t]) /\ ReviewInv(r)
  BY <1>1, EvolutionAssumption DEF TruthInv, ReviewTells, EvolutionInv
<1>3. Unnamed(manifest, t) <=> ~Wrote(manifest, t, "publish") /\ ~Wrote(manifest, t, "rollback")
  BY <1>1, NamedByAction
<1>4. CASE In(r, "begin")
  BY <1>1, <1>4, WrittenWell, LedgerUpdates DEF Unsure
<1>5. CASE In(r, "record")
  <2>1. /\ Outcome(r) \in Ledgers /\ Outcome(r).doubts = x.ledger.doubts
        /\ Outcome(r).status = CASE x.action = "reject" -> "rejected"
                                 [] x.action = "approve" -> "published"
                                 [] OTHER -> "rolled_back"
        /\ x.action # "reject" => Outcome(r).revision = x.result
    BY <1>1, OutcomeUpdates
  <2>2. CASE x.action = "reject"
    <3>1. Written(r) = Outcome(r) /\ Outcome(r).status = "rejected"
      BY <1>5, <2>1, <2>2 DEF Written, In
    <3>2. /\ Unwritten(x) /\ AsRead(x) = x.ledger /\ x.ledger.status = "awaiting_review"
          /\ InDoubt(x.ledger) \/ Tells(manifest, t, x.ledger)
      BY <1>2, <1>5, <2>2 DEF Reviewing, Unwritten, Opening, Trying, AsRead, In
    <3>3. InDoubt(x.ledger) => Unsure(Written(r))
      BY <2>1, <3>1 DEF InDoubt, Unsure
    <3>4. Tells(manifest, t, x.ledger) => Tells(manifest, t, Written(r))
      BY <3>1, <3>2 DEF Tells
    <3> QED BY <3>2, <3>3, <3>4
  <2>3. CASE x.action # "reject"
    <3>1. Written(r) = Settled(Outcome(r), Operation(r))
      BY <1>5, <2>3 DEF Written, In
    <3>2. Outcome(r).doubts[Operation(r)] > 0
      BY <1>1, <1>2, <1>5, <2>1, <2>3 DEF ReviewInv, Doubting, In
    <3>3. Written(r).status = Outcome(r).status /\ Written(r).revision = x.result
      BY <1>1, <2>1, <2>3, <3>1, <3>2, LedgerUpdates
    <3>4. Entered(x)
      BY <1>5, <2>3 DEF Entered, In
    <3>5. Tells(manifest, t, Written(r))
      BY <1>1, <1>2, <2>1, <2>3, <3>3, <3>4 DEF Tells, Reviewing
    <3> QED BY <3>5
  <2> QED BY <2>2, <2>3
<1>6. CASE In(r, "conflict")
  <2>1. Written(r) = AsRead(x) /\ Unwritten(x)
    BY <1>1, <1>6, WrittenWell DEF AsRead, Unwritten, In
  <2> QED BY <1>2, <2>1 DEF Reviewing, Unsure
<1>7. CASE In(r, "stale")
  <2>1. /\ Unwritten(x) /\ AsRead(x) = x.ledger /\ x.action # "reject"
        /\ InDoubt(x.ledger) \/ Tells(manifest, t, x.ledger)
        /\ x.ledger.status = IF x.action = "rollback" THEN "published" ELSE "awaiting_review"
    BY <1>2, <1>7 DEF Reviewing, Unwritten, Trying, AsRead, In, ReviewInv
  <2>2. CASE x.action = "rollback"
    <3>1. Written(r) = x.ledger
      BY <1>7, <2>2 DEF Written, Operation, In
    <3> QED BY <2>1, <3>1 DEF Unsure
  <2>3. CASE x.action = "approve"
    <3> DEFINE l == x.ledger
    <3>1. Written(r) = [l EXCEPT !.status = "failed"]
      BY <1>7, <2>3 DEF Written, Operation, In
    <3> HIDE DEF l
    <3>2. Written(r).status = "failed" /\ Written(r).doubts = l.doubts
      BY <1>1, <3>1, StatusUpdates DEF Statuses, Unsettled, l
    <3>3. InDoubt(l) => Unsure(Written(r))
      BY <3>2 DEF InDoubt, Unsure
    <3>4. Tells(manifest, t, l) => Tells(manifest, t, Written(r))
      BY <2>1, <2>3, <3>2 DEF Tells, l
    <3> QED BY <2>1, <3>3, <3>4 DEF l
  <2> QED BY <1>1, <2>1, <2>2, <2>3
<1>8. CASE In(r, "error")
  <2>1. Written(r) = x.ledger /\ x.ledger.doubts[Operation(r)] > 0
    BY <1>1, <1>2, <1>8, WrittenWell DEF ReviewInv, Doubting, In
  <2> QED BY <1>1, <2>1, LedgerUpdates DEF Unsure
<1>9. CASE In(r, "manual")
  BY <1>9, WrittenWell DEF Unsure
<1> QED BY <1>4, <1>5, <1>6, <1>7, <1>8, <1>9 DEF In

\* A review that writes its ledger down and goes on.
LEMMA ReviewWritesDown ==
  ASSUME EvolutionInv, TruthInv, NEW r \in Reviewers,
         NEW s \in {"enter", "stale", "manual"}, Saves(r, s, Written(r)),
         \/ s = "enter" /\ In(r, "begin")
         \/ s = "stale" /\ In(r, "conflict")
         \/ s = "manual" /\ In(r, "error"),
         manifest' = manifest, worker' = worker, operator' = operator, reviewLock' = reviewLock
  PROVE  TruthInv'
<1> DEFINE x == reviewer[r]
           y == reviewer'[r]
           t == Of(r)
<1>1. /\ t \in EvoTasks /\ x.ledger \in Ledgers /\ Operation(r) \in Kinds
      /\ Operation(r) = OperationOf(x)
      /\ Written(r) \in Ledgers /\ Written(r).status \notin Untouched
      /\ In(r, "begin") => Written(r) = Begun(x.ledger, Operation(r))
      /\ In(r, "conflict") => Written(r) = Settled(x.ledger, Operation(r))
  BY WrittenWell DEF In
<1>2. /\ y.stage = s /\ y.task = t /\ y.action = x.action /\ y.ledger = Written(r)
      /\ \A o \in Reviewers \ {r} : reviewer'[o] = reviewer[o]
  <2>1. reviewer \in [Reviewers -> Reviews] /\ s \in Stages
    BY DEF EvolutionInv, EvolutionTypeOK, Stages
  <2>2. Errs(r, s, Written(r))
    BY DEF Saves, Errs
  <2> QED BY <1>1, <2>1, <2>2, ReviewSaved
<1>3. /\ ledger'[t] = Written(r)
      /\ \A o \in EvoTasks \ {t} : ledger'[o] = ledger[o]
  BY <1>1, LedgerSaved DEF Saves, EvolutionInv, EvolutionTypeOK
<1>4. Unsure(Written(r)) \/ Tells(manifest, t, Written(r))
  BY WrittenTells DEF In
<1>5. Reviewing(manifest, t, x, ledger[t])
  BY <1>1, EvolutionAssumption DEF TruthInv, ReviewTells
<1>6. OperationOf(y) = Operation(r)
  BY <1>1, <1>2 DEF OperationOf
<1>7. Reviewing(manifest, t, y, Written(r))
  <2>1. CASE s = "enter"
    <3>1. /\ Written(r) = Begun(x.ledger, Operation(r)) /\ Unwritten(x) /\ AsRead(x) = x.ledger
          /\ Trying(y) /\ ~Entered(y)
      BY <1>1, <1>2, <2>1 DEF Unwritten, Opening, Trying, Entered, AsRead, In
    <3>2. /\ InDoubt(Written(r)) /\ Written(r).status = x.ledger.status
          /\ Settled(Written(r), Operation(r)) = x.ledger
      BY <1>1, <3>1, LedgerUpdates
    <3>3. AsRead(y) = x.ledger
      BY <1>2, <1>6, <3>1, <3>2 DEF AsRead
    <3> QED BY <1>2, <1>5, <3>1, <3>2, <3>3 DEF Reviewing, Unsure
  <2>2. CASE s = "stale"
    <3>1. /\ Written(r) = Settled(x.ledger, Operation(r)) /\ Unwritten(x) /\ AsRead(x) = Written(r)
          /\ ~Trying(y) /\ ~Entered(y) /\ AsRead(y) = Written(r)
      BY <1>1, <1>2, <2>2 DEF Unwritten, Trying, Entered, AsRead, In
    <3>2. x.ledger.doubts[Operation(r)] > 0
      BY <1>1, <2>2 DEF EvolutionInv, ReviewInv, Doubting, In
    <3>3. Written(r).status = x.ledger.status
      BY <1>1, <3>1, <3>2, LedgerUpdates
    <3> QED BY <1>2, <1>5, <3>1, <3>3 DEF Reviewing
  <2>3. CASE s = "manual"
    BY <1>2, <2>3 DEF Reviewing, Unwritten, Opening, Trying, Entered
  <2> QED BY <2>1, <2>2, <2>3
<1> QED BY <1>1, <1>2, <1>3, <1>4, <1>7, ReviewMoves

\* A review that ends, whether or not its ledger was saved.
LEMMA EndTells ==
  ASSUME EvolutionInv, TruthInv, NEW r \in Reviewers, ~In(r, "idle"), Ends(r),
         manifest' = manifest, worker' = worker, operator' = operator, reviewLock' = reviewLock,
         \/ ledger' = ledger
         \/ /\ reviewer[r].stage \in {"record", "stale", "begin", "conflict", "error", "manual"}
            /\ \E l \in {ledger[Of(r)], Written(r)} : ledger' = [ledger EXCEPT ![Of(r)] = l]
  PROVE  TruthInv'
<1>1. /\ Of(r) \in EvoTasks /\ reviewer \in [Reviewers -> Reviews]
      /\ ledger \in [EvoTasks -> Ledgers]
  BY EvolutionAssumption DEF EvolutionInv, EvolutionTypeOK, ReviewInv, Reviews, SomeTask, Of
<1>2. /\ reviewer'[r].stage = "close" /\ reviewer'[r].task = Of(r)
      /\ \A o \in Reviewers \ {r} : reviewer'[o] = reviewer[o]
  BY <1>1, ReviewEnds
<1>3. Reviewing(manifest, Of(r), reviewer'[r], ledger'[Of(r)])
  BY <1>2 DEF Reviewing, Unwritten, Opening, Trying, Entered
<1>4. Unsure(ledger[Of(r)]) \/ Tells(manifest, Of(r), ledger[Of(r)])
  BY <1>1 DEF TruthInv, LedgerInv
<1>5. CASE ledger' = ledger
  BY <1>1, <1>2, <1>3, <1>4, <1>5, ReviewMoves
<1>6. CASE /\ reviewer[r].stage \in {"record", "stale", "begin", "conflict", "error", "manual"}
           /\ ledger' = [ledger EXCEPT ![Of(r)] = Written(r)]
  <2>1. /\ Written(r).status \notin Untouched /\ Written(r) \in Ledgers
        /\ Unsure(Written(r)) \/ Tells(manifest, Of(r), Written(r))
    BY <1>6, WrittenWell, WrittenTells
  <2>2. /\ ledger'[Of(r)] = Written(r)
        /\ \A o \in EvoTasks \ {Of(r)} : ledger'[o] = ledger[o]
    BY <1>1, <1>6, <2>1, LedgerSaved
  <2> QED BY <1>1, <1>2, <1>3, <2>1, <2>2, ReviewMoves
<1>7. CASE ledger' = [ledger EXCEPT ![Of(r)] = ledger[Of(r)]]
  <2>1. ledger' = ledger
    BY <1>1, <1>7
  <2> QED BY <1>5, <2>1
<1> QED BY <1>5, <1>6, <1>7

\* An error says nothing of the registry, and a conflict that nothing was written.
LEMMA ErrTells ==
  ASSUME EvolutionInv, TruthInv, NEW r \in Reviewers, NEW kind \in {"error", "conflict"}, NEW l,
         Errs(r, kind, l), Doubting(reviewer[r]), l \in {reviewer[r].ledger, Outcome(r)},
         kind = "conflict" => Trying(reviewer[r]) /\ l = reviewer[r].ledger,
         manifest' = manifest, worker' = worker, operator' = operator, reviewLock' = reviewLock,
         \/ ledger' = ledger
         \/ /\ In(r, "record")
            /\ \E k \in {ledger[Of(r)], Written(r)} : ledger' = [ledger EXCEPT ![Of(r)] = k]
  PROVE  TruthInv'
<1> DEFINE x == reviewer[r]
           y == reviewer'[r]
<1>1. /\ Of(r) \in EvoTasks /\ reviewer \in [Reviewers -> Reviews] /\ Of(r) # "none"
      /\ ledger \in [EvoTasks -> Ledgers] /\ x \in Reviews /\ x.ledger \in Ledgers
      /\ x.action \in {"approve", "rollback"}
  BY EvolutionAssumption
     DEF EvolutionInv, EvolutionTypeOK, ReviewInv, Reviews, SomeTask, Of, Doubting, In
<1>2. l \in Ledgers
  BY <1>1, OutcomeUpdates
<1>3. /\ y.stage = kind /\ y.task = Of(r) /\ y.action = x.action /\ y.ledger = l
      /\ \A o \in Reviewers \ {r} : reviewer'[o] = reviewer[o]
  <2>1. kind \in Stages
    BY DEF Stages
  <2> QED BY <1>1, <1>2, <2>1, ReviewSaved
<1>4. Reviewing(manifest, Of(r), x, ledger[Of(r)])
  BY <1>1 DEF TruthInv, ReviewTells
<1>5. ASSUME NEW k
      PROVE  Reviewing(manifest, Of(r), y, k)
  <2>1. CASE kind = "error"
    BY <1>3, <2>1 DEF Reviewing, Unwritten, Opening, Trying, Entered
  <2>2. CASE kind = "conflict"
    <3>1. Unwritten(x) /\ AsRead(y) = AsRead(x) /\ ~Trying(y) /\ ~Entered(y)
      BY <1>3, <2>2 DEF Unwritten, AsRead, OperationOf, Trying, Entered
    <3> QED BY <1>3, <1>4, <2>2, <3>1 DEF Reviewing
  <2> QED BY <2>1, <2>2
<1>6. Unsure(ledger[Of(r)]) \/ Tells(manifest, Of(r), ledger[Of(r)])
  BY <1>1 DEF TruthInv, LedgerInv
<1>7. CASE ledger' = ledger
  BY <1>1, <1>3, <1>5, <1>6, <1>7, ReviewMoves
<1>8. CASE In(r, "record") /\ ledger' = [ledger EXCEPT ![Of(r)] = Written(r)]
  <2>1. /\ Written(r).status \notin Untouched /\ Written(r) \in Ledgers
        /\ Unsure(Written(r)) \/ Tells(manifest, Of(r), Written(r))
    BY <1>8, WrittenWell, WrittenTells DEF In
  <2>2. /\ ledger'[Of(r)] = Written(r)
        /\ \A o \in EvoTasks \ {Of(r)} : ledger'[o] = ledger[o]
    BY <1>1, <1>8, <2>1, LedgerSaved
  <2> QED BY <1>1, <1>3, <1>5, <2>1, <2>2, ReviewMoves
<1>9. CASE ledger' = [ledger EXCEPT ![Of(r)] = ledger[Of(r)]]
  <2>1. ledger' = ledger
    BY <1>1, <1>9
  <2> QED BY <1>7, <2>1
<1> QED BY <1>7, <1>8, <1>9

\* What is claimed, begun, locked, installed and unlocked passes; what fails is written
\* down, or is not.
LEMMA ReviewTellsOn ==
  ASSUME EvolutionInv, TruthInv, NEW r \in Reviewers,
         \/ Claim(r) \/ BeginOperation(r) \/ TakeLock(r) \/ Refuse(r) \/ Install(r) \/ Unlock(r)
         \/ Record(r) \/ FinishOperation(r) \/ MarkLedger(r) \/ Fails(r)
  PROVE  TruthInv'
<1> DEFINE x == reviewer[r]
<1>1. /\ manifest' = manifest /\ worker' = worker /\ operator' = operator
      /\ reviewLock' = reviewLock /\ ~In(r, "idle")
  BY DEF Claim, BeginOperation, TakeLock, Refuse, Install, Unlock, Record, FinishOperation,
     MarkLedger, Fails, registry, records, In
<1>2. /\ x.action \in {"none", "approve", "reject", "rollback"}
      /\ In(r, "claim") => x.action \in {"approve", "reject"}
      /\ In(r, "unlock") => x.action # "reject"
  BY DEF EvolutionInv, EvolutionTypeOK, ReviewInv, Reviews, In
<1>3. ASSUME NEW s \in Stages, Goes(r, s)
      PROVE  reviewer'[r].stage = s /\ reviewer'[r].action = x.action
  BY <1>3, ReviewUpdate DEF EvolutionInv, EvolutionTypeOK
<1>4. CASE Claim(r)
  <2>1. ledger' = ledger /\ x.stage = "claim"
    BY <1>4 DEF Claim, In
  <2>2. CASE Ends(r)
    BY <1>1, <2>1, <2>2, EndTells
  <2>3. CASE Goes(r, "begin") \/ (Goes(r, "record") /\ x.action = "reject")
    <3>1. PICK s \in {"begin", "record"} : Goes(r, s) /\ (s = "record" => x.action = "reject")
      BY <2>3
    <3>2. Opening(x) /\ Opening(reviewer'[r])
      BY <1>3, <2>1, <3>1 DEF Opening, Stages
    <3> QED BY <1>1, <2>1, <3>1, <3>2, ReviewPasses DEF Stages
  <2> QED BY <1>2, <1>4, <2>2, <2>3 DEF Claim
<1>5. CASE BeginOperation(r)
  BY <1>1, <1>5, ReviewWritesDown DEF BeginOperation
<1>6. CASE TakeLock(r)
  <2>1. ledger' = ledger /\ x.stage = "enter"
    BY <1>6 DEF TakeLock, In, records
  <2>2. PICK s \in {"install", "commit"} : Goes(r, s)
    BY <1>6 DEF TakeLock
  <2>3. Trying(x) /\ Trying(reviewer'[r])
    BY <1>3, <2>1, <2>2 DEF Trying, Stages
  <2> QED BY <1>1, <2>1, <2>2, <2>3, ReviewPasses DEF Stages
<1>7. CASE Refuse(r)
  <2>1. PICK kind \in {"error", "conflict"} : Errs(r, kind, x.ledger)
    BY <1>7 DEF Refuse
  <2>2. Trying(x) /\ Doubting(x) /\ ledger' = ledger
    BY <1>7 DEF Refuse, Trying, Doubting, In, records
  <2> QED BY <1>1, <2>1, <2>2, ErrTells
<1>8. CASE Install(r)
  <2>1. ledger' = ledger /\ x.stage = "install" /\ Goes(r, "commit")
    BY <1>8 DEF Install, In, records
  <2>2. Trying(x) /\ Trying(reviewer'[r])
    BY <1>3, <2>1 DEF Trying, Stages
  <2> QED BY <1>1, <2>1, <2>2, ReviewPasses DEF Stages
<1>9. CASE Unlock(r)
  <2>1. ledger' = ledger /\ x.stage = "unlock" /\ Goes(r, "record")
    BY <1>9 DEF Unlock, In, records
  <2>2. Entered(x) /\ Entered(reviewer'[r])
    BY <1>2, <1>3, <2>1 DEF Entered, Stages, In
  <2> QED BY <1>1, <2>1, <2>2, ReviewPasses DEF Stages
<1>10. CASE Record(r) \/ MarkLedger(r)
  <2>1. /\ Ends(r) /\ x.stage \in {"record", "stale", "manual"}
        /\ ledger' = [ledger EXCEPT ![Of(r)] = Written(r)]
    BY <1>10 DEF Record, MarkLedger, In
  <2> QED BY <1>1, <2>1, EndTells
<1>11. CASE FinishOperation(r)
  BY <1>1, <1>11, ReviewWritesDown DEF FinishOperation
<1>12. CASE Fails(r)
  <2>1. CASE /\ \/ x.stage \in {"begin", "conflict", "stale", "error", "manual"}
                \/ In(r, "record") /\ x.action = "reject"
             /\ MayBeSaved(r) /\ Ends(r)
    BY <1>1, <2>1, EndTells DEF MayBeSaved, In
  <2>2. CASE (In(r, "install") \/ In(r, "commit")) /\ Errs(r, "error", x.ledger) /\ ledger' = ledger
    BY <1>1, <2>2, ErrTells DEF Doubting, In
  <2>3. CASE /\ In(r, "record") /\ x.action # "reject"
             /\ \/ Errs(r, "error", x.ledger) /\ ledger' = ledger
                \/ Errs(r, "error", Outcome(r)) /\ MayBeSaved(r)
    BY <1>1, <2>3, ErrTells DEF MayBeSaved, Doubting, In
  <2> QED BY <1>12, <2>1, <2>2, <2>3 DEF Fails
<1> QED BY <1>4, <1>5, <1>6, <1>7, <1>8, <1>9, <1>10, <1>11, <1>12

\* A review opens on a ledger that nobody is at work on.
LEMMA OpenTells ==
  ASSUME EvolutionInv, TruthInv, NEW r \in Reviewers, NEW t \in EvoTasks,
         NEW a \in {"approve", "reject", "rollback"}, Open(r, t, a)
  PROVE  TruthInv'
<1> USE DEF TruthInv
<1>1. /\ manifest' = manifest /\ ledger' = ledger /\ worker' = worker /\ operator' = operator
      /\ In(r, "idle") /\ reviewLock[t] = "free"
      /\ ledger[t].status = IF a = "rollback" THEN "published" ELSE "awaiting_review"
  BY DEF Open, registry
<1>2. /\ reviewer'[r].stage = IF a = "rollback" THEN "begin" ELSE "claim"
      /\ reviewer'[r].task = t /\ reviewer'[r].action = a /\ reviewer'[r].ledger = ledger[t]
      /\ \A o \in Reviewers \ {r} : reviewer'[o] = reviewer[o]
  <2> DEFINE new == [stage |-> IF a = "rollback" THEN "begin" ELSE "claim", task |-> t,
                     action |-> a, ledger |-> ledger[t], result |-> 0]
  <2>1. reviewer' = [reviewer EXCEPT ![r] = new]
    BY DEF Open
  <2> QED BY <2>1 DEF EvolutionInv, EvolutionTypeOK
<1>11. /\ reviewLock' \in [EvoTasks -> {"free", "held", "dead"}]
       /\ \A o \in EvoTasks : reviewLock'[o] = IF o = t THEN "held" ELSE reviewLock[o]
  BY DEF Open, LocksInv
<1>3. Of(r) = "none" /\ t # "none" /\ ~Fresh(t)
  BY <1>1, EvolutionAssumption
     DEF EvolutionInv, ReviewInv, NotYetReviewed, Fresh, Untouched, Early
<1>4. \A q \in Reviewers : Of(q) # t
  BY <1>1, <1>3 DEF LocksInv
<1>5. InDoubt(ledger[t]) \/ Tells(manifest, t, ledger[t])
  BY <1>1 DEF LedgerInv, Unsure
<1>6. Reviewing(manifest, t, reviewer'[r], ledger[t])
  <2>1. AsRead(reviewer'[r]) = ledger[t] /\ ~Trying(reviewer'[r]) /\ ~Entered(reviewer'[r])
    BY <1>2 DEF AsRead, Trying, Entered
  <2> QED BY <1>1, <1>2, <1>5, <2>1 DEF Reviewing
<1>7. ASSUME NEW o \in EvoTasks
      PROVE  LedgerInv(o)'
  BY <1>1, <1>2, <1>3, <1>11 DEF LedgerInv, Fresh, Of
<1>8. LocksInv'
  <2>1. ASSUME NEW o \in Reviewers, reviewer'[o].task # "none"
        PROVE  /\ reviewLock'[reviewer'[o].task] = "held"
               /\ \A q \in Reviewers \ {o} : reviewer'[q].task # reviewer'[o].task
    <3>1. CASE o = r
      BY <1>2, <1>4, <1>11, <3>1 DEF Of
    <3>2. CASE o # r
      <4>1. reviewer'[o] = reviewer[o] /\ Of(o) # "none" /\ Of(o) # t /\ Of(o) \in EvoTasks
        BY <1>2, <1>4, <2>1, <3>2 DEF EvolutionInv, EvolutionTypeOK, Reviews, SomeTask, Of
      <4> QED BY <1>2, <1>11, <3>2, <4>1 DEF LocksInv, Of
    <3> QED BY <3>1, <3>2
  <2> QED BY <1>11, <2>1 DEF LocksInv, Of
<1>9. ASSUME NEW o \in Reviewers
      PROVE  ReviewTells(o)'
  <2>1. CASE o = r
    BY <1>1, <1>2, <1>6, <2>1 DEF ReviewTells, Of
  <2>2. CASE o # r
    BY <1>1, <1>2, <2>2 DEF ReviewTells, Of
  <2> QED BY <2>1, <2>2
<1>10. RecoveryTells'
  BY <1>1 DEF RecoveryTells
<1> QED BY <1>7, <1>8, <1>9, <1>10

\* What an entry adds to a history.
LEMMA EntryAdds ==
  ASSUME NEW h, NEW S, h \in Seq(S), NEW e \in S, NEW t, NEW k, k = Append(h, e)
  PROVE  /\ NamedAt(k, e.task, Len(k)) /\ k[Len(k)] = e
         /\ \A n : NamedAt(h, t, n) => NamedAt(k, t, n)
         /\ \A n : NamedAt(h, t, n) => k[n] = h[n]
         /\ \A a : Wrote(k, t, a) <=> Wrote(h, t, a) \/ (e.task = t /\ e.action = a)
         /\ Unnamed(k, t) <=> Unnamed(h, t) /\ e.task # t
<1>1. /\ Len(h) \in Nat /\ DOMAIN h = 1 .. Len(h) /\ Len(k) = Len(h) + 1
      /\ DOMAIN k = 1 .. Len(h) + 1 /\ k[Len(h) + 1] = e
      /\ \A n \in DOMAIN h : k[n] = h[n]
  OBVIOUS
<1>2. \A n \in DOMAIN k : n \in DOMAIN h \/ n = Len(h) + 1
  BY <1>1
<1>3. \A n \in DOMAIN h : n \in DOMAIN k
  BY <1>1
<1>4. Len(h) + 1 \in DOMAIN k
  BY <1>1
<1>5. /\ NamedAt(k, e.task, Len(k)) /\ k[Len(k)] = e
      /\ \A n : NamedAt(h, t, n) => NamedAt(k, t, n) /\ k[n] = h[n]
  BY <1>1, <1>3, <1>4 DEF NamedAt
<1>6. \A a : Wrote(k, t, a) <=> Wrote(h, t, a) \/ (e.task = t /\ e.action = a)
  BY <1>1, <1>2, <1>3, <1>4 DEF Wrote
<1>7. Unnamed(k, t) <=> Unnamed(h, t) /\ e.task # t
  BY <1>1, <1>2, <1>3, <1>4 DEF Unnamed
<1> QED BY <1>5, <1>6, <1>7

\* The new entry tells of the task of the review that writes it, and of no other.
LEMMA WriteTells ==
  ASSUME EvolutionInv, TruthInv, NEW r \in Reviewers, WriteManifest(r), manifest' \in Seq(Entries)
  PROVE  TruthInv'
<1> USE DEF TruthInv
<1> DEFINE t == Of(r)
           e == Entry(IF Operation(r) = "publish" THEN Version(Of(r)) ELSE BaseVersion(Of(r)),
                      Of(r), Operation(r))
<1>1. /\ ledger' = ledger /\ worker' = worker /\ operator' = operator /\ reviewLock' = reviewLock
      /\ reviewer[r].stage = "commit"
  BY DEF WriteManifest, records, In
<1>2. /\ t # "none" /\ t \in EvoTasks /\ reviewer[r].action \in {"approve", "rollback"}
  BY <1>1, EvolutionAssumption
     DEF EvolutionInv, EvolutionTypeOK, ReviewInv, Reviews, SomeTask, Of, In
<1>3. /\ manifest' = Append(manifest, e) /\ e.task = t /\ e.action = Operation(r)
  BY DEF WriteManifest, Entry
<1>4. manifest \in Seq(Entries) /\ Len(manifest') \in Nat
  BY DEF EvolutionInv, EvolutionTypeOK
<1>5. /\ reviewer'[r].stage = "unlock" /\ reviewer'[r].task = t
      /\ reviewer'[r].action = reviewer[r].action
      /\ reviewer'[r].result = Len(manifest')
      /\ \A o \in Reviewers \ {r} : reviewer'[o] = reviewer[o]
  BY <1>4, RevisionSaved DEF WriteManifest, EvolutionInv, EvolutionTypeOK
<1> HIDE DEF e
<1>6. /\ NamedAt(manifest', t, Len(manifest'))
      /\ manifest'[Len(manifest')].action = Operation(r)
      /\ \A a : Wrote(manifest', t, a) <=> Wrote(manifest, t, a) \/ a = Operation(r)
      /\ \A o \in EvoTasks : \A n :
           NamedAt(manifest, o, n) => NamedAt(manifest', o, n) /\ manifest'[n] = manifest[n]
      /\ \A o \in EvoTasks \ {t} :
           /\ \A a : Wrote(manifest', o, a) <=> Wrote(manifest, o, a)
           /\ Unnamed(manifest', o) <=> Unnamed(manifest, o)
  <2>1. \E S : manifest \in Seq(S) /\ e \in S
    <3>1. manifest \in Seq(Entries \cup {e})
      BY <1>4
    <3> QED BY <3>1
  <2>2. t \in EvoTasks
    BY <1>2
  <2> HIDE DEF t
  <2>3. /\ NamedAt(manifest', t, Len(manifest')) /\ manifest'[Len(manifest')] = e
        /\ \A o \in EvoTasks : \A n :
             NamedAt(manifest, o, n) => NamedAt(manifest', o, n) /\ manifest'[n] = manifest[n]
    <3>1. PICK S : manifest \in Seq(S) /\ e \in S
      BY <2>1
    <3>2. NamedAt(manifest', t, Len(manifest'))
      BY <1>3, <3>1, EntryAdds
    <3>3. manifest'[Len(manifest')] = e
      BY <1>3, <3>1, EntryAdds
    <3>4. ASSUME NEW o, NEW n, NamedAt(manifest, o, n)
          PROVE  NamedAt(manifest', o, n) /\ manifest'[n] = manifest[n]
      <4>1. NamedAt(manifest', o, n)
        BY <1>3, <3>1, <3>4, EntryAdds
      <4>2. manifest'[n] = manifest[n]
        BY <1>3, <1>4, <3>4 DEF NamedAt
      <4> QED BY <4>1, <4>2
    <3> QED BY <3>2, <3>3, <3>4
  <2>4. \A o \in EvoTasks :
          /\ \A a : Wrote(manifest', o, a) <=> Wrote(manifest, o, a) \/ (e.task = o /\ e.action = a)
          /\ Unnamed(manifest', o) <=> Unnamed(manifest, o) /\ e.task # o
    BY <1>3, <2>1, EntryAdds
  <2> QED BY <1>3, <2>2, <2>3, <2>4
<1>7. /\ Unsure(ledger[t]) /\ ~Fresh(t) /\ reviewLock[t] = "held"
      /\ \A q \in Reviewers \ {r} : Of(q) # t
  <2>1. Reviewing(manifest, t, reviewer[r], ledger[t])
    BY <1>2 DEF ReviewTells
  <2> QED BY <1>1, <1>2, <2>1 DEF Reviewing, Trying, LedgerInv, LocksInv
<1>8. \A q \in Reviewers : reviewer'[q].task = Of(q)
  BY <1>5 DEF Of
<1>9. ASSUME NEW o \in EvoTasks
      PROVE  LedgerInv(o)'
  <2>1. CASE o = t
    BY <1>1, <1>7, <2>1 DEF LedgerInv, Fresh
  <2>2. CASE o # t
    <3>1. Tells(manifest, o, ledger[o]) => Tells(manifest', o, ledger[o])
      BY <1>6, <2>2 DEF Tells
    <3> QED BY <1>1, <1>6, <1>8, <2>2, <3>1 DEF LedgerInv, Fresh, Of
  <2> QED BY <2>1, <2>2
<1>10. LocksInv'
  BY <1>1, <1>8 DEF LocksInv, Of
<1>11. ASSUME NEW o \in Reviewers
       PROVE  ReviewTells(o)'
  <2>1. CASE o = r
    <3>1. In(r, "commit") /\ reviewer[r].action \in {"approve", "rollback"}
      BY <1>1, <1>2 DEF In
    <3>2. /\ Wrote(manifest', t, "publish")
          /\ Wrote(manifest', t, "rollback") <=> reviewer[r].action = "rollback"
      <4>1. CASE reviewer[r].action = "approve"
        <5>1. Operation(r) = "publish"
          BY <4>1 DEF Operation
        <5>2. \A n \in 2 .. Len(manifest) : manifest[n].task # t
          BY <3>1, <5>1, PublishEntry
        <5>3. manifest[1].task # t /\ \A n \in DOMAIN manifest : n = 1 \/ n \in 2 .. Len(manifest)
          BY <1>2, <1>4 DEF EvolutionInv, HistoryStarts
        <5>4. ~Wrote(manifest, t, "rollback")
          BY <5>2, <5>3 DEF Wrote
        <5> QED BY <1>6, <4>1, <5>1, <5>4
      <4>2. CASE reviewer[r].action = "rollback"
        <5>1. Operation(r) = "rollback"
          BY <4>2 DEF Operation
        <5>2. /\ Len(manifest) \in 2 .. Len(manifest)
              /\ manifest[Len(manifest)] = Entry(Version(t), t, "publish")
          BY <3>1, <5>1, RollbackEntry
        <5>3. Wrote(manifest, t, "publish")
          <6>1. Len(manifest) \in DOMAIN manifest
            BY <1>4, <5>2
          <6> HIDE DEF t
          <6> QED BY <5>2, <6>1 DEF Wrote, Entry
        <5> QED BY <1>6, <4>2, <5>1, <5>3
      <4> QED BY <3>1, <4>1, <4>2
    <3>3. Reviewing(manifest', t, reviewer'[r], ledger[t])
      <4>1. Operation(r) = "rollback" <=> reviewer[r].action = "rollback"
        BY <3>1 DEF Operation
      <4>2. ~Unwritten(reviewer'[r]) /\ ~Trying(reviewer'[r])
        BY <1>5 DEF Unwritten, Opening, Trying
      <4> HIDE DEF t
      <4> QED BY <1>5, <1>6, <1>7, <3>2, <4>1, <4>2 DEF Reviewing
    <3> QED BY <1>1, <1>5, <2>1, <3>3 DEF ReviewTells, Of
  <2>2. CASE o # r
    <3>1. Of(o) # "none" => Of(o) \in EvoTasks \ {t} /\ Reviewing(manifest, Of(o), reviewer[o], ledger[Of(o)])
      BY <1>7, <2>2 DEF ReviewTells, EvolutionInv, EvolutionTypeOK, Reviews, SomeTask, Of
    <3>2. Of(o) # "none" => Reviewing(manifest', Of(o), reviewer[o], ledger[Of(o)])
      <4>1. Of(o) # "none" => \A l : Tells(manifest, Of(o), l) => Tells(manifest', Of(o), l)
        BY <1>6, <3>1 DEF Tells
      <4> QED BY <1>6, <3>1, <4>1 DEF Reviewing
    <3> QED BY <1>1, <1>5, <2>2, <3>2 DEF ReviewTells, Of
  <2> QED BY <2>1, <2>2
<1>12. RecoveryTells'
  BY <1>1 DEF RecoveryTells
<1> QED BY <1>9, <1>10, <1>11, <1>12

\* A review that lets go of its lock, or dies, leaves its ledger as it is.
LEMMA LeaveTells ==
  ASSUME EvolutionInv, TruthInv, NEW r \in Reviewers, Close(r) \/ Dies(r)
  PROVE  TruthInv'
<1> USE DEF TruthInv
<1>1. /\ manifest' = manifest /\ ledger' = ledger /\ worker' = worker /\ operator' = operator
      /\ ~In(r, "idle")
  BY DEF Close, Dies, registry, In
<1>2. Of(r) \in EvoTasks /\ Of(r) # "none"
  BY <1>1, EvolutionAssumption DEF EvolutionInv, EvolutionTypeOK, ReviewInv, Reviews, SomeTask, Of
<1>3. /\ reviewLock' \in [EvoTasks -> {"free", "held", "dead"}]
      /\ reviewLock'[Of(r)] = IF Close(r) THEN "free" ELSE "dead"
      /\ \A o \in EvoTasks \ {Of(r)} : reviewLock'[o] = reviewLock[o]
  <2>1. reviewLock' = [reviewLock EXCEPT ![Of(r)] = IF Close(r) THEN "free" ELSE "dead"]
    <3>1. CASE Close(r)
      BY <3>1 DEF Close
    <3>2. CASE ~Close(r)
      BY <3>2 DEF Dies
    <3> QED BY <3>1, <3>2
  <2> QED BY <1>2, <2>1 DEF LocksInv
<1>4. /\ reviewer'[r].task = "none" /\ \A o \in Reviewers \ {r} : reviewer'[o] = reviewer[o]
  BY DEF Close, Dies, EvolutionInv, EvolutionTypeOK, NoReview
<1>5. ~Fresh(Of(r)) /\ \A q \in Reviewers \ {r} : Of(q) # Of(r)
  BY <1>2 DEF LedgerInv, LocksInv
<1>7. ASSUME NEW o \in EvoTasks
      PROVE  LedgerInv(o)'
  <2>1. CASE o = Of(r)
    <3>1. ~Fresh(o)'
      BY <1>1, <1>5, <2>1 DEF Fresh
    <3> QED BY <1>1, <2>1, <3>1 DEF LedgerInv
  <2>2. CASE o # Of(r)
    <3>1. \A q \in Reviewers : Of(q) # o => reviewer'[q].task # o
      BY <1>4, EvolutionAssumption DEF Of
    <3> QED BY <1>1, <1>3, <2>2, <3>1 DEF LedgerInv, Fresh, Of
  <2> QED BY <2>1, <2>2
<1>8. LocksInv'
  <2>1. ASSUME NEW o \in Reviewers, reviewer'[o].task # "none"
        PROVE  /\ reviewLock'[reviewer'[o].task] = "held"
               /\ \A q \in Reviewers \ {o} : reviewer'[q].task # reviewer'[o].task
    <3>1. o # r /\ reviewer'[o] = reviewer[o] /\ Of(o) # "none" /\ Of(o) # Of(r) /\ Of(o) \in EvoTasks
      BY <1>4, <1>5, <2>1 DEF EvolutionInv, EvolutionTypeOK, Reviews, SomeTask, Of
    <3> QED BY <1>3, <1>4, <3>1 DEF LocksInv, Of
  <2> QED BY <1>3, <2>1 DEF LocksInv, Of
<1>9. ASSUME NEW o \in Reviewers
      PROVE  ReviewTells(o)'
  BY <1>1, <1>4 DEF ReviewTells, Of
<1>10. RecoveryTells'
  BY <1>1 DEF RecoveryTells
<1> QED BY <1>7, <1>8, <1>9, <1>10

\* A step before the candidate is there, or one that asks for a look at a task whose
\* review died.
LEMMA TaskTells ==
  ASSUME EvolutionInv, TruthInv, NEW t \in EvoTasks, NEW s \in Statuses, Status(t, s),
         manifest' = manifest, reviewLock' = reviewLock, reviewer' = reviewer, operator' = operator,
         \/ /\ Fresh(t) /\ s \notin {"published", "rolled_back"}
            /\ ledger[t].status = "agent_running" => worker = t
            /\ \A o \in EvoTasks \ {t} : worker' = o <=> worker = o
         \/ s = "needs_manual_recovery" /\ reviewLock[t] = "dead" /\ worker' = worker
  PROVE  TruthInv'
<1> USE DEF TruthInv
<1>1. /\ ledger'[t].status = s
      /\ \A o \in EvoTasks \ {t} : ledger'[o] = ledger[o]
  BY StatusSaved DEF EvolutionInv, EvolutionTypeOK
<1>2. /\ \A q \in Reviewers : Of(q) # t
      /\ \A o \in EvoTasks \ {t} : worker' = o <=> worker = o
  BY EvolutionAssumption DEF LedgerInv, LocksInv
<1>3. LedgerInv(t)'
  <2>1. CASE Fresh(t) /\ s \notin {"published", "rolled_back"}
    <3>1. Unnamed(manifest, t) /\ reviewLock[t] = "free"
      BY <2>1 DEF LedgerInv
    <3>2. Tells(manifest, t, ledger'[t])
      BY <1>1, <2>1, <3>1, NamedByAction DEF Tells
    <3> QED BY <1>1, <1>2, <3>1, <3>2 DEF LedgerInv, Of
  <2>2. CASE s = "needs_manual_recovery" /\ reviewLock[t] = "dead" /\ worker' = worker
    <3>1. ~Fresh(t)
      BY <2>2 DEF LedgerInv
    <3> QED BY <1>1, <2>2, <3>1 DEF LedgerInv, Unsure, Fresh, Untouched, Early
  <2> QED BY <2>1, <2>2
<1>4. ASSUME NEW o \in EvoTasks \ {t}
      PROVE  LedgerInv(o)'
  BY <1>1, <1>2 DEF LedgerInv, Fresh, Of
<1>5. LocksInv'
  BY DEF LocksInv, Of
<1>6. ASSUME NEW o \in Reviewers
      PROVE  ReviewTells(o)'
  <2>1. Of(o) # "none" => Of(o) \in EvoTasks \ {t}
    BY <1>2 DEF EvolutionInv, EvolutionTypeOK, Reviews, SomeTask, Of
  <2> QED BY <1>1, <2>1 DEF ReviewTells, Of
<1>7. RecoveryTells'
  <2>1. operator.stage # "idle" => operator.task \in EvoTasks
    BY DEF EvolutionInv, OperatorInv
  <2>2. operator.task = t => ~(ledger[t].status = "agent_running" /\ worker # t)
    <3>1. reviewLock[t] = "dead" => ledger[t].status # "agent_running"
      BY DEF LedgerInv, Fresh, Untouched
    <3> QED BY <3>1
  <2> QED BY <1>1, <1>2, <2>1, <2>2 DEF RecoveryTells
<1> QED BY <1>3, <1>4, <1>5, <1>6, <1>7

LEMMA WorkTells ==
  ASSUME EvolutionInv, TruthInv
  PROVE  /\ \A t \in EvoTasks :
              Promote(t) \/ RunTask(t) \/ FindStale(t) \/ (\E d \in Diffs : Submit(t, d))
                \/ (\E s \in Unsettled : GiveUp(t, s)) => TruthInv'
         /\ WorkerDies => TruthInv'
<1>1. ASSUME NEW t \in EvoTasks,
             Promote(t) \/ RunTask(t) \/ (\E d \in Diffs : Submit(t, d))
               \/ (\E s \in Unsettled : GiveUp(t, s))
      PROVE  TruthInv'
  <2>1. /\ manifest' = manifest /\ reviewLock' = reviewLock /\ reviewer' = reviewer
        /\ operator' = operator /\ worker' \in {worker, t, "none"}
        /\ worker' # worker => worker \in {t, "none"}
    BY <1>1 DEF Promote, RunTask, Submit, GiveUp, registry, records
  <2>2. Fresh(t) /\ (ledger[t].status = "agent_running" => worker = t)
    BY <1>1 DEF Promote, RunTask, Submit, GiveUp, Fresh, NoLedger, Untouched, Early
  <2>3. \E s \in Statuses : Status(t, s) /\ s \notin {"published", "rolled_back"}
    BY <1>1 DEF Promote, RunTask, Submit, GiveUp, Statuses, Unsettled
  <2>4. \A o \in EvoTasks \ {t} : worker' = o <=> worker = o
    BY <2>1, EvolutionAssumption
  <2> QED BY <2>1, <2>2, <2>3, <2>4, TaskTells
<1>2. ASSUME NEW t \in EvoTasks, FindStale(t)
      PROVE  TruthInv'
  <2>1. /\ manifest' = manifest /\ reviewLock' = reviewLock /\ reviewer' = reviewer
        /\ operator' = operator /\ worker' = worker /\ reviewLock[t] = "dead"
        /\ Status(t, "needs_manual_recovery") /\ "needs_manual_recovery" \in Statuses
    BY <1>2 DEF FindStale, registry, Statuses, Unsettled
  <2> QED BY <2>1, TaskTells
<1>3. ASSUME WorkerDies
      PROVE  TruthInv'
  <2>1. /\ manifest' = manifest /\ reviewLock' = reviewLock /\ reviewer' = reviewer
        /\ operator' = operator /\ ledger' = ledger /\ worker' = "none"
    BY <1>3 DEF WorkerDies, registry, records
  <2>2. \A t \in EvoTasks : worker' # t
    BY <2>1, EvolutionAssumption
  <2>3. \A t \in EvoTasks : LedgerInv(t)'
    BY <2>1, <2>2 DEF TruthInv, LedgerInv, Fresh, Of
  <2>4. LocksInv' /\ \A o \in Reviewers : ReviewTells(o)'
    BY <2>1 DEF TruthInv, LocksInv, ReviewTells, Of
  <2>5. RecoveryTells'
    BY <2>1, <2>2 DEF TruthInv, RecoveryTells, EvolutionInv, OperatorInv
  <2> QED BY <2>3, <2>4, <2>5 DEF TruthInv
<1> QED BY <1>1, <1>2, <1>3

\* The recovery, from the ledger it loads to the one it saves.
LEMMA RecoveryTellsOn ==
  ASSUME EvolutionInv, TruthInv,
         (\E t \in EvoTasks, s \in Unsettled : Load(t, s)) \/ ClaimLock \/ Look \/ SaveRecovery
           \/ OperatorDies
  PROVE  TruthInv'
<1> USE DEF TruthInv
<1>1. /\ manifest' = manifest /\ worker' = worker /\ reviewer' = reviewer
      /\ reviewLock' = reviewLock
  BY DEF Load, ClaimLock, Look, SaveRecovery, OperatorDies, registry, records
<1>2. CASE ledger' = ledger
  <2>1. \A o \in EvoTasks : LedgerInv(o)'
    BY <1>1, <1>2 DEF LedgerInv, Fresh, Of
  <2>2. LocksInv' /\ \A o \in Reviewers : ReviewTells(o)'
    BY <1>1, <1>2 DEF LocksInv, ReviewTells, Of
  <2>3. RecoveryTells'
    <3>1. CASE operator' = NoRecovery
      BY <3>1 DEF RecoveryTells, NoRecovery
    <3>2. CASE ClaimLock \/ Look
      <4>1. /\ operator'.ledger = operator.ledger /\ operator'.task = operator.task
            /\ operator.stage # "idle"
        BY <3>2 DEF ClaimLock, Look, EvolutionInv, EvolutionTypeOK
      <4> QED BY <1>1, <1>2, <4>1 DEF RecoveryTells
    <3>3. ASSUME NEW t \in EvoTasks, NEW s \in Unsettled, Load(t, s)
          PROVE  RecoveryTells'
      <4>1. ledger[t] \in Ledgers
        BY DEF EvolutionInv, EvolutionTypeOK
      <4>2. CASE s = "failed"
        <5>1. ledger[t].status = "agent_running" /\ worker # t
          BY <3>3, <4>2 DEF Load
        <5>2. operator'.task = t /\ operator'.ledger = [ledger[t] EXCEPT !.status = "failed"]
          BY <3>3, <4>2 DEF Load
        <5>3. operator'.ledger.status = "failed"
          BY <4>1, <5>2, StatusUpdates DEF Statuses, Unsettled
        <5> QED BY <1>1, <1>2, <5>1, <5>2, <5>3 DEF RecoveryTells
      <4>3. CASE s # "failed"
        <5>1. s = "needs_manual_recovery" /\ operator'.ledger = [ledger[t] EXCEPT !.status = s]
          BY <3>3, <4>3 DEF Load, Unsettled
        <5>2. operator'.ledger.status = "needs_manual_recovery"
          BY <4>1, <5>1, StatusUpdates DEF Statuses, Unsettled
        <5> QED BY <5>2 DEF RecoveryTells
      <4> QED BY <4>2, <4>3
    <3> QED BY <1>2, <3>1, <3>2, <3>3 DEF SaveRecovery, OperatorDies
  <2> QED BY <2>1, <2>2, <2>3
<1>3. CASE SaveRecovery
  <2> PICK t \in EvoTasks : t = operator.task
    BY <1>3 DEF SaveRecovery, EvolutionInv, OperatorInv
  <2>1. /\ t # "none" /\ operator.ledger \in Ledgers
        /\ operator'.stage = "idle"
        /\ operator.ledger.status \in Unsettled
    BY <1>3, EvolutionAssumption
       DEF SaveRecovery, EvolutionInv, EvolutionTypeOK, OperatorInv, RecoveryTells, NoRecovery
  <2>2. ledger'[t] = operator.ledger /\ \A o \in EvoTasks \ {t} : ledger'[o] = ledger[o]
    BY <1>3, <2>1 DEF SaveRecovery, EvolutionInv, EvolutionTypeOK
  <2>3. \/ ledger'[t].status = "needs_manual_recovery"
        \/ ledger'[t].status = "failed" /\ Fresh(t)
    BY <1>3, <2>2 DEF SaveRecovery, RecoveryTells, Fresh, Untouched
  <2>4. Fresh(t)' => Fresh(t)
    BY <1>1, <2>2, <2>3 DEF Fresh, Untouched, Early
  <2>5. Unsure(ledger'[t]) \/ Tells(manifest, t, ledger'[t])
    BY <2>1, <2>3, NamedByAction DEF LedgerInv, Unsure, Tells
  <2>6. LedgerInv(t)'
    BY <1>1, <2>1, <2>2, <2>4, <2>5 DEF LedgerInv, Of
  <2>7. ASSUME NEW o \in EvoTasks \ {t}
        PROVE  LedgerInv(o)'
    BY <1>1, <2>2 DEF LedgerInv, Fresh, Of
  <2>8. ASSUME NEW o \in Reviewers
        PROVE  ReviewTells(o)'
    <3>1. Of(o) # "none" => Of(o) \in EvoTasks /\ Reviewing(manifest, Of(o), reviewer[o], ledger[Of(o)])
      BY DEF ReviewTells, EvolutionInv, EvolutionTypeOK, Reviews, SomeTask, Of
    <3>2. Of(o) = t => ledger'[t].status = "needs_manual_recovery"
      BY <2>1, <2>3 DEF LedgerInv
    <3>3. Of(o) # "none" => Reviewing(manifest, Of(o), reviewer[o], ledger'[Of(o)])
      BY <2>2, <3>1, <3>2, MarkedByHand
    <3> QED BY <1>1, <3>3 DEF ReviewTells, Of
  <2>9. LocksInv' /\ RecoveryTells'
    BY <1>1, <2>1 DEF LocksInv, RecoveryTells, Of
  <2> QED BY <2>1, <2>6, <2>7, <2>8, <2>9
<1> QED BY <1>2, <1>3 DEF Load, ClaimLock, Look, OperatorDies, records

LEMMA TruthInit == EvolutionInit => TruthInv
<1> SUFFICES ASSUME EvolutionInit PROVE TruthInv
  OBVIOUS
<1>1. EvolutionInv
  BY StartsWell
<1>2. \A r \in Reviewers : Of(r) = "none"
  BY DEF EvolutionInit, Of, NoReview
<1>3. LocksInv /\ (\A r \in Reviewers : ReviewTells(r)) /\ RecoveryTells
  BY <1>2 DEF EvolutionInit, LocksInv, ReviewTells, RecoveryTells, NoRecovery
<1>4. ASSUME NEW t \in EvoTasks
      PROVE  LedgerInv(t)
  <2>1. Unnamed(manifest, t) /\ ledger[t] = NoLedger /\ t # "none" /\ reviewLock[t] = "free"
    BY EvolutionAssumption DEF EvolutionInit, Unnamed, Entry
  <2>2. Tells(manifest, t, ledger[t])
    BY <1>1, <2>1, NamedByAction DEF Tells, NoLedger
  <2> QED BY <1>2, <2>1, <2>2 DEF LedgerInv, NoLedger
<1> QED BY <1>3, <1>4 DEF TruthInv

LEMMA TruthStep ==
  EvolutionInv /\ EvolutionInv' /\ TruthInv /\ [EvolutionNext]_evolutionVars => TruthInv'
<1> SUFFICES ASSUME EvolutionInv, EvolutionInv', TruthInv, [EvolutionNext]_evolutionVars
             PROVE  TruthInv'
  OBVIOUS
<1>1. CASE UNCHANGED evolutionVars
  <2>1. /\ manifest' = manifest /\ worker' = worker /\ reviewer' = reviewer
        /\ reviewLock' = reviewLock /\ ledger' = ledger /\ operator' = operator
    BY <1>1 DEF evolutionVars, registry, records
  <2>2. \A o \in EvoTasks : LedgerInv(o)'
    BY <2>1 DEF TruthInv, LedgerInv, Fresh, Of
  <2>3. LocksInv' /\ (\A o \in Reviewers : ReviewTells(o)') /\ RecoveryTells'
    BY <2>1 DEF TruthInv, LocksInv, ReviewTells, RecoveryTells, Of
  <2> QED BY <2>2, <2>3 DEF TruthInv
<1>2. CASE EvolutionNext
  <2>1. ASSUME NEW t \in EvoTasks,
               Promote(t) \/ RunTask(t) \/ FindStale(t) \/ (\E d \in Diffs : Submit(t, d))
                 \/ (\E s \in Unsettled : GiveUp(t, s) \/ Load(t, s))
        PROVE  TruthInv'
    <3>1. CASE \E s \in Unsettled : Load(t, s)
      BY <3>1, RecoveryTellsOn
    <3>2. CASE Promote(t) \/ RunTask(t) \/ FindStale(t) \/ (\E d \in Diffs : Submit(t, d))
                 \/ (\E s \in Unsettled : GiveUp(t, s))
      BY <3>2, WorkTells
    <3> QED BY <2>1, <3>1, <3>2
  <2>2. ASSUME NEW r \in Reviewers,
               (\E t \in EvoTasks, a \in {"approve", "reject", "rollback"} : Open(r, t, a))
                 \/ Claim(r) \/ BeginOperation(r) \/ TakeLock(r) \/ Refuse(r) \/ Install(r)
                 \/ WriteManifest(r) \/ Unlock(r) \/ Record(r) \/ FinishOperation(r)
                 \/ MarkLedger(r) \/ Close(r) \/ Fails(r) \/ Dies(r)
        PROVE  TruthInv'
    <3>1. CASE \E t \in EvoTasks, a \in {"approve", "reject", "rollback"} : Open(r, t, a)
      BY <3>1, OpenTells
    <3>2. CASE WriteManifest(r)
      BY <3>2, WriteTells DEF EvolutionInv, EvolutionTypeOK
    <3>3. CASE Close(r) \/ Dies(r)
      BY <3>3, LeaveTells
    <3> QED BY <2>2, <3>1, <3>2, <3>3, ReviewTellsOn
  <2>3. CASE WorkerDies
    BY <2>3, WorkTells
  <2>4. CASE ClaimLock \/ Look \/ SaveRecovery \/ OperatorDies
    BY <2>4, RecoveryTellsOn
  <2> QED BY <1>2, <2>1, <2>2, <2>3, <2>4 DEF EvolutionNext
<1> QED BY <1>1, <1>2

\* At every moment, whoever died, whatever save failed and whatever was recovered, a
\* ledger that shows no operation in doubt and does not ask for a look says what the
\* registry says.
THEOREM LedgersStayTruthful == EvolutionSpec => []LedgerTruthful
<1>1. EvolutionInv /\ TruthInv => LedgerTruthful
  BY DEF TruthInv, LedgerInv, Unsure, Tells, Wrote, NamedAt, LedgerTruthful, Done
<1>2. EvolutionSpec => []TruthInv
  BY TruthInit, TruthStep, EvolutionInvariant, PTL DEF EvolutionSpec
<1> QED BY <1>1, <1>2, EvolutionInvariant, PTL

-----------------------------------------------------------------------------
(* Part 2: ConversationTurns. First, facts about numbers.                  *)

LEMMA LessIsWellFounded ==
  \E R : IsWellFoundedOn(R, Nat) /\ \A x, y \in Nat : y < x => <<y, x>> \in R
<1>1. \A x, y \in Nat : y < x => <<y, x>> \in OpToRel(<, Nat)
  BY DEF OpToRel
<1> QED BY <1>1, NatLessThanWellFounded, Zenon

LEMMA SmallestMember ==
  ASSUME NEW S \in SUBSET Nat, S # {}
  PROVE  \E m \in S : \A n \in S : m <= n
<1> PICK R : IsWellFoundedOn(R, Nat) /\ \A x, y \in Nat : y < x => <<y, x>> \in R
  BY LessIsWellFounded
<1>1. PICK m \in S : \A n \in S : ~(<<n, m>> \in R)
  BY WFMin, Zenon
<1>2. ASSUME NEW n \in S PROVE m <= n
  <2>1. n \in Nat /\ m \in Nat
    OBVIOUS
  <2>2. ~(<<n, m>> \in R)
    BY <1>1, Zenon
  <2>3. ~(n < m)
    BY <2>1, <2>2, Zenon
  <2> QED BY <2>1, <2>3
<1> QED BY <1>2

LEMMA SetInduction ==
  ASSUME NEW T \in SUBSET Nat, 0 \in T, \A n \in T : n + 1 \in T
  PROVE  T = Nat
<1> DEFINE U == Nat \ T
<1>1. SUFFICES ASSUME U # {} PROVE FALSE
  OBVIOUS
<1>2. U \in SUBSET Nat
  OBVIOUS
<1>3. PICK x \in U : \A y \in U : x <= y
  <2> HIDE DEF U
  <2> QED BY <1>1, <1>2, SmallestMember
<1>4. x - 1 \in Nat /\ x - 1 < x /\ (x - 1) + 1 = x
  OBVIOUS
<1>5. x - 1 \in U
  BY <1>4
<1> QED BY <1>3, <1>4, <1>5

-----------------------------------------------------------------------------
(* Sets of numbers in order.                                               *)

InOrder(s, S, n) ==
  s \in [1..n -> S] /\ \A i, k \in 1..n : i < k => s[i] < s[k]

LEMMA OrderExists ==
  \A n \in Nat : \A S \in SUBSET Nat :
    IsFiniteSet(S) /\ Cardinality(S) = n => \E s : InOrder(s, S, n)
<1> DEFINE T == {n \in Nat : \A S \in SUBSET Nat :
                   IsFiniteSet(S) /\ Cardinality(S) = n => \E s : InOrder(s, S, n)}
<1>1. 0 \in T
  <2> SUFFICES ASSUME NEW S \in SUBSET Nat PROVE \E s : InOrder(s, S, 0)
    OBVIOUS
  <2>1. [i \in 1..0 |-> 0] \in [1..0 -> S]
    OBVIOUS
  <2>2. \A i \in 1..0 : FALSE
    OBVIOUS
  <2>3. InOrder([i \in 1..0 |-> 0], S, 0)
    BY <2>1, <2>2 DEF InOrder
  <2> QED BY <2>3
<1>2. ASSUME NEW n \in T
      PROVE  n + 1 \in T
  <2> SUFFICES ASSUME NEW S \in SUBSET Nat, IsFiniteSet(S), Cardinality(S) = n + 1
               PROVE  \E s : InOrder(s, S, n + 1)
    OBVIOUS
  <2>1. n \in Nat
    OBVIOUS
  <2>2. S # {}
    BY <2>1, FS_EmptySet
  <2>3. PICK m \in S : \A k \in S : m <= k
    BY <2>2, SmallestMember
  <2>4. IsFiniteSet(S \ {m}) /\ Cardinality(S \ {m}) = n
    BY <2>1, FS_RemoveElement
  <2>5. PICK s : InOrder(s, S \ {m}, n)
    BY <2>4
  <2> DEFINE t == [i \in 1..n + 1 |-> IF i = 1 THEN m ELSE s[i - 1]]
  <2>6. \A i \in 1..n + 1 : i = 1 \/ i - 1 \in 1..n
    BY <2>1
  <2>7. \A i \in 1..n : s[i] \in S \ {m} /\ m < s[i]
    <3>1. \A x \in S \ {m} : m < x
      BY <2>3
    <3> QED BY <2>5, <3>1 DEF InOrder
  <2>8. t \in [1..n + 1 -> S]
    BY <2>6, <2>7
  <2>9. ASSUME NEW i \in 1..n + 1, NEW k \in 1..n + 1, i < k
        PROVE  t[i] < t[k]
    <3>1. k # 1 /\ k - 1 \in 1..n /\ t[k] = s[k - 1]
      BY <2>1, <2>9
    <3>2. CASE i = 1
      BY <2>7, <3>1, <3>2
    <3>3. CASE i # 1
      <4>1. i - 1 \in 1..n /\ t[i] = s[i - 1] /\ i - 1 < k - 1
        BY <2>1, <2>9, <3>3
      <4> QED BY <2>5, <3>1, <4>1 DEF InOrder
    <3> QED BY <3>2, <3>3
  <2> QED BY <2>8, <2>9 DEF InOrder
<1> HIDE DEF T
<1>3. T = Nat
  <2>1. T \in SUBSET Nat
    BY DEF T
  <2> QED BY <1>1, <1>2, <2>1, SetInduction
<1> QED BY <1>3 DEF T


LEMMA LargestMember ==
  ASSUME NEW n \in Nat, NEW S \in SUBSET (0 .. n), S # {}
  PROVE  \E m \in S : \A x \in S : m >= x
<1> DEFINE T == {x \in 0 .. n : n - x \in S}
<1>1. T \in SUBSET Nat /\ \A x \in S : n - x \in T
  OBVIOUS
<1>2. PICK m \in T : \A x \in T : m <= x
  <2> HIDE DEF T
  <2> QED BY <1>1, SmallestMember
<1>3. ASSUME NEW x \in S PROVE n - m >= x
  <2>1. m <= n - x
    BY <1>1, <1>2
  <2> QED BY <2>1
<1> QED BY <1>3

-----------------------------------------------------------------------------
(* Types.                                                                  *)

Cards ==
  [kind : {"none", "route", "advance"}, snap : Nat, rev : Nat, step : Nat, proof : Nat, source : Nat,
   status : {"none", "pending", "confirmed", "declined", "executed", "failed", "expired"},
   run : Nat, due : BOOLEAN]
Messages ==
  [role : {"user", "assistant"}, id : Nat, run : Nat, text : Nat, applied : Nat, ok : BOOLEAN, card : Cards]
Studies == [snap : Nat, rev : Nat, step : Nat, total : Nat, pass : Nat]
Rows == [msgs : Seq(Messages), snap : Nat, study : Studies]
Marks == {"turn", "answer"} \X Nat
Results == [ok : BOOLEAN, study : Studies, card : Cards]

TurnStages == {"replay", "prepare", "begin", "undo", "running", "saving", "commit"}
DecisionStages == {"decline", "expire", "execute", "reserve", "generate", "fail"}
Turns ==
  [pc : TurnStages, run : Nat, edits : BOOLEAN, read : Rows, leaf : Seq(Marks),
   result : Results \cup {None}, user : Messages]
Decisions == [pc : DecisionStages, run : Nat, action : Nat]
Turn(l) == lane[l].pc \in TurnStages

RecordTypes ==
  /\ budget \in Budgets
  /\ row \in Rows /\ row.snap \in 1 .. budget.snapshots
  /\ branches \in [1 .. budget.snapshots -> Seq(Marks)]
  /\ lane \in [Lanes -> Turns \cup Decisions \cup {Idle}]
  /\ chat \in Lanes \cup {None, Gone} /\ session \in Lanes \cup {None, Gone}
  /\ runs \in Nat
  /\ credit \in [step : Nat, rev : Nat, count : Nat]
  /\ executed \in SUBSET [action : Nat, source : Nat]

-----------------------------------------------------------------------------
(* The inductive invariant.                                                *)

\* A session is open in the turn that holds the chat; a lane loses its chat only in
\* the middle of a turn, or when its generation has failed.
Holding == {"replay", "prepare", "decline", "expire", "execute", "reserve", "generate"}
Permits ==
  /\ \A l \in Lanes : session = l => chat = l /\ TurnOpen(l)
  /\ \A l \in Lanes : lane[l].pc \in Holding => chat = l

\* Every request at work has a number of its own.
Requests ==
  /\ \A l \in Lanes : ~Is(l, "idle") => lane[l].run \in 1 .. runs
  /\ \A l, k \in Lanes : ~Is(l, "idle") /\ ~Is(k, "idle") /\ lane[l].run = lane[k].run => l = k

\* The transcript: who a message answers, and what it may carry.
Pairs(msgs) ==
  \A i \in DOMAIN msgs : msgs[i].role = "assistant" =>
    i > 1 /\ msgs[i - 1].role = "user" /\ msgs[i - 1].run = msgs[i].run
Unique(msgs) ==
  \A i, j \in DOMAIN msgs : msgs[i].role = msgs[j].role /\ msgs[i].id = msgs[j].id => i = j
Numbered(msgs, n) ==
  \A i \in DOMAIN msgs : msgs[i].id \in 1 .. n /\ msgs[i].run \in 1 .. n /\ msgs[i].applied \in 0 .. n
Authorised(msgs) ==
  \A i \in DOMAIN msgs : msgs[i].card # NoCard =>
    /\ msgs[i].role = "assistant" /\ msgs[i].card.source = msgs[i - 1].id
    /\ msgs[i - 1].applied = msgs[i].id => msgs[i].card.status = "executed"
Transcript(msgs) == Pairs(msgs) /\ Unique(msgs) /\ Authorised(msgs)

\* What a turn brings with it.
Asks(l) ==
  Turn(l) =>
    /\ lane[l].user.role = "user" /\ lane[l].user.run = lane[l].run /\ lane[l].user.card = NoCard
    /\ lane[l].user.id \in 1 .. lane[l].run /\ lane[l].user.applied < lane[l].run
    /\ ~lane[l].edits => lane[l].user.id = lane[l].run /\ lane[l].user.applied = 0
\* A turn that has not saved its answer shares its number with no answer, and one that
\* has not begun with no question of its own.
Unanswered(l) ==
  lane[l].pc \in {"prepare", "begin", "running", "saving"} =>
    \A i \in DOMAIN row.msgs : row.msgs[i].role = "assistant" =>
      row.msgs[i].id # lane[l].run /\ row.msgs[i].run # lane[l].run
Unasked(l) ==
  lane[l].pc \in {"prepare", "begin"} /\ ~lane[l].edits =>
    \A i \in DOMAIN row.msgs : row.msgs[i].role = "user" => row.msgs[i].id # lane[l].run

\* What was executed, and that its messages stay marked.
Spent ==
  /\ IsFiniteSet(executed) /\ credit.count = Cardinality(executed)
  /\ \A x, y \in executed : x.source = y.source => x = y
  /\ \A x \in executed : \E i \in DOMAIN row.msgs :
       row.msgs[i].role = "user" /\ row.msgs[i].id = x.source /\ row.msgs[i].applied # 0

\* What a turn that holds the chat has read or written still stands.
Alike(m, n) ==
  /\ DOMAIN m = DOMAIN n
  /\ \A i \in DOMAIN m : m[i].role = n[i].role /\ m[i].id = n[i].id
EditsLast(l) ==
  LET k == LastUser(row.msgs)
  IN /\ k # 0 /\ row.msgs[k].id = lane[l].user.id
     /\ row.msgs[k].applied # 0 => lane[l].user.applied # 0
EndsWith(msgs, m) ==
  msgs # << >> /\ msgs[Len(msgs)].role = m.role /\ msgs[Len(msgs)].id = m.id /\ msgs[Len(msgs)].applied = m.applied
Stands(l) ==
  /\ chat = l /\ lane[l].pc \in {"prepare", "begin"} /\ lane[l].edits => EditsLast(l)
  /\ chat = l /\ lane[l].pc = "prepare" => Alike(lane[l].read.msgs, row.msgs)
  /\ session = l /\ lane[l].pc \in {"running", "saving"} => EndsWith(row.msgs, lane[l].user)
  /\ session = l /\ lane[l].pc = "commit" =>
       row.msgs # << >> /\ row.msgs[Len(row.msgs)].role = "assistant" /\ row.msgs[Len(row.msgs)].id = lane[l].run

\* The answer of a turn is judged on the study it read.
Judged(l) ==
  lane[l].pc = "saving" =>
    /\ lane[l].result \in Results
    /\ lane[l].result.study \in {lane[l].read.study, [lane[l].read.study EXCEPT !.pass = lane[l].run]}
    /\ lane[l].result.card # NoCard => lane[l].result.card.source = lane[l].user.id

\* The branches: answers that the transcript shows; an answer after its question, so
\* that a cut at the question takes it along; and what is left by such a cut.
Known(branch, msgs) ==
  \A i \in DOMAIN branch : branch[i][1] = "answer" =>
    \E j \in DOMAIN msgs : msgs[j].role = "assistant" /\ msgs[j].id = branch[i][2]
Placed(branch, msgs) ==
  msgs # << >> /\ msgs[Len(msgs)].role = "assistant" =>
    \A i, j \in DOMAIN branch :
      branch[i] = TurnMark(msgs[Len(msgs) - 1].id) /\ branch[j] = AnswerMark(msgs[Len(msgs)].id) => i < j
Trimmed(branch, msgs) ==
  \A i \in DOMAIN branch : branch[i][1] = "answer" =>
    \E j \in DOMAIN msgs : j < LastUser(msgs) /\ msgs[j].role = "assistant" /\ msgs[j].id = branch[i][2]
Contexts ==
  /\ \A s \in DOMAIN branches : s > row.snap => branches[s] = << >>
  /\ Known(branches[row.snap], row.msgs) /\ Placed(branches[row.snap], row.msgs)
Opened(l) ==
  Turn(l) =>
    /\ lane[l].read.snap \in 1 .. row.snap
    /\ chat = l => \A s \in DOMAIN branches : s > lane[l].read.snap => branches[s] = << >>
    /\ session = l /\ lane[l].read.snap = row.snap =>
         /\ lane[l].pc \in {"begin", "undo"} => Known(lane[l].leaf, row.msgs) /\ Placed(lane[l].leaf, row.msgs)
         /\ lane[l].pc = "begin" /\ lane[l].edits => Trimmed(branches[row.snap], row.msgs)

TurnsInv ==
  /\ RecordTypes /\ Permits /\ Requests /\ Transcript(row.msgs) /\ Numbered(row.msgs, runs)
  /\ \A l \in Lanes : Asks(l) /\ Unanswered(l) /\ Unasked(l) /\ Stands(l) /\ Judged(l) /\ Opened(l)
  /\ Spent /\ ProgressKept /\ ReservationKept /\ Contexts

-----------------------------------------------------------------------------
(* Looking for messages.                                                   *)

IsLastUser(msgs, k) ==
  /\ k \in 0 .. Len(msgs)
  /\ k # 0 => msgs[k].role = "user"
  /\ \A i \in 1 .. Len(msgs) : msgs[i].role = "user" => i <= k

LEMMA LastUserIs ==
  ASSUME NEW T, NEW msgs \in Seq(T)
  PROVE  IsLastUser(msgs, LastUser(msgs))
<1> DEFINE I == {i \in 1 .. Len(msgs) : msgs[i].role = "user"}
<1>1. LastUser(msgs) = IF I # {} THEN CHOOSE x \in I : \A y \in I : x >= y ELSE 0
  BY DEF LastUser, SelectLastInSeq, Max
<1>2. I \in SUBSET (0 .. Len(msgs)) /\ Len(msgs) \in Nat
  OBVIOUS
<1>3. I # {} => \E x \in I : \A y \in I : x >= y
  <2> HIDE DEF I
  <2> QED BY <1>2, LargestMember
<1>4. CASE I = {}
  BY <1>1, <1>4 DEF IsLastUser
<1>5. CASE I # {}
  <2>1. LastUser(msgs) \in I /\ \A y \in I : LastUser(msgs) >= y
    <3> HIDE DEF I
    <3> QED BY <1>1, <1>3, <1>5
  <2> QED BY <2>1 DEF IsLastUser
<1> QED BY <1>4, <1>5

\* The first message of a kind; there is at most one where numbers are unique.
IsAt(msgs, role, id, k) ==
  /\ k \in 0 .. Len(msgs)
  /\ k # 0 => msgs[k].role = role /\ msgs[k].id = id
  /\ k = 0 => \A i \in 1 .. Len(msgs) : ~(msgs[i].role = role /\ msgs[i].id = id)

LEMMA AtIs ==
  ASSUME NEW T, NEW msgs \in Seq(T), NEW role, NEW id
  PROVE  IsAt(msgs, role, id, At(msgs, role, id))
<1> DEFINE I == {i \in 1 .. Len(msgs) : msgs[i].role = role /\ msgs[i].id = id}
<1>1. At(msgs, role, id) = IF I # {} THEN CHOOSE x \in I : \A y \in I : x <= y ELSE 0
  BY DEF At, SelectInSeq, Min
<1>2. I \subseteq Nat
  OBVIOUS
<1>3. I # {} => \E x \in I : \A y \in I : x <= y
  <2> HIDE DEF I
  <2> QED BY <1>2, SmallestMember
<1>4. CASE I = {}
  BY <1>1, <1>4 DEF IsAt
<1>5. CASE I # {}
  <2>1. At(msgs, role, id) \in I
    <3> HIDE DEF I
    <3> QED BY <1>1, <1>3, <1>5
  <2> QED BY <2>1 DEF IsAt
<1> QED BY <1>4, <1>5

LEMMA AnswerToIs ==
  ASSUME NEW T, NEW msgs \in Seq(T), NEW i \in 0 .. Len(msgs), AnswerTo(msgs, i) # 0
  PROVE  AnswerTo(msgs, i) \in i + 1 .. Len(msgs) /\ msgs[AnswerTo(msgs, i)].role = "assistant"
<1> DEFINE rest == SubSeq(msgs, i + 1, Len(msgs))
           I == {n \in 1 .. Len(rest) : rest[n].role = "assistant" /\ rest[n].ok}
           j == IF I # {} THEN CHOOSE x \in I : \A y \in I : x <= y ELSE 0
<1>1. AnswerTo(msgs, i) = IF j = 0 THEN 0 ELSE i + j
  BY DEF AnswerTo, SelectInSeq, Min
<1>2. /\ rest \in Seq(T) /\ Len(rest) = Len(msgs) - i
      /\ \A n \in 1 .. Len(rest) : rest[n] = msgs[i + n]
  BY DEF rest
<1>3. I \subseteq Nat
  OBVIOUS
<1>4. I # {} => \E x \in I : \A y \in I : x <= y
  <2> HIDE DEF I
  <2> QED BY <1>3, SmallestMember
<1>5. j # 0 => j \in I
  <2> HIDE DEF I
  <2> QED BY <1>4
<1>6. j # 0 /\ AnswerTo(msgs, i) = i + j
  BY <1>1
<1>7. j \in 1 .. Len(rest) /\ rest[j].role = "assistant"
  BY <1>5, <1>6
<1> HIDE DEF j, rest
<1> QED BY <1>2, <1>6, <1>7

\* An answer follows a question, so at most one answer follows the last question.
LEMMA OneAnswerFollows ==
  ASSUME NEW msgs \in Seq(Messages), Pairs(msgs)
  PROVE  /\ Len(msgs) \in {LastUser(msgs), LastUser(msgs) + 1}
         /\ AnswerTo(msgs, LastUser(msgs)) \in {0, LastUser(msgs) + 1}
         /\ msgs # << >> => LastUser(msgs) # 0
<1> DEFINE k == LastUser(msgs)
<1>1. IsLastUser(msgs, k) /\ Len(msgs) \in Nat
  BY LastUserIs
<1>2. ASSUME NEW i \in 1 .. Len(msgs), i > k
      PROVE  i = k + 1 /\ k # 0
  <2>1. msgs[i].role = "assistant" /\ i \in DOMAIN msgs
    <3>1. msgs[i] \in Messages
      OBVIOUS
    <3>2. msgs[i].role \in {"user", "assistant"}
      BY <3>1 DEF Messages
    <3> QED BY <1>1, <1>2, <3>2 DEF IsLastUser
  <2>2. i > 1 /\ msgs[i - 1].role = "user"
    BY <2>1 DEF Pairs
  <2>3. i - 1 \in 1 .. Len(msgs)
    BY <1>1, <2>2
  <2>4. i - 1 <= k
    BY <1>1, <2>2, <2>3 DEF IsLastUser
  <2> QED BY <1>1, <1>2, <2>2, <2>4 DEF IsLastUser
<1>3. k \in 0 .. Len(msgs)
  BY <1>1 DEF IsLastUser
<1>4. Len(msgs) \in {k, k + 1}
  <2> HIDE DEF k
  <2> QED BY <1>1, <1>2, <1>3
<1>5. AnswerTo(msgs, k) \in {0, k + 1}
  <2>1. AnswerTo(msgs, k) # 0 => AnswerTo(msgs, k) \in k + 1 .. Len(msgs)
    BY <1>3, AnswerToIs
  <2> HIDE DEF k
  <2> QED BY <1>2, <1>3, <2>1
<1>6. msgs # << >> => k # 0
  <2>1. msgs # << >> => 1 \in 1 .. Len(msgs)
    OBVIOUS
  <2> HIDE DEF k
  <2> QED BY <1>2, <1>3, <2>1
<1> QED BY <1>4, <1>5, <1>6

-----------------------------------------------------------------------------
(* Requests: how a step changes the lane it belongs to.                    *)

LaneTypes == Turns \cup Decisions \cup {Idle}

LEMMA LaneKinds ==
  ASSUME RecordTypes, NEW l \in Lanes
  PROVE  /\ lane[l].pc \in TurnStages \cup DecisionStages \cup {"idle"}
         /\ lane[l].pc \in TurnStages => lane[l] \in Turns
         /\ lane[l].pc \in DecisionStages => lane[l] \in Decisions
         /\ lane[l].pc = "idle" => lane[l] = Idle
<1>1. lane[l] \in Turns \cup Decisions \cup {Idle}
  BY DEF RecordTypes
<1>2. CASE lane[l] \in Turns
  BY <1>2 DEF Turns, TurnStages, DecisionStages
<1>3. CASE lane[l] \in Decisions
  BY <1>3 DEF Decisions, TurnStages, DecisionStages
<1>4. CASE lane[l] = Idle
  BY <1>4 DEF Idle, TurnStages, DecisionStages
<1> QED BY <1>1, <1>2, <1>3, <1>4

OthersStay(l) == \A o \in Lanes \ {l} : lane'[o] = lane[o]
TurnMoves(l, s) ==
  /\ lane'[l] \in Turns /\ lane'[l].pc = s
  /\ lane'[l].run = lane[l].run /\ lane'[l].edits = lane[l].edits /\ lane'[l].read = lane[l].read
  /\ lane'[l].user = lane[l].user
DecisionMoves(l, s) ==
  /\ lane'[l] \in Decisions /\ lane'[l].pc = s
  /\ lane'[l].run = lane[l].run /\ lane'[l].action = lane[l].action

LEMMA LaneSet ==
  ASSUME RecordTypes, NEW l \in Lanes, NEW x \in LaneTypes, lane' = [lane EXCEPT ![l] = x]
  PROVE  lane' \in [Lanes -> LaneTypes] /\ lane'[l] = x /\ OthersStay(l)
BY DEF RecordTypes, LaneTypes, OthersStay

LEMMA TurnGoes ==
  ASSUME RecordTypes, NEW l \in Lanes, lane[l].pc \in TurnStages, NEW s \in TurnStages, Goto(l, s)
  PROVE  /\ lane' \in [Lanes -> LaneTypes] /\ OthersStay(l) /\ TurnMoves(l, s)
         /\ lane'[l].leaf = lane[l].leaf /\ lane'[l].result = lane[l].result
         /\ chat' = chat /\ session' = session
<1>1. lane[l] \in Turns
  BY LaneKinds
<1>2. lane'[l] = [lane[l] EXCEPT !.pc = s] /\ lane' = [lane EXCEPT ![l] = lane'[l]]
  BY DEF Goto, RecordTypes
<1>3. /\ TurnMoves(l, s) /\ lane'[l].leaf = lane[l].leaf /\ lane'[l].result = lane[l].result
      /\ lane'[l] \in Turns
  BY <1>1, <1>2 DEF TurnMoves, Turns
<1>4. lane' \in [Lanes -> LaneTypes] /\ OthersStay(l)
  BY <1>2, <1>3, LaneSet DEF LaneTypes
<1> QED BY <1>3, <1>4 DEF Goto

LEMMA DecisionGoes ==
  ASSUME RecordTypes, NEW l \in Lanes, lane[l].pc \in DecisionStages, NEW s \in DecisionStages,
         lane' = [lane EXCEPT ![l].pc = s]
  PROVE  lane' \in [Lanes -> LaneTypes] /\ OthersStay(l) /\ DecisionMoves(l, s)
<1>1. lane[l] \in Decisions
  BY LaneKinds
<1>2. lane'[l] = [lane[l] EXCEPT !.pc = s] /\ lane' = [lane EXCEPT ![l] = lane'[l]]
  BY DEF RecordTypes
<1>3. DecisionMoves(l, s) /\ lane'[l] \in Decisions
  BY <1>1, <1>2 DEF DecisionMoves, Decisions
<1> QED BY <1>2, <1>3, LaneSet DEF LaneTypes

LEMMA LaneEnds ==
  ASSUME RecordTypes, NEW l \in Lanes, lane' = [lane EXCEPT ![l] = Idle]
  PROVE  lane' \in [Lanes -> LaneTypes] /\ OthersStay(l) /\ lane'[l] = Idle /\ lane'[l].pc = "idle"
BY LaneSet DEF LaneTypes, Idle

LEMMA AppliedIs ==
  ASSUME NEW n \in Nat, NEW msgs \in Seq(Messages), Numbered(msgs, n), NEW i \in 1 .. Len(msgs)
  PROVE  /\ Applied(msgs, i) \in 0 .. n
         /\ msgs[i].applied # 0 => Applied(msgs, i) # 0
<1>1. AnswerTo(msgs, i) # 0 => AnswerTo(msgs, i) \in DOMAIN msgs
  <2>1. AnswerTo(msgs, i) # 0 => AnswerTo(msgs, i) \in i + 1 .. Len(msgs)
    BY AnswerToIs
  <2> QED BY <2>1
<1>2. PICK j : j = AnswerTo(msgs, i)
  OBVIOUS
<1>3. Applied(msgs, i) \in {msgs[i].applied, 0} \/ (j # 0 /\ Applied(msgs, i) = msgs[j].id)
  BY <1>2, Zenon DEF Applied
<1>4. msgs[i].applied # 0 => Applied(msgs, i) = msgs[i].applied
  BY DEF Applied
<1> QED BY <1>1, <1>2, <1>3, <1>4 DEF Numbered

\* The copy of the project that a turn begins with.
LEMMA MigratedIs ==
  ASSUME NEW r \in Rows
  PROVE  /\ Migrated(r) \in Rows /\ Migrated(r).msgs = r.msgs /\ Migrated(r).snap = r.snap
         /\ Migrated(r).study.step = r.study.step
         /\ Migrated(r).study.rev = IF r.study.snap = r.snap THEN r.study.rev ELSE r.study.rev + 1
<1>1. CASE r.study.snap = r.snap
  BY <1>1 DEF Migrated, Rows
<1>2. CASE r.study.snap # r.snap
  <2>1. r.study \in Studies /\ r.snap \in Nat
    BY DEF Rows
  <2>4. PICK s : s = [r.study EXCEPT !.snap = r.snap, !.rev = r.study.rev + 1, !.pass = 0]
    OBVIOUS
  <2>2. s \in Studies /\ s.step = r.study.step /\ s.rev = r.study.rev + 1
    <3>1. PICK t \in Studies : t = r.study
      BY <2>1
    <3>2. PICK n \in Nat : n = r.study.rev + 1
      BY <2>1 DEF Studies
    <3>3. s = [t EXCEPT !.snap = r.snap, !.rev = n, !.pass = 0]
      BY <2>4, <3>1, <3>2
    <3> QED BY <2>1, <3>1, <3>2, <3>3 DEF Studies
  <2>3. Migrated(r) = [r EXCEPT !.study = s]
    BY <1>2, <2>4 DEF Migrated
  <2> QED BY <1>2, <2>2, <2>3 DEF Rows
<1> QED BY <1>1, <1>2

\* A request is admitted: the lane was idle, nobody held the chat, and its number is new.
Admitted(l) ==
  /\ Is(l, "idle") /\ chat = None /\ chat' = l /\ session' = session /\ runs' = runs + 1
  /\ lane' \in [Lanes -> LaneTypes] /\ OthersStay(l) /\ lane'[l].run = runs + 1
StartedTurn(l, edits) ==
  /\ Admitted(l)
  /\ lane'[l] \in Turns /\ lane'[l].pc \in {"replay", "prepare"}
  /\ lane'[l].edits = edits /\ lane'[l].read.msgs = row.msgs /\ lane'[l].read.snap = row.snap
  /\ lane'[l].user.role = "user" /\ lane'[l].user.run = runs + 1 /\ lane'[l].user.card = NoCard
  /\ ~edits => lane'[l].user.id = runs + 1 /\ lane'[l].user.applied = 0
  /\ edits => /\ LastUser(row.msgs) # 0 /\ lane'[l].user.id = row.msgs[LastUser(row.msgs)].id
              /\ lane'[l].user.applied = Applied(row.msgs, LastUser(row.msgs))

LEMMA NoCardIs == NoCard \in Cards /\ NoCard.status = "none"
BY DEF NoCard, Cards

LEMMA StartAdmits ==
  ASSUME RecordTypes, Numbered(row.msgs, runs), NEW l \in Lanes, NEW edits \in BOOLEAN,
         NEW same \in BOOLEAN, Start(l, edits, same)
  PROVE  /\ StartedTurn(l, edits) /\ row' = Migrated(row)
         /\ credit' = (IF Migrates THEN [credit EXCEPT !.rev = credit.rev + 1] ELSE credit)
<1>1. PICK r : r = Migrated(row)
  OBVIOUS
<1>2. PICK i : i = LastUser(r.msgs)
  OBVIOUS
<1>3. PICK pc : pc = IF edits /\ Replays(r.msgs, i, r.snap, same) THEN "replay" ELSE "prepare"
  OBVIOUS
<1>4. PICK user : user = IF edits
                         THEN UserMessage(r.msgs[i].id, runs + 1, IF same THEN r.msgs[i].text ELSE runs + 1, Applied(r.msgs, i))
                         ELSE UserMessage(runs + 1, runs + 1, runs + 1, 0)
  OBVIOUS
<1>5. /\ edits => i # 0
      /\ row' = r
      /\ credit' = IF Migrates THEN [credit EXCEPT !.rev = credit.rev + 1] ELSE credit
      /\ lane' = [lane EXCEPT ![l] =
            [pc |-> pc, run |-> runs + 1, edits |-> edits, read |-> r, leaf |-> << >>, result |-> None, user |-> user]]
  BY <1>1, <1>2, <1>3, <1>4 DEF Start
<1>6. r \in Rows /\ r.msgs = row.msgs /\ r.snap = row.snap /\ runs \in Nat /\ row.msgs \in Seq(Messages)
  BY <1>1, MigratedIs DEF RecordTypes, Rows
<1>7. IsLastUser(row.msgs, i)
  BY <1>2, <1>6, LastUserIs
<1>8. edits => i \in 1 .. Len(row.msgs) /\ row.msgs[i] \in Messages /\ Applied(row.msgs, i) \in Nat
  BY <1>5, <1>6, <1>7, AppliedIs DEF IsLastUser
<1>9. /\ user \in Messages
      /\ user.role = "user" /\ user.run = runs + 1 /\ user.card = NoCard
      /\ ~edits => user.id = runs + 1 /\ user.applied = 0
      /\ edits => user.id = row.msgs[i].id /\ user.applied = Applied(row.msgs, i)
  <2>1. CASE edits
    <3>1. PICK text \in Nat : text = IF same THEN r.msgs[i].text ELSE runs + 1
      <4>1. r.msgs[i].text \in Nat /\ runs + 1 \in Nat
        <5>1. row.msgs[i] \in Messages
          BY <1>8, <2>1
        <5> QED BY <1>6, <5>1 DEF Messages
      <4> QED BY <4>1
    <3>2. user = UserMessage(row.msgs[i].id, runs + 1, text, Applied(row.msgs, i))
      BY <1>4, <1>6, <2>1, <3>1
    <3>3. row.msgs[i].id \in Nat
      BY <1>8, <2>1 DEF Messages
    <3> QED BY <1>6, <1>8, <2>1, <3>2, <3>3, NoCardIs DEF UserMessage, Messages
  <2>2. CASE ~edits
    BY <1>4, <1>6, <2>2, NoCardIs DEF UserMessage, Messages
  <2> QED BY <2>1, <2>2
<1>10. pc \in {"replay", "prepare"}
  BY <1>3
<1> DEFINE x == [pc |-> pc, run |-> runs + 1, edits |-> edits, read |-> r, leaf |-> << >>, result |-> None, user |-> user]
<1>11. x \in Turns
  BY <1>6, <1>9, <1>10 DEF Turns, TurnStages
<1>12. lane' \in [Lanes -> LaneTypes] /\ OthersStay(l) /\ lane'[l] = x
  BY <1>5, <1>11, LaneSet DEF LaneTypes
<1>13. Admitted(l)
  BY <1>12 DEF Admitted, Start
<1>14. StartedTurn(l, edits)
  BY <1>2, <1>5, <1>6, <1>9, <1>10, <1>11, <1>12, <1>13 DEF StartedTurn
<1> QED BY <1>1, <1>5, <1>14

DecidesOn(l, i) ==
  /\ i \in DOMAIN row.msgs /\ row.msgs[i].card # NoCard
  /\ lane'[l] \in Decisions /\ lane'[l].pc \in {"expire", "decline", "reserve", "execute"}
  /\ lane'[l].action = row.msgs[i].id

LEMMA DecideAdmits ==
  ASSUME RecordTypes, NEW l \in Lanes, NEW wish, Decide(l, wish)
  PROVE  Admitted(l) /\ \E i : DecidesOn(l, i)
<1>1. PICK i \in DOMAIN row.msgs :
        /\ row.msgs[i].card # NoCard /\ Retryable(row.msgs[i].card)
        /\ lane' = [lane EXCEPT ![l] = [run |-> runs + 1, action |-> row.msgs[i].id,
              pc |-> IF ~Current(row.msgs[i].card) THEN "expire"
                     ELSE IF wish = "decline" THEN "decline"
                     ELSE IF row.msgs[i].card.kind = "route" THEN "reserve" ELSE "execute"]]
  BY DEF Decide
<1>2. PICK pc : pc = IF ~Current(row.msgs[i].card) THEN "expire"
                     ELSE IF wish = "decline" THEN "decline"
                     ELSE IF row.msgs[i].card.kind = "route" THEN "reserve" ELSE "execute"
  OBVIOUS
<1> DEFINE x == [run |-> runs + 1, action |-> row.msgs[i].id, pc |-> pc]
<1>3. lane' = [lane EXCEPT ![l] = x]
  BY <1>1, <1>2
<1>4. pc \in {"expire", "decline", "reserve", "execute"}
  BY <1>2
<1>5. row.msgs[i] \in Messages /\ runs \in Nat
  BY DEF RecordTypes, Rows
<1>6. x \in Decisions
  BY <1>4, <1>5 DEF Decisions, DecisionStages, Messages
<1>7. lane' \in [Lanes -> LaneTypes] /\ OthersStay(l) /\ lane'[l] = x
  BY <1>3, <1>6, LaneSet DEF LaneTypes
<1>8. Admitted(l)
  BY <1>7 DEF Admitted, Decide
<1>9. DecidesOn(l, i)
  BY <1>1, <1>4, <1>6, <1>7 DEF DecidesOn
<1> QED BY <1>8, <1>9

-----------------------------------------------------------------------------
(* Transcripts: how the steps change them.                                 *)

\* Nothing but what a card says of itself.
SameMessage(a, b) ==
  /\ b.role = a.role /\ b.id = a.id /\ b.run = a.run /\ b.applied = a.applied
  /\ b.card # NoCard => a.card # NoCard /\ b.card.source = a.card.source
  /\ a.card.status = "executed" => b.card.status = "executed"
Touched(m, n) ==
  /\ n \in Seq(Messages) /\ Len(n) = Len(m)
  /\ \A i \in 1 .. Len(m) : SameMessage(m[i], n[i])

\* Messages and answers are as before, or have the number r.
From(m, n, r) ==
  \A j \in DOMAIN n :
    /\ n[j].id = r \/ \E i \in DOMAIN m : m[i].role = n[j].role /\ m[i].id = n[j].id
    /\ n[j].role = "assistant" =>
         n[j].run = r \/ \E i \in DOMAIN m : m[i].role = "assistant" /\ m[i].run = n[j].run

\* The questions of m are questions of n, and stay marked.
Marked(m, n) ==
  \A i \in DOMAIN m : m[i].role = "user" =>
    \E j \in DOMAIN n : n[j].role = "user" /\ n[j].id = m[i].id /\ (m[i].applied # 0 => n[j].applied # 0)

LEMMA TouchedIsAlike ==
  ASSUME NEW m \in Seq(Messages), NEW n, Touched(m, n)
  PROVE  Alike(m, n) /\ Marked(m, n) /\ \A r : From(m, n, r)
BY DEF Touched, Alike, SameMessage, Marked, From

LEMMA AlikeLastUser ==
  ASSUME NEW m \in Seq(Messages), NEW n \in Seq(Messages), Alike(m, n)
  PROVE  LastUser(n) = LastUser(m)
<1>1. PICK j : j = LastUser(m)
  OBVIOUS
<1>2. PICK k : k = LastUser(n)
  OBVIOUS
<1>3. IsLastUser(m, j) /\ IsLastUser(n, k)
  BY <1>1, <1>2, LastUserIs
<1>4. Len(m) = Len(n) /\ Len(m) \in Nat /\ \A i \in 1 .. Len(m) : m[i].role = n[i].role
  BY DEF Alike
<1>5. j = k
  BY <1>3, <1>4 DEF IsLastUser
<1> QED BY <1>1, <1>2, <1>5

LEMMA TouchedTranscript ==
  ASSUME NEW m \in Seq(Messages), NEW n, Touched(m, n), Transcript(m)
  PROVE  Transcript(n)
<1>1. Len(m) \in Nat /\ DOMAIN m = 1 .. Len(m) /\ DOMAIN n = 1 .. Len(m)
  BY DEF Touched
<1>2. \A i \in 1 .. Len(m) : SameMessage(m[i], n[i])
  BY DEF Touched
<1>3. Pairs(n)
  <2> SUFFICES ASSUME NEW i \in 1 .. Len(m), n[i].role = "assistant"
               PROVE  i > 1 /\ n[i - 1].role = "user" /\ n[i - 1].run = n[i].run
    BY <1>1 DEF Pairs
  <2>1. i > 1 /\ m[i - 1].role = "user" /\ m[i - 1].run = m[i].run
    BY <1>1, <1>2 DEF Transcript, Pairs, SameMessage
  <2>2. i - 1 \in 1 .. Len(m)
    BY <1>1, <2>1
  <2> QED BY <1>2, <2>1, <2>2 DEF SameMessage
<1>4. Unique(n)
  BY <1>1, <1>2 DEF Transcript, Unique, SameMessage
<1>5. Authorised(n)
  <2> SUFFICES ASSUME NEW i \in 1 .. Len(m), n[i].card # NoCard
               PROVE  /\ n[i].role = "assistant" /\ n[i].card.source = n[i - 1].id
                      /\ n[i - 1].applied = n[i].id => n[i].card.status = "executed"
    BY <1>1 DEF Authorised
  <2>1. SameMessage(m[i], n[i])
    BY <1>2
  <2>2. /\ m[i].role = "assistant" /\ m[i].card.source = m[i - 1].id
        /\ m[i - 1].applied = m[i].id => m[i].card.status = "executed"
    BY <1>1, <2>1 DEF Transcript, Authorised, SameMessage
  <2>3. i - 1 \in 1 .. Len(m)
    BY <1>1, <2>2 DEF Transcript, Pairs
  <2> QED BY <1>2, <2>1, <2>2, <2>3 DEF SameMessage
<1> QED BY <1>3, <1>4, <1>5 DEF Transcript

LEMMA TouchedNumbered ==
  ASSUME NEW m \in Seq(Messages), NEW n, Touched(m, n), NEW r \in Nat, Numbered(m, r)
  PROVE  Numbered(n, r)
BY DEF Touched, Numbered, SameMessage

CardPut(r, i, card) == [r EXCEPT !.msgs = [r.msgs EXCEPT ![i] = [r.msgs[i] EXCEPT !.card = card]]]

LEMMA CardChanges ==
  ASSUME NEW r \in Rows, NEW i \in DOMAIN r.msgs, NEW card \in Cards, r.msgs[i].card # NoCard,
         card.source = r.msgs[i].card.source,
         r.msgs[i].card.status = "executed" => card.status = "executed",
         NEW s, s = CardPut(r, i, card)
  PROVE  /\ s \in Rows /\ s.snap = r.snap /\ s.study = r.study /\ Touched(r.msgs, s.msgs)
         /\ s.msgs[i].card = card /\ \A j \in DOMAIN r.msgs \ {i} : s.msgs[j] = r.msgs[j]
<1>1. PICK m : m = r.msgs
  OBVIOUS
<1>2. m \in Seq(Messages) /\ i \in DOMAIN m /\ m[i] \in Messages
  BY <1>1 DEF Rows
<1>3. PICK c : c = [m[i] EXCEPT !.card = card]
  OBVIOUS
<1>4. c \in Messages /\ SameMessage(m[i], c) /\ c.card = card
  BY <1>1, <1>2, <1>3 DEF Messages, SameMessage
<1>5. PICK n : n = [m EXCEPT ![i] = c]
  OBVIOUS
<1>6. n \in Seq(Messages) /\ Len(n) = Len(m) /\ n[i] = c /\ \A j \in DOMAIN m \ {i} : n[j] = m[j]
  BY <1>2, <1>4, <1>5
<1>7. Touched(m, n)
  <2>1. \A j \in 1 .. Len(m) : SameMessage(m[j], n[j])
    BY <1>2, <1>4, <1>6 DEF SameMessage
  <2> QED BY <1>6, <2>1 DEF Touched
<1>8. s = [r EXCEPT !.msgs = n]
  BY <1>1, <1>3, <1>5 DEF CardPut
<1>9. s \in Rows /\ s.snap = r.snap /\ s.study = r.study /\ s.msgs = n
  BY <1>6, <1>8 DEF Rows
<1> QED BY <1>1, <1>4, <1>6, <1>7, <1>9

\* A replay gives the last question and its answer the same new number.
LEMMA RenumberedIs ==
  ASSUME NEW m \in Seq(Messages), NEW places, NEW r \in Nat
  PROVE  /\ Renumbered(m, places, r) \in Seq(Messages) /\ Len(Renumbered(m, places, r)) = Len(m)
         /\ \A k \in 1 .. Len(m) :
              /\ Renumbered(m, places, r)[k].role = m[k].role /\ Renumbered(m, places, r)[k].id = m[k].id
              /\ Renumbered(m, places, r)[k].applied = m[k].applied
              /\ Renumbered(m, places, r)[k].card = m[k].card
              /\ k \in places => Renumbered(m, places, r)[k].run = r
              /\ k \notin places => Renumbered(m, places, r)[k].run = m[k].run
<1>1. PICK n : n = Renumbered(m, places, r)
  OBVIOUS
<1>2. /\ DOMAIN n = DOMAIN m
      /\ \A k \in DOMAIN m : n[k] = IF k \in places THEN [m[k] EXCEPT !.run = r] ELSE m[k]
  BY <1>1, Zenon DEF Renumbered
<1>3. ASSUME NEW k \in 1 .. Len(m)
      PROVE  /\ n[k] \in Messages /\ n[k].role = m[k].role /\ n[k].id = m[k].id /\ n[k].applied = m[k].applied
             /\ n[k].card = m[k].card
             /\ k \in places => n[k].run = r
             /\ k \notin places => n[k].run = m[k].run
  <2>1. k \in DOMAIN m /\ m[k] \in Messages
    OBVIOUS
  <2>2. CASE k \in places
    <3>1. n[k] = [m[k] EXCEPT !.run = r]
      BY <1>2, <2>1, <2>2, Zenon
    <3> QED BY <2>1, <2>2, <3>1 DEF Messages
  <2>3. CASE k \notin places
    <3>1. n[k] = m[k]
      BY <1>2, <2>1, <2>3, Zenon
    <3> QED BY <2>1, <2>3, <3>1
  <2> QED BY <2>2, <2>3
<1>4. n = [k \in 1 .. Len(m) |-> n[k]]
  <2>1. DOMAIN m = 1 .. Len(m)
    OBVIOUS
  <2> QED BY <1>1, <1>2, <2>1, Zenon DEF Renumbered
<1>5. n \in Seq(Messages) /\ Len(n) = Len(m)
  BY <1>3, <1>4
<1> QED BY <1>1, <1>3, <1>5, Zenon

LEMMA ReplayedTranscript ==
  ASSUME NEW m \in Seq(Messages), Transcript(m), NEW r \in Nat \ {0}, LastUser(m) # 0, LastUser(m) + 1 \in DOMAIN m,
         NEW n, n = Renumbered(m, {LastUser(m), LastUser(m) + 1}, r)
  PROVE  n \in Seq(Messages) /\ Transcript(n) /\ Alike(m, n) /\ Marked(m, n) /\ From(m, n, r)
         /\ \A c \in Nat : r <= c /\ Numbered(m, c) => Numbered(n, c)
<1>1. PICK i : i = LastUser(m)
  OBVIOUS
<1>2. IsLastUser(m, i) /\ Len(m) \in {i, i + 1} /\ Len(m) \in Nat
  BY <1>1, LastUserIs, OneAnswerFollows DEF Transcript
<1>3. Len(m) = i + 1 /\ i \in 1 .. Len(m) /\ DOMAIN m = 1 .. Len(m) /\ m[i].role = "user"
  BY <1>1, <1>2 DEF IsLastUser
<1>4. n = Renumbered(m, {i, i + 1}, r)
  BY <1>1
<1>5. n \in Seq(Messages) /\ Len(n) = Len(m) /\ DOMAIN n = 1 .. Len(m)
  BY <1>4, RenumberedIs
<1>6. ASSUME NEW k \in 1 .. Len(m)
      PROVE  /\ n[k].role = m[k].role /\ n[k].id = m[k].id /\ n[k].applied = m[k].applied
             /\ n[k].card = m[k].card
             /\ k \in {i, i + 1} => n[k].run = r
             /\ k \notin {i, i + 1} => n[k].run = m[k].run
  BY <1>4, RenumberedIs
<1>7. \A k \in 1 .. Len(m) : n[k].role = m[k].role /\ n[k].id = m[k].id /\ n[k].applied = m[k].applied
  BY <1>6
<1>8. Pairs(n)
  <2> SUFFICES ASSUME NEW k \in 1 .. Len(m), n[k].role = "assistant"
               PROVE  k > 1 /\ n[k - 1].role = "user" /\ n[k - 1].run = n[k].run
    BY <1>5 DEF Pairs
  <2>5. m[k].role = "assistant"
    BY <1>6
  <2>6. Pairs(m) /\ k \in DOMAIN m
    BY <1>3 DEF Transcript
  <2>1. k > 1 /\ m[k - 1].role = "user" /\ m[k - 1].run = m[k].run
    BY <2>5, <2>6 DEF Pairs
  <2>2. k # i /\ k - 1 # i + 1 /\ k - 1 \in 1 .. Len(m)
    BY <1>2, <1>3, <2>1, <2>5
  <2>3. /\ n[k - 1].role = "user"
        /\ k - 1 \in {i, i + 1} => n[k - 1].run = r
        /\ k - 1 \notin {i, i + 1} => n[k - 1].run = m[k - 1].run
        /\ k \in {i, i + 1} => n[k].run = r
        /\ k \notin {i, i + 1} => n[k].run = m[k].run
    BY <1>6, <2>1, <2>2
  <2>4. k - 1 = i \/ k # i + 1
    BY <1>2, <1>3
  <2> QED BY <1>3, <2>1, <2>2, <2>3, <2>4
<1>9. Unique(n)
  <2>1. Unique(m) /\ DOMAIN m = DOMAIN n /\ DOMAIN m = 1 .. Len(m)
    BY <1>3, <1>5 DEF Transcript
  <2> QED BY <1>7, <2>1, Zenon DEF Unique
<1>10. Authorised(n)
  <2> SUFFICES ASSUME NEW k \in 1 .. Len(m), n[k].card # NoCard
               PROVE  /\ n[k].role = "assistant" /\ n[k].card.source = n[k - 1].id
                      /\ n[k - 1].applied = n[k].id => n[k].card.status = "executed"
    BY <1>5 DEF Authorised
  <2>1. /\ m[k].role = "assistant" /\ m[k].card.source = m[k - 1].id
        /\ m[k - 1].applied = m[k].id => m[k].card.status = "executed"
    BY <1>3, <1>6 DEF Transcript, Authorised
  <2>2. k - 1 \in 1 .. Len(m)
    BY <1>3, <2>1 DEF Transcript, Pairs
  <2> QED BY <1>6, <2>1, <2>2
<1>11. Alike(m, n) /\ Marked(m, n)
  BY <1>3, <1>5, <1>7 DEF Alike, Marked
<1>12. From(m, n, r)
  BY <1>3, <1>5, <1>6 DEF From
<1>13. ASSUME NEW c \in Nat, r <= c, Numbered(m, c)
       PROVE  Numbered(n, c)
  <2>1. \A k \in 1 .. Len(m) : m[k].id \in 1 .. c /\ m[k].run \in 1 .. c /\ m[k].applied \in 0 .. c
    BY <1>3, <1>13 DEF Numbered
  <2>2. \A k \in 1 .. Len(m) : n[k].run \in {r, m[k].run}
    BY <1>6
  <2>4. r \in 1 .. c
    BY <1>13
  <2>3. \A k \in 1 .. Len(m) : n[k].run \in 1 .. c
    BY <2>1, <2>2, <2>4, Zenon
  <2> QED BY <1>5, <1>7, <2>1, <2>3 DEF Numbered
<1> QED BY <1>5, <1>8, <1>9, <1>10, <1>11, <1>12, <1>13 DEF Transcript
\* A question enters after the first k messages.
AskedAfter(m, k, u) == Append(SubSeq(m, 1, k), u)

LEMMA AskedTranscript ==
  ASSUME NEW m \in Seq(Messages), Transcript(m), NEW k \in 0 .. Len(m),
         NEW u \in Messages, u.role = "user", u.card = NoCard,
         \A i \in 1 .. k : m[i].role = "user" => m[i].id # u.id,
         NEW n, n = AskedAfter(m, k, u)
  PROVE  /\ n \in Seq(Messages) /\ Len(n) = k + 1 /\ n[k + 1] = u /\ \A i \in 1 .. k : n[i] = m[i]
         /\ Transcript(n) /\ LastUser(n) = k + 1
<1>1. /\ n \in Seq(Messages) /\ Len(n) = k + 1 /\ n[k + 1] = u /\ \A i \in 1 .. k : n[i] = m[i]
      /\ DOMAIN n = 1 .. k + 1 /\ DOMAIN m = 1 .. Len(m) /\ Len(m) \in Nat
  BY DEF AskedAfter
<1>2. ASSUME NEW i \in 1 .. k + 1, n[i].role = "assistant" \/ n[i].card # NoCard
      PROVE  i \in 1 .. k /\ n[i] = m[i]
  <2>1. i # k + 1
    BY <1>1, <1>2
  <2> QED BY <1>1, <2>1
<1>3. Pairs(n)
  <2> SUFFICES ASSUME NEW i \in 1 .. k + 1, n[i].role = "assistant"
               PROVE  i > 1 /\ n[i - 1].role = "user" /\ n[i - 1].run = n[i].run
    BY <1>1 DEF Pairs
  <2>1. i \in 1 .. k /\ n[i] = m[i]
    BY <1>2
  <2>4. i \in DOMAIN m /\ m[i].role = "assistant"
    BY <1>1, <2>1
  <2>2. i > 1 /\ m[i - 1].role = "user" /\ m[i - 1].run = m[i].run
    BY <2>4 DEF Transcript, Pairs
  <2>3. n[i - 1] = m[i - 1]
    BY <1>1, <2>1, <2>2
  <2> QED BY <2>1, <2>2, <2>3
<1>4. Unique(n)
  <2> SUFFICES ASSUME NEW i \in 1 .. k + 1, NEW j \in 1 .. k + 1,
                      n[i].role = n[j].role, n[i].id = n[j].id
               PROVE  i = j
    BY <1>1 DEF Unique
  <2>1. CASE i \in 1 .. k /\ j \in 1 .. k
    <3>1. n[i] = m[i] /\ n[j] = m[j] /\ i \in DOMAIN m /\ j \in DOMAIN m
      BY <1>1, <2>1
    <3> QED BY <3>1 DEF Transcript, Unique
  <2>2. CASE i = k + 1 /\ j \in 1 .. k
    BY <1>1, <2>2
  <2>3. CASE j = k + 1 /\ i \in 1 .. k
    BY <1>1, <2>3
  <2> QED BY <2>1, <2>2, <2>3
<1>5. Authorised(n)
  <2> SUFFICES ASSUME NEW i \in 1 .. k + 1, n[i].card # NoCard
               PROVE  /\ n[i].role = "assistant" /\ n[i].card.source = n[i - 1].id
                      /\ n[i - 1].applied = n[i].id => n[i].card.status = "executed"
    BY <1>1 DEF Authorised
  <2>1. i \in 1 .. k /\ n[i] = m[i]
    BY <1>2
  <2>2. /\ m[i].role = "assistant" /\ m[i].card.source = m[i - 1].id
        /\ m[i - 1].applied = m[i].id => m[i].card.status = "executed"
    BY <1>1, <2>1 DEF Transcript, Authorised
  <2>3. i > 1
    BY <1>1, <2>1, <2>2 DEF Transcript, Pairs
  <2>4. n[i - 1] = m[i - 1]
    BY <1>1, <2>1, <2>3
  <2> QED BY <2>1, <2>2, <2>4
<1>6. LastUser(n) = k + 1
  <2>1. PICK j : j = LastUser(n)
    OBVIOUS
  <2>2. IsLastUser(n, j)
    BY <1>1, <2>1, LastUserIs
  <2>3. j = k + 1
    BY <1>1, <2>2 DEF IsLastUser
  <2> QED BY <2>1, <2>3
<1> QED BY <1>1, <1>3, <1>4, <1>5, <1>6 DEF Transcript

\* The answer of the last question is added.
AnsweredBy(m, a) == Append(m, a)

LEMMA AnsweredTranscript ==
  ASSUME NEW m \in Seq(Messages), Transcript(m), Len(m) # 0, LastUser(m) = Len(m),
         NEW a \in Messages, a.role = "assistant", a.run = m[Len(m)].run,
         \A i \in 1 .. Len(m) : m[i].role = "assistant" => m[i].id # a.id,
         a.card # NoCard => a.card.source = m[Len(m)].id /\ m[Len(m)].applied # a.id,
         NEW n, n = AnsweredBy(m, a)
  PROVE  /\ n \in Seq(Messages) /\ Len(n) = Len(m) + 1 /\ n[Len(m) + 1] = a
         /\ \A i \in 1 .. Len(m) : n[i] = m[i]
         /\ Transcript(n) /\ LastUser(n) = Len(m)
<1> DEFINE k == Len(m)
<1>1. /\ n \in Seq(Messages) /\ Len(n) = k + 1 /\ n[k + 1] = a /\ \A i \in 1 .. k : n[i] = m[i]
      /\ DOMAIN n = 1 .. k + 1 /\ DOMAIN m = 1 .. k /\ k \in Nat
  BY DEF AnsweredBy
<1>2. m[k].role = "user" /\ k \in 1 .. k /\ LastUser(m) = k
  BY <1>1, LastUserIs DEF IsLastUser
<1>a. /\ a.run = m[k].run /\ (a.card # NoCard => a.card.source = m[k].id /\ m[k].applied # a.id)
      /\ \A i \in 1 .. k : m[i].role = "assistant" => m[i].id # a.id
  OBVIOUS
<1> HIDE DEF k
<1>3. Pairs(n)
  <2> SUFFICES ASSUME NEW i \in 1 .. k + 1, n[i].role = "assistant"
               PROVE  i > 1 /\ n[i - 1].role = "user" /\ n[i - 1].run = n[i].run
    BY <1>1 DEF Pairs
  <2>1. CASE i = k + 1
    BY <1>1, <1>2, <1>a, <2>1
  <2>2. CASE i \in 1 .. k
    <3>1. i > 1 /\ m[i - 1].role = "user" /\ m[i - 1].run = m[i].run
      BY <1>1, <2>2 DEF Transcript, Pairs
    <3> QED BY <1>1, <2>2, <3>1
  <2> QED BY <1>1, <2>1, <2>2
<1>4. Unique(n)
  <2> SUFFICES ASSUME NEW i \in 1 .. k + 1, NEW j \in 1 .. k + 1,
                      n[i].role = n[j].role, n[i].id = n[j].id
               PROVE  i = j
    BY <1>1 DEF Unique
  <2>1. CASE i \in 1 .. k /\ j \in 1 .. k
    <3>1. n[i] = m[i] /\ n[j] = m[j] /\ i \in DOMAIN m /\ j \in DOMAIN m
      BY <1>1, <2>1
    <3> QED BY <3>1 DEF Transcript, Unique
  <2>2. CASE i = k + 1 /\ j \in 1 .. k
    BY <1>1, <1>a, <2>2
  <2>3. CASE j = k + 1 /\ i \in 1 .. k
    BY <1>1, <1>a, <2>3
  <2> QED BY <1>1, <2>1, <2>2, <2>3
<1>5. Authorised(n)
  <2> SUFFICES ASSUME NEW i \in 1 .. k + 1, n[i].card # NoCard
               PROVE  /\ n[i].role = "assistant" /\ n[i].card.source = n[i - 1].id
                      /\ n[i - 1].applied = n[i].id => n[i].card.status = "executed"
    BY <1>1 DEF Authorised
  <2>1. CASE i = k + 1
    BY <1>1, <1>2, <1>a, <2>1
  <2>2. CASE i \in 1 .. k
    <3>1. /\ m[i].role = "assistant" /\ m[i].card.source = m[i - 1].id
          /\ m[i - 1].applied = m[i].id => m[i].card.status = "executed"
      BY <1>1, <2>2 DEF Transcript, Authorised
    <3>2. i > 1
      BY <1>1, <2>2, <3>1 DEF Transcript, Pairs
    <3>3. n[i] = m[i] /\ n[i - 1] = m[i - 1]
      BY <1>1, <2>2, <3>2
    <3> QED BY <3>1, <3>3
  <2>3. k \in Nat /\ i \in 1 .. k + 1 => i = k + 1 \/ i \in 1 .. k
    OBVIOUS
  <2> QED BY <1>1, <2>1, <2>2, <2>3, Zenon
<1>6. LastUser(n) = k
  <2>1. PICK j : j = LastUser(n)
    OBVIOUS
  <2>2. IsLastUser(n, j)
    BY <1>1, <2>1, LastUserIs
  <2>3. j = k
    BY <1>1, <1>2, <2>2 DEF IsLastUser
  <2> QED BY <2>1, <2>3
<1> QED BY <1>1, <1>3, <1>4, <1>5, <1>6 DEF Transcript, k

LEMMA ExpiredTouches ==
  ASSUME NEW m \in Seq(Messages), NEW study
  PROVE  Touched(m, Expired(m, study))
<1>1. PICK n : n = Expired(m, study)
  OBVIOUS
<1>2. /\ DOMAIN n = DOMAIN m
      /\ \A i \in DOMAIN m : n[i] = IF m[i].card # NoCard /\ Superseded(m[i].card, study)
                                     THEN [m[i] EXCEPT !.card = [m[i].card EXCEPT !.status = "expired"]] ELSE m[i]
      /\ n = [i \in DOMAIN m |-> n[i]]
  BY <1>1, Zenon DEF Expired
<1>3. ASSUME NEW i \in 1 .. Len(m)
      PROVE  n[i] \in Messages /\ SameMessage(m[i], n[i])
  <2>4. i \in DOMAIN m /\ m[i] \in Messages
    OBVIOUS
  <2>1. i \in DOMAIN m /\ m[i] \in Messages /\ m[i].card \in Cards
    BY <2>4 DEF Messages
  <2>2. CASE m[i].card # NoCard /\ Superseded(m[i].card, study)
    <3>1. PICK c : c = [m[i].card EXCEPT !.status = "expired"]
      OBVIOUS
    <3>2. n[i] = [m[i] EXCEPT !.card = c]
      BY <1>2, <2>1, <2>2, <3>1, Zenon
    <3>3. c \in Cards /\ c.source = m[i].card.source
      BY <2>1, <3>1 DEF Cards
    <3>4. m[i].card.status # "executed"
      BY <2>2 DEF Superseded
    <3> QED BY <2>1, <2>2, <3>2, <3>3, <3>4 DEF Messages, SameMessage
  <2>3. CASE ~(m[i].card # NoCard /\ Superseded(m[i].card, study))
    <3>1. n[i] = m[i]
      BY <1>2, <2>1, <2>3, Zenon
    <3> QED BY <2>1, <3>1 DEF SameMessage
  <2> QED BY <2>2, <2>3
<1>4. n \in Seq(Messages) /\ Len(n) = Len(m)
  <2>1. n = [i \in 1 .. Len(m) |-> n[i]]
    <3>1. DOMAIN m = 1 .. Len(m)
      OBVIOUS
    <3> QED BY <1>2, <3>1, Zenon
  <2> QED BY <1>3, <2>1
<1> QED BY <1>1, <1>3, <1>4 DEF Touched

\* An action is executed: its card p says so, and its message is marked.
Acted(m, n, p) ==
  /\ n \in Seq(Messages) /\ Len(n) = Len(m)
  /\ \A i \in 1 .. Len(m) :
       /\ n[i].role = m[i].role /\ n[i].id = m[i].id /\ n[i].run = m[i].run
       /\ i # p => n[i].card = m[i].card
       /\ i # p - 1 => n[i].applied = m[i].applied
  /\ n[p].card.source = m[p].card.source /\ n[p].card.status = "executed"
  /\ n[p - 1].applied = m[p].id

LEMMA ActedTranscript ==
  ASSUME NEW m \in Seq(Messages), Transcript(m), NEW p \in 1 .. Len(m), m[p].role = "assistant",
         m[p].card # NoCard, NEW n, Acted(m, n, p), NEW c \in Nat, Numbered(m, c)
  PROVE  /\ Transcript(n) /\ Alike(m, n) /\ Marked(m, n) /\ (\A r : From(m, n, r)) /\ Numbered(n, c)
         /\ p - 1 \in 1 .. Len(m) /\ n[p - 1].applied # 0
<1>1. Len(m) \in Nat /\ DOMAIN m = 1 .. Len(m) /\ DOMAIN n = 1 .. Len(m)
  BY DEF Acted
<1>2. p > 1 /\ m[p - 1].role = "user" /\ p - 1 \in 1 .. Len(m)
  <2>1. p > 1 /\ m[p - 1].role = "user"
    BY <1>1 DEF Transcript, Pairs
  <2> QED BY <1>1, <2>1
<1>3. /\ \A i \in 1 .. Len(m) : n[i].role = m[i].role /\ n[i].id = m[i].id /\ n[i].run = m[i].run
      /\ \A i \in 1 .. Len(m) : i # p => n[i].card = m[i].card
      /\ \A i \in 1 .. Len(m) : i # p - 1 => n[i].applied = m[i].applied
      /\ n[p].card.source = m[p].card.source /\ n[p].card.status = "executed"
      /\ n[p - 1].applied = m[p].id
  BY DEF Acted
<1>4. Pairs(n)
  <2> SUFFICES ASSUME NEW i \in 1 .. Len(m), n[i].role = "assistant"
               PROVE  i > 1 /\ n[i - 1].role = "user" /\ n[i - 1].run = n[i].run
    BY <1>1 DEF Pairs
  <2>1. i > 1 /\ m[i - 1].role = "user" /\ m[i - 1].run = m[i].run
    BY <1>1, <1>3 DEF Transcript, Pairs
  <2>2. i - 1 \in 1 .. Len(m)
    BY <1>1, <2>1
  <2> QED BY <1>3, <2>1, <2>2
<1>5. Unique(n)
  BY <1>1, <1>3 DEF Transcript, Unique
<1>6. Authorised(n)
  <2> SUFFICES ASSUME NEW i \in 1 .. Len(m), n[i].card # NoCard
               PROVE  /\ n[i].role = "assistant" /\ n[i].card.source = n[i - 1].id
                      /\ n[i - 1].applied = n[i].id => n[i].card.status = "executed"
    BY <1>1 DEF Authorised
  <2>1. m[i].card # NoCard
    BY <1>3
  <2>2. /\ m[i].role = "assistant" /\ m[i].card.source = m[i - 1].id
        /\ m[i - 1].applied = m[i].id => m[i].card.status = "executed"
    BY <1>1, <2>1 DEF Transcript, Authorised
  <2>3. i - 1 \in 1 .. Len(m)
    BY <1>1, <2>2 DEF Transcript, Pairs
  <2>4. CASE i = p
    BY <1>3, <2>2, <2>3, <2>4
  <2>5. CASE i # p
    <3>1. n[i].card = m[i].card /\ n[i - 1].applied = m[i - 1].applied
      BY <1>1, <1>3, <2>3, <2>5
    <3> QED BY <1>3, <2>2, <2>3, <3>1
  <2> QED BY <2>4, <2>5
<1>7. m[p].id \in 1 .. c
  BY <1>1 DEF Numbered
<1>8. Alike(m, n)
  BY <1>1, <1>3 DEF Alike
<1>9. \A i \in 1 .. Len(m) : m[i].applied # 0 => n[i].applied # 0
  BY <1>3, <1>7
<1>10. Marked(m, n)
  BY <1>1, <1>3, <1>9 DEF Marked
<1>11. \A r : From(m, n, r)
  BY <1>1, <1>3 DEF From
<1>12. Numbered(n, c)
  <2>1. \A i \in 1 .. Len(m) : m[i].id \in 1 .. c /\ m[i].run \in 1 .. c /\ m[i].applied \in 0 .. c
    BY <1>1 DEF Numbered
  <2>2. \A i \in 1 .. Len(m) : n[i].applied \in {m[i].applied, m[p].id}
    BY <1>3
  <2>3. m[p].id \in 0 .. c
    BY <1>7
  <2>4. \A i \in 1 .. Len(m) : n[i].applied \in 0 .. c
    BY <2>1, <2>2, <2>3, Zenon
  <2> QED BY <1>1, <1>3, <2>1, <2>4 DEF Numbered
<1> QED BY <1>2, <1>3, <1>4, <1>5, <1>6, <1>7, <1>8, <1>10, <1>11, <1>12 DEF Transcript

-----------------------------------------------------------------------------
(* Branches: what a transcript shows, and where an edited turn is cut.     *)

\* Every answer in the branch is one of the first n messages.
KnownBefore(branch, msgs, n) ==
  \A i \in DOMAIN branch : branch[i][1] = "answer" =>
    \E j \in 1 .. n : msgs[j].role = "assistant" /\ msgs[j].id = branch[i][2]

LEMMA BudgetIs ==
  ASSUME RecordTypes
  PROVE  budget.snapshots \in Nat /\ budget.messages \in Nat /\ budget.runs \in Nat
<1>1. budget \in [runs : Nat, messages : Nat, snapshots : Nat \ {0}, faults : Nat]
  BY TurnsAssumption DEF RecordTypes
<1> QED BY <1>1

LEMMA MarksAre ==
  ASSUME NEW id \in Nat
  PROVE  /\ AnswerMark(id) \in Marks /\ AnswerMark(id)[1] = "answer" /\ AnswerMark(id)[2] = id
         /\ TurnMark(id) \in Marks /\ TurnMark(id)[1] = "turn" /\ TurnMark(id)[2] = id
BY DEF AnswerMark, TurnMark, Marks

LEMMA VisibleIs ==
  ASSUME NEW msgs \in Seq(Messages)
  PROVE  Visible(msgs) \in Seq(Marks) /\ KnownBefore(Visible(msgs), msgs, Len(msgs))
         /\ \A i \in DOMAIN Visible(msgs) : Visible(msgs)[i][1] = "answer"
<1> DEFINE answers == {i \in DOMAIN msgs : msgs[i].role = "assistant" /\ msgs[i].ok}
           n == Cardinality(answers)
           inOrder == CHOOSE s \in [1 .. n -> answers] : \A i, k \in DOMAIN s : i < k => s[i] < s[k]
<1>1. DOMAIN msgs = 1 .. Len(msgs) /\ Len(msgs) \in Nat
  OBVIOUS
<1>2. answers \in SUBSET Nat /\ IsFiniteSet(answers)
  <2>1. IsFiniteSet(1 .. Len(msgs))
    BY <1>1, FS_Interval
  <2>2. answers \in SUBSET (1 .. Len(msgs))
    BY <1>1
  <2> QED BY <2>1, <2>2, FS_Subset
<1>3. n \in Nat /\ \E s : InOrder(s, answers, n)
  <2> HIDE DEF answers
  <2> QED BY <1>2, FS_CardinalityType, OrderExists
<1>4. inOrder \in [1 .. n -> answers]
  <2>1. PICK s : InOrder(s, answers, n)
    BY <1>3
  <2>2. s \in [1 .. n -> answers] /\ \A i, k \in DOMAIN s : i < k => s[i] < s[k]
    <3> HIDE DEF answers, n
    <3> QED BY <2>1 DEF InOrder
  <2>3. \E t \in [1 .. n -> answers] : \A i, k \in DOMAIN t : i < k => t[i] < t[k]
    BY <2>2
  <2> HIDE DEF answers, n
  <2> QED BY <2>3
<1>5. Visible(msgs) = [i \in DOMAIN inOrder |-> AnswerMark(msgs[inOrder[i]].id)]
  BY Zenon DEF Visible
<1>6. \A i \in 1 .. n : inOrder[i] \in 1 .. Len(msgs) /\ msgs[inOrder[i]].role = "assistant"
  <2>1. \A x \in answers : x \in 1 .. Len(msgs) /\ msgs[x].role = "assistant"
    BY <1>1
  <2> HIDE DEF answers, n, inOrder
  <2> QED BY <1>4, <2>1
<1>7. PICK v : v = Visible(msgs)
  OBVIOUS
<1>8. DOMAIN v = 1 .. n /\ v = [i \in 1 .. n |-> v[i]] /\ \A i \in 1 .. n : v[i] = AnswerMark(msgs[inOrder[i]].id)
  <2>1. v = [i \in 1 .. n |-> AnswerMark(msgs[inOrder[i]].id)]
    <3>1. DOMAIN inOrder = 1 .. n
      <4> HIDE DEF inOrder, n, answers
      <4> QED BY <1>4
    <3> HIDE DEF inOrder, n, answers
    <3> QED BY <1>5, <1>7, <3>1, Zenon
  <2> HIDE DEF inOrder, n, answers
  <2> QED BY <2>1, Zenon
<1> HIDE DEF inOrder, n, answers
<1>9. \A i \in 1 .. n : msgs[inOrder[i]].id \in Nat
  <2>1. \A x \in 1 .. Len(msgs) : msgs[x].id \in Nat
    <3>1. \A x \in 1 .. Len(msgs) : msgs[x] \in Messages
      OBVIOUS
    <3> QED BY <3>1 DEF Messages
  <2> QED BY <1>6, <2>1
<1>11. \A i \in 1 .. n : v[i] \in Marks /\ v[i][1] = "answer" /\ v[i][2] = msgs[inOrder[i]].id
  <2> SUFFICES ASSUME NEW i \in 1 .. n
               PROVE  v[i] \in Marks /\ v[i][1] = "answer" /\ v[i][2] = msgs[inOrder[i]].id
    OBVIOUS
  <2>1. PICK id \in Nat : id = msgs[inOrder[i]].id
    BY <1>9
  <2>2. v[i] = AnswerMark(id)
    BY <1>8, <2>1
  <2> QED BY <2>1, <2>2, MarksAre
<1>12. v \in Seq(Marks)
  BY <1>3, <1>8, <1>11
<1>13. KnownBefore(v, msgs, Len(msgs))
  BY <1>6, <1>8, <1>11 DEF KnownBefore
<1> QED BY <1>7, <1>8, <1>11, <1>12, <1>13

\* The message that an edit names is the last question, in the row and in the copy.
LEMMA EditedIs ==
  ASSUME RecordTypes, Transcript(row.msgs), NEW l \in Lanes, Stands(l), chat = l,
         lane[l].pc \in {"prepare", "begin"}, lane[l].edits
  PROVE  /\ LastUser(row.msgs) \in 1 .. Len(row.msgs)
         /\ row.msgs[LastUser(row.msgs)].role = "user" /\ row.msgs[LastUser(row.msgs)].id = lane[l].user.id
         /\ At(row.msgs, "user", lane[l].user.id) = LastUser(row.msgs)
         /\ lane[l].pc = "prepare" =>
              /\ lane[l].read.msgs \in Seq(Messages) /\ Alike(lane[l].read.msgs, row.msgs)
              /\ At(lane[l].read.msgs, "user", lane[l].user.id) = LastUser(row.msgs)
<1>1. PICK m : m = row.msgs
  OBVIOUS
<1>2. PICK k : k = LastUser(m)
  OBVIOUS
<1>3. m \in Seq(Messages) /\ IsLastUser(m, k)
  BY <1>1, <1>2, LastUserIs DEF RecordTypes, Rows
<1>4. k # 0 /\ m[k].id = lane[l].user.id
  BY <1>1, <1>2 DEF Stands, EditsLast
<1>5. k \in 1 .. Len(m) /\ m[k].role = "user" /\ DOMAIN m = 1 .. Len(m)
  BY <1>3, <1>4 DEF IsLastUser
<1>6. ASSUME NEW n \in Seq(Messages), Alike(n, m)
      PROVE  At(n, "user", lane[l].user.id) = k
  <2>1. PICK a : a = At(n, "user", lane[l].user.id)
    OBVIOUS
  <2>2. IsAt(n, "user", lane[l].user.id, a)
    BY <2>1, AtIs
  <2>3. DOMAIN n = 1 .. Len(m) /\ Len(n) = Len(m) /\ \A i \in 1 .. Len(m) : n[i].role = m[i].role /\ n[i].id = m[i].id
    BY <1>3, <1>5, <1>6 DEF Alike
  <2>4. a \in 1 .. Len(m)
    BY <1>4, <1>5, <2>2, <2>3 DEF IsAt
  <2>5. a = k
    BY <1>1, <1>4, <1>5, <2>2, <2>3, <2>4 DEF IsAt, Transcript, Unique
  <2> QED BY <2>1, <2>5
<1>7. At(m, "user", lane[l].user.id) = k
  <2>1. Alike(m, m)
    BY <1>3 DEF Alike
  <2> QED BY <1>3, <1>6, <2>1
<1>8. ASSUME lane[l].pc = "prepare"
      PROVE  lane[l].read.msgs \in Seq(Messages) /\ Alike(lane[l].read.msgs, m)
  <2>1. lane[l] \in Turns
    BY <1>8, LaneKinds DEF TurnStages
  <2> QED BY <1>1, <1>8, <2>1 DEF Turns, Rows, Stands
<1> QED BY <1>1, <1>2, <1>4, <1>5, <1>6, <1>7, <1>8

\* The branch that a turn goes on from.
Onto(l) == IF lane[l].edits THEN Cut(Branch(l), l) ELSE Branch(l)

LEMMA CutIs ==
  ASSUME RecordTypes, Transcript(row.msgs), NEW l \in Lanes, Stands(l), chat = l,
         lane[l].pc = "prepare", lane[l].edits, Branch(l) \in Seq(Marks)
  PROVE  /\ Cut(Branch(l), l) \in Seq(Marks)
         /\ \/ \E i \in DOMAIN Branch(l) :
                 /\ Branch(l)[i] = TurnMark(lane[l].user.id)
                 /\ \A j \in DOMAIN Branch(l) : Branch(l)[j] = TurnMark(lane[l].user.id) => j <= i
                 /\ Cut(Branch(l), l) = SubSeq(Branch(l), 1, i - 1)
            \/ KnownBefore(Cut(Branch(l), l), row.msgs, LastUser(row.msgs) - 1)
<1>1. PICK b \in Seq(Marks) : b = Branch(l)
  OBVIOUS
<1>2. PICK mark : mark = TurnMark(lane[l].user.id)
  OBVIOUS
<1> DEFINE I == {i \in 1 .. Len(b) : b[i] = mark}
           i == IF I # {} THEN CHOOSE x \in I : \A y \in I : x >= y ELSE 0
<1>3. PICK k : k = LastUser(row.msgs)
  OBVIOUS
<1>4. PICK m : m = lane[l].read.msgs
  OBVIOUS
<1>5. /\ m \in Seq(Messages) /\ At(m, "user", lane[l].user.id) = k /\ Alike(m, row.msgs)
      /\ k \in 1 .. Len(row.msgs)
  BY <1>3, <1>4, EditedIs
<1>6. Cut(b, l) = IF i # 0 THEN SubSeq(b, 1, i - 1) ELSE Visible(SubSeq(m, 1, k - 1))
  <2>1. SelectLastInSeq(b, LAMBDA e : e = mark) = i
    BY DEF SelectLastInSeq, Max
  <2>2. Cut(b, l) = IF SelectLastInSeq(b, LAMBDA e : e = mark) # 0
                    THEN SubSeq(b, 1, SelectLastInSeq(b, LAMBDA e : e = mark) - 1)
                    ELSE Visible(SubSeq(m, 1, At(m, "user", lane[l].user.id) - 1))
    BY <1>2, <1>4 DEF Cut
  <2> HIDE DEF i
  <2> QED BY <1>5, <2>1, <2>2
<1>7. i # 0 => i \in I /\ \A y \in I : i >= y
  <2>1. I \in SUBSET (0 .. Len(b)) /\ Len(b) \in Nat
    OBVIOUS
  <2>2. I # {} => \E x \in I : \A y \in I : x >= y
    <3> HIDE DEF I
    <3> QED BY <2>1, LargestMember
  <2> HIDE DEF I
  <2> QED BY <2>2
<1>8. CASE i # 0
  <2>1. i \in 1 .. Len(b) /\ b[i] = mark /\ \A j \in 1 .. Len(b) : b[j] = mark => j <= i
    <3>1. i \in I /\ \A y \in I : i >= y
      BY <1>7, <1>8
    <3>2. \A j \in 1 .. Len(b) : b[j] = mark => j \in I
      OBVIOUS
    <3>3. i \in 1 .. Len(b) /\ b[i] = mark
      <4> HIDE DEF i
      <4> QED BY <3>1
    <3> HIDE DEF i, I
    <3> QED BY <3>1, <3>2, <3>3
  <2>2. PICK x \in 1 .. Len(b) : x = i
    <3> HIDE DEF i
    <3> QED BY <2>1
  <2>3. b[x] = mark /\ \A j \in 1 .. Len(b) : b[j] = mark => j <= x
    <3> HIDE DEF i, I
    <3> QED BY <2>1, <2>2, Zenon
  <2>4. Cut(b, l) = SubSeq(b, 1, x - 1)
    <3> HIDE DEF i, I
    <3> QED BY <1>6, <1>8, <2>2, Zenon
  <2>5. SubSeq(b, 1, x - 1) \in Seq(Marks)
    <3> HIDE DEF i, I
    <3> QED BY <2>2
  <2>6. DOMAIN b = 1 .. Len(b)
    OBVIOUS
  <2> HIDE DEF i, I
  <2> QED BY <1>1, <1>2, <2>3, <2>4, <2>5, <2>6, Zenon
<1>9. CASE i = 0
  <2> HIDE DEF i
  <2>1. PICK n : n = SubSeq(m, 1, k - 1)
    OBVIOUS
  <2>2. /\ Len(m) = Len(row.msgs) /\ row.msgs \in Seq(Messages)
        /\ \A j \in 1 .. Len(m) : m[j].role = row.msgs[j].role /\ m[j].id = row.msgs[j].id
    BY <1>5 DEF Alike, RecordTypes, Rows
  <2>3. n \in Seq(Messages) /\ Len(n) = k - 1 /\ \A j \in 1 .. k - 1 : n[j] = m[j]
    BY <1>5, <2>1, <2>2
  <2>4. PICK v : v = Visible(n)
    OBVIOUS
  <2>5. v \in Seq(Marks) /\ KnownBefore(v, n, k - 1)
    BY <2>3, <2>4, VisibleIs
  <2>6. \A j \in 1 .. k - 1 : n[j].role = row.msgs[j].role /\ n[j].id = row.msgs[j].id
    <3> SUFFICES ASSUME NEW j \in 1 .. k - 1
                 PROVE  n[j].role = row.msgs[j].role /\ n[j].id = row.msgs[j].id
      OBVIOUS
    <3>1. j \in 1 .. Len(m) /\ n[j] = m[j]
      BY <1>5, <2>2, <2>3
    <3> QED BY <2>2, <3>1
  <2>7. KnownBefore(v, row.msgs, k - 1)
    BY <2>5, <2>6 DEF KnownBefore
  <2> QED BY <1>1, <1>3, <1>6, <1>9, <2>1, <2>4, <2>5, <2>7
<1> QED BY <1>8, <1>9

LEMMA PrepareIs ==
  ASSUME RecordTypes, Transcript(row.msgs), NEW l \in Lanes, Stands(l), Opened(l), Prepare(l)
  PROVE  /\ Branch(l) \in Seq(Marks) /\ Onto(l) \in Seq(Marks) /\ lane[l].read.snap \in DOMAIN branches
         /\ branches' = [branches EXCEPT ![lane[l].read.snap] = Append(Onto(l), TurnMark(lane[l].user.id))]
         /\ lane' \in [Lanes -> LaneTypes] /\ OthersStay(l) /\ TurnMoves(l, "begin")
         /\ lane'[l].leaf = Branch(l)
         /\ lane[l].pc = "prepare" /\ chat = l /\ chat' = l /\ session' = l /\ session = None /\ runs' = runs
<1>1. lane[l] \in Turns /\ lane[l].pc = "prepare" /\ Turn(l)
  BY LaneKinds DEF Prepare, Is, TurnStages, Turn
<1>2. PICK x : x = [lane[l] EXCEPT !.pc = "begin", !.leaf = Branch(l)]
  OBVIOUS
<1>3. lane[l].read.snap \in DOMAIN branches
  <2>1. lane[l].read.snap \in 1 .. row.snap /\ row.snap \in 1 .. budget.snapshots
    BY <1>1 DEF Opened, RecordTypes
  <2>2. DOMAIN branches = 1 .. budget.snapshots
    BY DEF RecordTypes
  <2> QED BY <2>1, <2>2, BudgetIs
<1>4. Branch(l) \in Seq(Marks)
  BY <1>3 DEF Branch, RecordTypes
<1>5. x \in Turns /\ x.pc = "begin" /\ x.run = lane[l].run /\ x.edits = lane[l].edits /\ x.read = lane[l].read
      /\ x.user = lane[l].user /\ x.leaf = Branch(l)
  BY <1>1, <1>2, <1>4 DEF Turns, TurnStages
<1>6. lane' = [lane EXCEPT ![l] = x] /\ chat = l /\ chat' = l /\ session' = l /\ session = None /\ runs' = runs
  BY <1>2 DEF Prepare, Is
<1>7. lane' \in [Lanes -> LaneTypes] /\ OthersStay(l) /\ lane'[l] = x
  BY <1>5, <1>6, LaneSet DEF LaneTypes
<1>8. Onto(l) \in Seq(Marks)
  BY <1>1, <1>4, <1>6, CutIs DEF Onto
<1>9. branches' = [branches EXCEPT ![lane[l].read.snap] = Append(Onto(l), TurnMark(lane[l].user.id))]
  BY DEF Prepare, Onto
<1> QED BY <1>1, <1>3, <1>4, <1>5, <1>6, <1>7, <1>8, <1>9 DEF TurnMoves

LEMMA AnswerIs ==
  ASSUME RecordTypes, NEW l \in Lanes, Asks(l), Answer(l)
  PROVE  /\ lane' \in [Lanes -> LaneTypes] /\ OthersStay(l) /\ TurnMoves(l, "saving") /\ Judged(l)'
         /\ lane[l].pc = "running" /\ chat' = chat /\ session' = session /\ runs' = runs
         /\ row' = row /\ branches' = branches
<1>1. lane[l] \in Turns /\ lane[l].pc = "running"
  BY LaneKinds DEF Answer, Is, TurnStages
<1>2. PICK study : study = lane[l].read.study
  OBVIOUS
<1>3. study \in Studies /\ lane[l].run \in Nat /\ lane[l].user \in Messages
  BY <1>1, <1>2 DEF Turns, Rows
<1>4. PICK passed : passed = [study EXCEPT !.pass = lane[l].run]
  OBVIOUS
<1>5. passed \in Studies
  BY <1>3, <1>4 DEF Studies
<1>6. PICK result : /\ Answers(l, result)
                    /\ result \in Results /\ result.study \in {study, passed}
                    /\ result.card # NoCard => result.card.source = lane[l].user.id
  <2>1. ASSUME NEW s \in {study, passed}, NEW kind \in Proposals(l, s),
               NEW r, r = [ok |-> TRUE, study |-> s, card |-> IF kind = "none" THEN NoCard ELSE Card(kind, s, lane[l].user.id)]
        PROVE  r \in Results /\ r.study \in {study, passed} /\ (r.card # NoCard => r.card.source = lane[l].user.id)
    <3>1. kind \in {"none", "route", "advance"}
      BY <2>1 DEF Proposals
    <3>2. PICK c : c = IF kind = "none" THEN NoCard ELSE Card(kind, s, lane[l].user.id)
      OBVIOUS
    <3>3. s \in Studies /\ lane[l].user.id \in Nat
      BY <1>3, <1>5 DEF Messages
    <3>4. Card(kind, s, lane[l].user.id) \in Cards /\ Card(kind, s, lane[l].user.id).source = lane[l].user.id
      BY <3>1, <3>3 DEF Card, Cards, Studies
    <3>5. c \in Cards /\ (c # NoCard => c.source = lane[l].user.id)
      BY <3>2, <3>4, NoCardIs
    <3>6. r = [ok |-> TRUE, study |-> s, card |-> c]
      BY <2>1, <3>2
    <3> QED BY <3>3, <3>5, <3>6 DEF Results
  <2>2. ASSUME NEW r, r = [ok |-> FALSE, study |-> study, card |-> NoCard]
        PROVE  r \in Results /\ r.study \in {study, passed} /\ (r.card # NoCard => r.card.source = lane[l].user.id)
    BY <1>3, <2>2, NoCardIs DEF Results
  <2>3. CASE \E passes \in {FALSE} \cup {lane[l].read.study.step < lane[l].read.study.total} :
               LET s == IF passes THEN [lane[l].read.study EXCEPT !.pass = lane[l].run] ELSE lane[l].read.study
               IN \E kind \in Proposals(l, s) :
                    Answers(l, [ok |-> TRUE, study |-> s,
                                card |-> IF kind = "none" THEN NoCard ELSE Card(kind, s, lane[l].user.id)])
    <3>1. \E s \in {study, passed} : \E kind \in Proposals(l, s) :
            Answers(l, [ok |-> TRUE, study |-> s,
                        card |-> IF kind = "none" THEN NoCard ELSE Card(kind, s, lane[l].user.id)])
      BY <1>2, <1>4, <2>3, Zenon
    <3> QED BY <2>1, <3>1
  <2>4. CASE Answers(l, [ok |-> FALSE, study |-> lane[l].read.study, card |-> NoCard])
    BY <1>2, <2>2, <2>4
  <2> QED BY <2>3, <2>4, Zenon DEF Answer
<1>7. PICK x : x = [lane[l] EXCEPT !.pc = "saving", !.result = result]
  OBVIOUS
<1>8. x \in Turns /\ x.pc = "saving" /\ x.run = lane[l].run /\ x.edits = lane[l].edits /\ x.read = lane[l].read
      /\ x.user = lane[l].user /\ x.result = result
  BY <1>1, <1>6, <1>7 DEF Turns, TurnStages
<1>9. lane' \in [Lanes -> LaneTypes] /\ OthersStay(l) /\ lane'[l] = x
  <2>1. lane' = [lane EXCEPT ![l] = x]
    BY <1>6, <1>7 DEF Answers
  <2> QED BY <1>8, <2>1, LaneSet DEF LaneTypes
<1>10. Judged(l)'
  <2>1. passed = [lane[l].read.study EXCEPT !.pass = lane[l].run] /\ study = lane[l].read.study
    BY <1>2, <1>4
  <2>2. /\ lane'[l].result = result /\ lane'[l].read = lane[l].read /\ lane'[l].run = lane[l].run
        /\ lane'[l].user = lane[l].user
    BY <1>8, <1>9
  <2> QED BY <1>6, <2>1, <2>2 DEF Judged
<1>11. chat' = chat /\ session' = session /\ runs' = runs /\ row' = row /\ branches' = branches
  BY DEF Answer, stores
<1> QED BY <1>1, <1>8, <1>9, <1>10, <1>11 DEF TurnMoves

-----------------------------------------------------------------------------
(* Control: the lane of a step, the permits and the numbers of requests.   *)

Holders == Lanes \cup {None, Gone}

\* What a step of l may do to the lanes and the permits.
Control(l) ==
  /\ lane' \in [Lanes -> LaneTypes] /\ OthersStay(l)
  /\ chat' \in Holders /\ session' \in Holders /\ runs' \in Nat
  /\ \A o \in Lanes \ {l} : (chat' = o => chat = o) /\ (session' = o => session = o)
  /\ \A o \in Lanes \ {l} : chat = o => chat' = o
  /\ lane'[l].pc \in Holding => chat' = l
  /\ session' = l => chat' = l /\ TurnOpen(l)'
  /\ \/ runs' = runs /\ (lane'[l].pc # "idle" => lane[l].pc # "idle" /\ lane'[l].run = lane[l].run)
     \/ runs' = runs + 1 /\ lane'[l].run = runs + 1

LEMMA ControlKeeps ==
  ASSUME RecordTypes, Permits, Requests, NEW l \in Lanes, Control(l)
  PROVE  Permits' /\ Requests'
<1>1. \A o \in Lanes \ {l} : lane'[o] = lane[o]
  BY DEF Control, OthersStay
<1>2. Permits'
  <2> SUFFICES ASSUME NEW o \in Lanes
               PROVE  /\ session' = o => chat' = o /\ TurnOpen(o)'
                      /\ lane'[o].pc \in Holding => chat' = o
    BY DEF Permits
  <2>1. CASE o = l
    BY <2>1 DEF Control
  <2>2. CASE o # l
    BY <1>1, <2>2 DEF Control, Permits, TurnOpen
  <2> QED BY <2>1, <2>2
<1>3. runs \in Nat
  BY DEF RecordTypes
<1>4. ASSUME NEW o \in Lanes, lane'[o].pc # "idle"
      PROVE  /\ lane'[o].run \in 1 .. runs'
             /\ o # l => lane'[o].run \in 1 .. runs /\ lane[o].pc # "idle" /\ lane'[o].run = lane[o].run
             /\ o = l /\ runs' = runs => lane[o].pc # "idle" /\ lane'[o].run = lane[o].run
             /\ o = l /\ runs' # runs => lane'[o].run = runs + 1
  <2>1. CASE o # l
    <3>1. lane[o].pc # "idle" /\ lane'[o].run = lane[o].run /\ lane[o].run \in 1 .. runs
      BY <1>1, <1>4, <2>1 DEF Requests, Is
    <3> QED BY <1>3, <2>1, <3>1 DEF Control
  <2>2. CASE o = l
    BY <1>3, <1>4, <2>2 DEF Control, Requests, Is
  <2> QED BY <2>1, <2>2
<1>5. ASSUME NEW o \in Lanes, NEW k \in Lanes, lane'[o].pc # "idle", lane'[k].pc # "idle",
             lane'[o].run = lane'[k].run, o # k
      PROVE  FALSE
  <2>1. CASE runs' = runs
    <3>1. lane[o].pc # "idle" /\ lane'[o].run = lane[o].run /\ lane[k].pc # "idle" /\ lane'[k].run = lane[k].run
      BY <1>4, <1>5, <2>1
    <3> QED BY <1>5, <3>1 DEF Requests, Is
  <2>2. CASE runs' # runs /\ o # l /\ k # l
    <3>1. lane[o].pc # "idle" /\ lane'[o].run = lane[o].run /\ lane[k].pc # "idle" /\ lane'[k].run = lane[k].run
      BY <1>4, <1>5, <2>2
    <3> QED BY <1>5, <3>1 DEF Requests, Is
  <2>3. CASE runs' # runs /\ (o = l \/ k = l)
    <3>1. /\ o = l => lane'[o].run = runs + 1 /\ lane'[k].run \in 1 .. runs
          /\ k = l => lane'[k].run = runs + 1 /\ lane'[o].run \in 1 .. runs
      BY <1>4, <1>5, <2>3
    <3> QED BY <1>3, <1>5, <2>3, <3>1
  <2> QED BY <2>1, <2>2, <2>3
<1>6. Requests'
  BY <1>4, <1>5 DEF Requests, Is
<1> QED BY <1>2, <1>6

\* The lane is given up, and with it the permits it held.
LetGo(l) ==
  /\ chat' \in {chat, None, Gone} /\ chat' # l /\ (chat # l => chat' = chat)
  /\ session' \in {session, None, Gone} /\ session' # l /\ (session # l => session' = session)

LEMMA ReleasedLetsGo ==
  ASSUME RecordTypes, NEW l \in Lanes, Released(l)
  PROVE  LetGo(l)
BY TurnsAssumption DEF RecordTypes, Released, LetGo

LEMMA EndsControl ==
  ASSUME RecordTypes, NEW l \in Lanes, lane' = [lane EXCEPT ![l] = Idle], LetGo(l), runs' = runs
  PROVE  Control(l) /\ lane'[l].pc = "idle"
<1>1. lane' \in [Lanes -> LaneTypes] /\ OthersStay(l) /\ lane'[l] = Idle /\ lane'[l].pc = "idle"
  BY LaneEnds
<1> QED BY <1>1, TurnsAssumption DEF RecordTypes, LetGo, Control, Holding, Holders

LEMMA MoveControl ==
  ASSUME RecordTypes, Permits, NEW l \in Lanes, lane' \in [Lanes -> LaneTypes], OthersStay(l),
         lane[l].pc # "idle", lane'[l].run = lane[l].run, chat' = chat, session' = session, runs' = runs,
         lane'[l].pc \in Holding => chat = l, session = l => TurnOpen(l)'
  PROVE  Control(l)
BY DEF RecordTypes, Control, Permits, Holders

LEMMA AdmitControl ==
  ASSUME RecordTypes, Permits, NEW l \in Lanes, Admitted(l)
  PROVE  Control(l)
<1>1. session # l
  BY DEF Admitted, Permits, TurnOpen, Is
<1> QED BY <1>1, TurnsAssumption DEF RecordTypes, Admitted, Control, Holders

LEMMA StepControl ==
  ASSUME RecordTypes, Permits, Transcript(row.msgs), Numbered(row.msgs, runs), NEW l \in Lanes,
         Asks(l), Stands(l), Opened(l),
         \/ \E edits, same \in BOOLEAN : Start(l, edits, same)
         \/ Replay(l) \/ Prepare(l) \/ Begin(l) \/ Undo(l) \/ Answer(l) \/ Save(l) \/ Commit(l)
         \/ \E wish \in {"confirm", "decline"} : Decide(l, wish)
         \/ Decline(l) \/ Expire(l) \/ Execute(l)
         \/ Reserve(l) \/ Complete(l) \/ GenerationFails(l) \/ Fail(l)
         \/ Abandon(l) \/ Stall(l) \/ Crash(l)
  PROVE  Control(l)
<1>1. CASE \E edits, same \in BOOLEAN : Start(l, edits, same)
  BY <1>1, StartAdmits, AdmitControl DEF StartedTurn
<1>2. CASE \E wish \in {"confirm", "decline"} : Decide(l, wish)
  BY <1>2, DecideAdmits, AdmitControl
<1>3. ASSUME End(l), runs' = runs
      PROVE  Control(l)
  BY <1>3, ReleasedLetsGo, EndsControl DEF End
<1>4. CASE Replay(l) \/ Undo(l) \/ Commit(l) \/ Decline(l) \/ Expire(l) \/ Execute(l) \/ Fail(l)
  BY <1>3, <1>4 DEF Replay, Undo, Commit, Decline, Expire, Mark, Execute, Fail
<1>5. CASE Crash(l)
  <2>1. LetGo(l)
    BY <1>5, TurnsAssumption DEF Crash, LetGo, RecordTypes
  <2> QED BY <1>5, <2>1, EndsControl DEF Crash
<1>6. ASSUME NEW s \in TurnStages, lane[l].pc \in TurnStages, Goto(l, s), runs' = runs,
             s \in {"undo", "running", "commit"}
      PROVE  Control(l)
  <2>1. /\ lane' \in [Lanes -> LaneTypes] /\ OthersStay(l) /\ lane'[l].pc = s /\ lane'[l].run = lane[l].run
        /\ chat' = chat /\ session' = session
    BY <1>6, TurnGoes DEF TurnMoves
  <2> QED BY <1>6, <2>1, MoveControl DEF TurnStages, Holding, TurnOpen
<1>7. ASSUME NEW s \in DecisionStages, lane[l].pc \in {"reserve", "generate"}, Goto(l, s), runs' = runs
      PROVE  Control(l)
  <2>1. /\ lane' \in [Lanes -> LaneTypes] /\ OthersStay(l) /\ lane'[l].pc = s /\ lane'[l].run = lane[l].run
        /\ chat' = chat /\ session' = session
    BY <1>7, DecisionGoes DEF DecisionMoves, DecisionStages, Goto
  <2>2. chat = l /\ session # l
    BY <1>7 DEF Permits, Holding, TurnOpen
  <2> QED BY <1>7, <2>1, <2>2, MoveControl
<1>8. CASE Prepare(l)
  <2>1. /\ lane' \in [Lanes -> LaneTypes] /\ OthersStay(l) /\ lane'[l].pc = "begin" /\ lane'[l].run = lane[l].run
        /\ chat' = l /\ chat = l /\ session' = l /\ session = None /\ runs' = runs /\ lane[l].pc = "prepare"
    BY <1>8, PrepareIs DEF TurnMoves
  <2> QED BY <2>1, TurnsAssumption DEF Control, RecordTypes, Holders, TurnOpen
<1>9. CASE Begin(l)
  BY <1>6, <1>9 DEF Begin, Is, TurnStages
<1>10. CASE Save(l)
  BY <1>3, <1>6, <1>10 DEF Save, Is, TurnStages
<1>11. CASE Reserve(l)
  BY <1>3, <1>7, <1>11 DEF Reserve, Is, DecisionStages
<1>12. CASE Complete(l) \/ GenerationFails(l)
  <2>1. CASE Complete(l) /\ End(l)
    BY <1>3, <2>1 DEF Complete
  <2>2. CASE (Complete(l) \/ GenerationFails(l)) /\ Goto(l, "fail")
    BY <1>7, <2>2 DEF Complete, GenerationFails, Is, DecisionStages
  <2> QED BY <1>12, <2>1, <2>2 DEF Complete, GenerationFails
<1>13. CASE Stall(l)
  <2>1. LetGo(l) /\ lane' = lane /\ runs' = runs /\ TurnOpen(l)
    BY <1>13, ReleasedLetsGo DEF Stall
  <2>2. lane[l].pc \notin Holding
    BY <2>1 DEF TurnOpen, Holding
  <2> QED BY <2>1, <2>2, TurnsAssumption DEF RecordTypes, LetGo, Control, Holders, OthersStay, LaneTypes
<1>14. CASE Abandon(l)
  <2>1. CASE Is(l, "begin") /\ Goto(l, "undo")
    BY <1>6, <1>14, <2>1 DEF Abandon, Is, TurnStages
  <2>2. CASE Is(l, "generate") /\ lane' = [lane EXCEPT ![l].pc = "fail"] /\ Released(l)
    <3>1. LetGo(l) /\ runs' = runs /\ lane[l].pc = "generate"
      BY <1>14, <2>2, ReleasedLetsGo DEF Abandon, Is
    <3>2. /\ lane' \in [Lanes -> LaneTypes] /\ OthersStay(l) /\ lane'[l].pc = "fail" /\ lane'[l].run = lane[l].run
      BY <2>2, <3>1, DecisionGoes DEF DecisionMoves, DecisionStages
    <3> QED BY <3>1, <3>2, TurnsAssumption DEF RecordTypes, LetGo, Control, Holders, Holding
  <2>3. CASE End(l)
    BY <1>3, <1>14, <2>3 DEF Abandon
  <2> QED BY <1>14, <2>1, <2>2, <2>3 DEF Abandon
<1>15. CASE Answer(l)
  <2>1. /\ lane' \in [Lanes -> LaneTypes] /\ OthersStay(l) /\ lane'[l].pc = "saving" /\ lane'[l].run = lane[l].run
        /\ chat' = chat /\ session' = session /\ runs' = runs /\ lane[l].pc = "running"
    BY <1>15, AnswerIs DEF TurnMoves
  <2> QED BY <2>1, MoveControl DEF Holding, TurnOpen
<1> QED BY <1>1, <1>2, <1>4, <1>5, <1>8, <1>9, <1>10, <1>11, <1>12, <1>13, <1>14, <1>15

-----------------------------------------------------------------------------
(* The row: how a step changes the transcript.                             *)

\* Only cards change, and none that another request has reserved.
Quiet(l) ==
  /\ Touched(row.msgs, row'.msgs)
  /\ \A i \in DOMAIN row.msgs : row.msgs[i].card.status = "confirmed" /\ row.msgs[i].card.run # lane[l].run =>
       row'.msgs[i].card.status = "confirmed" /\ row'.msgs[i].card.run = row.msgs[i].card.run

RowEffect(l) ==
  /\ row' \in Rows /\ row'.snap = row.snap
  /\ Transcript(row'.msgs) /\ Numbered(row'.msgs, runs')
  /\ From(row.msgs, row'.msgs, lane[l].run) /\ Marked(row.msgs, row'.msgs)
  /\ Quiet(l) \/ chat = l

LEMMA NumberedLonger ==
  ASSUME NEW m, NEW n \in Nat, NEW k \in Nat, n <= k, Numbered(m, n)
  PROVE  Numbered(m, k)
BY DEF Numbered

LEMMA SameIsTouched ==
  ASSUME NEW m \in Seq(Messages)
  PROVE  Touched(m, m)
BY DEF Touched, SameMessage

LEMMA MsgsIn ==
  ASSUME RecordTypes
  PROVE  row.msgs \in Seq(Messages) /\ row.study \in Studies /\ row.snap \in Nat /\ runs \in Nat
BY DEF RecordTypes, Rows

LEMMA SameEffect ==
  ASSUME RecordTypes, Transcript(row.msgs), Numbered(row.msgs, runs), NEW l,
         row' \in Rows, row'.msgs = row.msgs, row'.snap = row.snap, runs' \in {runs, runs + 1}
  PROVE  RowEffect(l)
<1>1. row.msgs \in Seq(Messages) /\ runs \in Nat
  BY MsgsIn
<1>2. Touched(row.msgs, row'.msgs)
  BY <1>1, SameIsTouched
<1>3. Quiet(l)
  BY <1>2 DEF Quiet
<1>4. Numbered(row'.msgs, runs')
  BY <1>1, NumberedLonger
<1>5. From(row.msgs, row'.msgs, lane[l].run) /\ Marked(row.msgs, row'.msgs)
  BY <1>1, <1>2, TouchedIsAlike
<1> QED BY <1>3, <1>4, <1>5 DEF RowEffect

LEMMA TouchedEffect ==
  ASSUME RecordTypes, Transcript(row.msgs), Numbered(row.msgs, runs), NEW l,
         row' \in Rows, Touched(row.msgs, row'.msgs), row'.snap = row.snap, runs' = runs,
         Quiet(l) \/ chat = l
  PROVE  RowEffect(l)
<1>1. row.msgs \in Seq(Messages) /\ runs \in Nat
  BY MsgsIn
<1>2. From(row.msgs, row'.msgs, lane[l].run) /\ Marked(row.msgs, row'.msgs)
  BY <1>1, TouchedIsAlike
<1>3. Transcript(row'.msgs) /\ Numbered(row'.msgs, runs')
  BY <1>1, TouchedTranscript, TouchedNumbered
<1> QED BY <1>2, <1>3 DEF RowEffect

LEMMA PositionIs ==
  ASSUME RecordTypes, NEW l
  PROVE  /\ Position(l) \in 0 .. Len(row.msgs)
         /\ Position(l) # 0 => /\ Position(l) \in DOMAIN row.msgs
                               /\ row.msgs[Position(l)].role = "assistant" /\ row.msgs[Position(l)].id = lane[l].action
                               /\ Decided(l) = row.msgs[Position(l)].card /\ Decided(l) \in Cards
<1>1. row.msgs \in Seq(Messages)
  BY MsgsIn
<1>2. PICK p : p = Position(l)
  OBVIOUS
<1>3. IsAt(row.msgs, "assistant", lane[l].action, p)
  BY <1>1, <1>2, AtIs DEF Position
<1>4. p \in 0 .. Len(row.msgs) /\ (p # 0 => row.msgs[p].role = "assistant" /\ row.msgs[p].id = lane[l].action)
  BY <1>3 DEF IsAt
<1>5. p # 0 => p \in DOMAIN row.msgs /\ row.msgs[p] \in Messages
  BY <1>1, <1>4
<1>6. p # 0 => row.msgs[p].card \in Cards
  BY <1>5 DEF Messages
<1>7. Decided(l) = row.msgs[p].card
  BY <1>2 DEF Decided
<1> QED BY <1>2, <1>4, <1>5, <1>6, <1>7

LEMMA RetryableIs ==
  ASSUME NEW card \in Cards, Retryable(card)
  PROVE  card # NoCard /\ card.status # "executed"
BY NoCardIs DEF Retryable

\* The card of a decision changes.
LEMMA DecidedChanges ==
  ASSUME RecordTypes, NEW l, Position(l) # 0, Decided(l) # NoCard, Decided(l).status # "executed",
         NEW card \in Cards, card.source = Decided(l).source, row' = WithCard(Position(l), card)
  PROVE  /\ row' \in Rows /\ row'.snap = row.snap /\ row'.study = row.study /\ Touched(row.msgs, row'.msgs)
         /\ row'.msgs[Position(l)].card = card
         /\ \A j \in DOMAIN row.msgs \ {Position(l)} : row'.msgs[j] = row.msgs[j]
<1>1. PICK p : p = Position(l)
  OBVIOUS
<1>2. p \in DOMAIN row.msgs /\ Decided(l) = row.msgs[p].card
  BY <1>1, PositionIs
<1>3. PICK s : s = row'
  OBVIOUS
<1>4. s = CardPut(row, p, card)
  BY <1>1, <1>3 DEF WithCard, CardPut
<1>5. row \in Rows
  BY DEF RecordTypes
<1>6. /\ row.msgs[p].card # NoCard /\ card.source = row.msgs[p].card.source
      /\ row.msgs[p].card.status = "executed" => card.status = "executed"
  BY <1>2
<1>7. /\ s \in Rows /\ s.snap = row.snap /\ s.study = row.study /\ Touched(row.msgs, s.msgs)
      /\ s.msgs[p].card = card /\ \A j \in DOMAIN row.msgs \ {p} : s.msgs[j] = row.msgs[j]
  BY <1>2, <1>4, <1>5, <1>6, CardChanges
<1> QED BY <1>1, <1>3, <1>7, Zenon

LEMMA StatusChanges ==
  ASSUME RecordTypes, NEW l, Position(l) # 0, Decided(l) # NoCard, Decided(l).status # "executed",
         NEW status \in {"declined", "expired", "failed"}, row' = WithStatus(l, status)
  PROVE  /\ row' \in Rows /\ row'.snap = row.snap /\ row'.study = row.study /\ Touched(row.msgs, row'.msgs)
         /\ \A j \in DOMAIN row.msgs \ {Position(l)} : row'.msgs[j] = row.msgs[j]
<1>1. PICK card : card = [Decided(l) EXCEPT !.status = status]
  OBVIOUS
<1>2. Decided(l) \in Cards
  BY PositionIs
<1>3. card \in Cards /\ card.source = Decided(l).source
  BY <1>1, <1>2 DEF Cards
<1>4. row' = WithCard(Position(l), card)
  BY <1>1 DEF WithStatus
<1> QED BY <1>3, <1>4, DecidedChanges

LEMMA WithMsgs ==
  ASSUME RecordTypes, NEW n \in Seq(Messages), row' = [row EXCEPT !.msgs = n]
  PROVE  row' \in Rows /\ row'.msgs = n /\ row'.snap = row.snap /\ row'.study = row.study
BY DEF RecordTypes, Rows

LEMMA ReplayIs ==
  ASSUME RecordTypes, Transcript(row.msgs), Numbered(row.msgs, runs), Permits, Requests, NEW l \in Lanes, Replay(l)
  PROVE  RowEffect(l) /\ row'.study = row.study /\ Alike(row.msgs, row'.msgs)
<1>1. PICK m : m = row.msgs
  OBVIOUS
<1>2. PICK i : i = LastUser(m)
  OBVIOUS
<1>3. m \in Seq(Messages) /\ runs \in Nat /\ row \in Rows
  BY <1>1, MsgsIn DEF RecordTypes
<1>4. runs' = runs /\ lane[l].pc = "replay"
  BY DEF Replay, Is
<1>5. chat = l /\ lane[l].run \in 1 .. runs
  BY <1>4 DEF Permits, Requests, Holding, Is
<1>6. CASE row' = row
  BY <1>1, <1>3, <1>4, <1>6, SameEffect, SameIsTouched, TouchedIsAlike
<1>7. CASE row' # row
  <2>1. PICK j : j = AnswerTo(m, i)
    OBVIOUS
  <2>2. i # 0 /\ j # 0 /\ row' = [row EXCEPT !.msgs = Renumbered(m, {i, j}, lane[l].run)]
    BY <1>1, <1>2, <1>7, <2>1 DEF Replay
  <2>3. j = i + 1
    BY <1>1, <1>2, <1>3, <2>1, <2>2, OneAnswerFollows DEF Transcript
  <2>4. j \in DOMAIN m
    <3>1. i \in 0 .. Len(m)
      BY <1>2, <1>3, LastUserIs DEF IsLastUser
    <3>2. j \in i + 1 .. Len(m)
      BY <1>3, <2>1, <2>2, <3>1, AnswerToIs
    <3> QED BY <1>3, <3>1, <3>2
  <2>5. PICK n : n = Renumbered(m, {i, i + 1}, lane[l].run)
    OBVIOUS
  <2>6. /\ n \in Seq(Messages) /\ Transcript(n) /\ Alike(m, n) /\ Marked(m, n) /\ From(m, n, lane[l].run)
        /\ Numbered(n, runs)
    <3>1. PICK r : r = lane[l].run
      OBVIOUS
    <3>2. /\ r \in Nat \ {0} /\ r <= runs /\ Transcript(m) /\ Numbered(m, runs)
          /\ LastUser(m) # 0 /\ LastUser(m) + 1 \in DOMAIN m
          /\ n = Renumbered(m, {LastUser(m), LastUser(m) + 1}, r)
      BY <1>1, <1>2, <1>3, <1>5, <2>2, <2>3, <2>4, <2>5, <3>1
    <3>3. /\ n \in Seq(Messages) /\ Transcript(n) /\ Alike(m, n) /\ Marked(m, n) /\ From(m, n, r)
          /\ \A c \in Nat : r <= c /\ Numbered(m, c) => Numbered(n, c)
      BY <1>3, <3>2, ReplayedTranscript
    <3> QED BY <1>3, <3>1, <3>2, <3>3
  <2>7. row' \in Rows /\ row'.msgs = n /\ row'.snap = row.snap /\ row'.study = row.study
    BY <2>2, <2>3, <2>5, <2>6, WithMsgs
  <2> QED BY <1>1, <1>4, <1>5, <2>6, <2>7 DEF RowEffect
<1> QED BY <1>6, <1>7

\* A question enters the transcript; an edited one takes the place of the last.
LEMMA BeginIs ==
  ASSUME RecordTypes, Transcript(row.msgs), Numbered(row.msgs, runs), Requests, NEW l \in Lanes,
         Asks(l), Stands(l), Unasked(l), lane[l].pc = "begin", session = l, chat = l,
         row' = [row EXCEPT !.msgs = Asked(l)], runs' = runs
  PROVE  /\ RowEffect(l) /\ row'.study = row.study
         /\ EndsWith(row'.msgs, lane[l].user) /\ LastUser(row'.msgs) = Len(row'.msgs)
         /\ \E k \in 0 .. Len(row.msgs) :
              /\ Len(row'.msgs) = k + 1 /\ \A i \in 1 .. k : row'.msgs[i] = row.msgs[i]
              /\ IF lane[l].edits THEN k = LastUser(row.msgs) - 1 ELSE k = Len(row.msgs)
<1>1. PICK m : m = row.msgs
  OBVIOUS
<1>2. PICK u : u = lane[l].user
  OBVIOUS
<1>3. m \in Seq(Messages) /\ runs \in Nat /\ DOMAIN m = 1 .. Len(m) /\ Len(m) \in Nat
  BY <1>1, MsgsIn
<1>4. lane[l] \in Turns /\ Turn(l)
  BY LaneKinds DEF TurnStages, Turn
<1>5. /\ u \in Messages /\ u.role = "user" /\ u.card = NoCard /\ u.run = lane[l].run /\ lane[l].run \in 1 .. runs
      /\ u.id \in 1 .. runs /\ u.applied \in 0 .. runs
      /\ ~lane[l].edits => u.id = lane[l].run
  <2>1. lane[l].run \in 1 .. runs
    BY DEF Requests, Is
  <2>2. u \in Messages /\ u.applied \in Nat
    BY <1>2, <1>4 DEF Turns, Messages
  <2>3. /\ u.role = "user" /\ u.card = NoCard /\ u.run = lane[l].run
        /\ u.id \in 1 .. lane[l].run /\ u.applied < lane[l].run
        /\ ~lane[l].edits => u.id = lane[l].run
    BY <1>2, <1>4 DEF Asks
  <2> QED BY <1>3, <2>1, <2>2, <2>3
<1>6. PICK k \in 0 .. Len(m) :
        /\ Asked(l) = Append(SubSeq(m, 1, k), u)
        /\ \A i \in 1 .. k : m[i].role = "user" => m[i].id # u.id
        /\ IF lane[l].edits
           THEN k + 1 = LastUser(m) /\ k + 1 \in 1 .. Len(m) /\ m[k + 1].role = "user" /\ m[k + 1].id = u.id
                /\ (m[k + 1].applied # 0 => u.applied # 0) /\ IsLastUser(m, k + 1)
           ELSE k = Len(m)
  <2>1. CASE lane[l].edits
    <3>1. PICK j : j = LastUser(m)
      OBVIOUS
    <3>2. /\ j \in 1 .. Len(m) /\ m[j].role = "user" /\ m[j].id = u.id
          /\ At(m, "user", u.id) = j
      BY <1>1, <1>2, <2>1, <3>1, EditedIs
    <3>3. m[j].applied # 0 => u.applied # 0
      BY <1>1, <1>2, <2>1, <3>1 DEF Stands, EditsLast
    <3>4. Asked(l) = Append(SubSeq(m, 1, j - 1), u)
      BY <1>1, <1>2, <2>1, <3>2 DEF Asked
    <3>5. \A i \in 1 .. j - 1 : m[i].role = "user" => m[i].id # u.id
      BY <1>1, <1>3, <3>2 DEF Transcript, Unique
    <3>6. j - 1 \in 0 .. Len(m) /\ (j - 1) + 1 = j /\ IsLastUser(m, j)
      BY <1>3, <3>1, <3>2, LastUserIs
    <3> QED BY <2>1, <3>1, <3>2, <3>3, <3>4, <3>5, <3>6
  <2>2. CASE ~lane[l].edits
    <3>1. Asked(l) = Append(m, u)
      BY <1>1, <1>2, <2>2 DEF Asked
    <3>2. SubSeq(m, 1, Len(m)) = m
      BY <1>3
    <3>3. \A i \in 1 .. Len(m) : m[i].role = "user" => m[i].id # u.id
      BY <1>1, <1>3, <1>5, <2>2 DEF Unasked
    <3>4. Asked(l) = Append(SubSeq(m, 1, Len(m)), u) /\ Len(m) \in 0 .. Len(m)
      BY <1>3, <3>1, <3>2
    <3> QED BY <2>2, <3>3, <3>4
  <2> QED BY <2>1, <2>2
<1>7. PICK n : n = AskedAfter(m, k, u)
  OBVIOUS
<1>8. /\ n \in Seq(Messages) /\ Len(n) = k + 1 /\ n[k + 1] = u /\ \A i \in 1 .. k : n[i] = m[i]
      /\ Transcript(n) /\ LastUser(n) = k + 1
  <2>1. /\ Transcript(m) /\ u.role = "user" /\ u.card = NoCard /\ u \in Messages /\ k \in 0 .. Len(m)
        /\ \A i \in 1 .. k : m[i].role = "user" => m[i].id # u.id
    BY <1>1, <1>5, <1>6
  <2> QED BY <1>3, <1>7, <2>1, AskedTranscript
<1>9. row' \in Rows /\ row'.msgs = n /\ row'.snap = row.snap /\ row'.study = row.study
  BY <1>6, <1>7, <1>8, WithMsgs DEF AskedAfter
<1>10. k \in Nat /\ DOMAIN n = 1 .. k + 1 /\ \A i \in 1 .. k + 1 : i = k + 1 \/ i \in 1 .. k
  BY <1>8
<1>11. Numbered(n, runs)
  <2>1. ASSUME NEW i \in 1 .. k
        PROVE  n[i].id \in 1 .. runs /\ n[i].run \in 1 .. runs /\ n[i].applied \in 0 .. runs
    <3>1. i \in DOMAIN m /\ n[i] = m[i]
      BY <1>3, <1>8
    <3> QED BY <1>1, <3>1 DEF Numbered
  <2> QED BY <1>5, <1>8, <1>10, <2>1 DEF Numbered
<1>12. From(m, n, lane[l].run)
  <2>1. ASSUME NEW i \in 1 .. k
        PROVE  i \in DOMAIN m /\ n[i] = m[i]
    BY <1>3, <1>8
  <2>2. u.id = lane[l].run \/ \E i \in DOMAIN m : m[i].role = u.role /\ m[i].id = u.id
    <3>1. CASE lane[l].edits
      BY <1>3, <1>5, <1>6, <3>1
    <3>2. CASE ~lane[l].edits
      BY <1>5, <3>2
    <3> QED BY <3>1, <3>2
  <2> QED BY <1>5, <1>8, <1>10, <2>1, <2>2 DEF From
<1>13. Marked(m, n)
  <2> SUFFICES ASSUME NEW i \in 1 .. Len(m), m[i].role = "user"
               PROVE  \E j \in DOMAIN n : n[j].role = "user" /\ n[j].id = m[i].id /\ (m[i].applied # 0 => n[j].applied # 0)
    BY <1>3 DEF Marked
  <2>1. CASE i \in 1 .. k
    <3>1. i \in DOMAIN n /\ n[i] = m[i]
      BY <1>8, <1>10, <2>1
    <3> QED BY <3>1
  <2>2. CASE i \notin 1 .. k
    <3>1. lane[l].edits /\ i = k + 1
      BY <1>3, <1>6, <1>10, <2>2 DEF IsLastUser
    <3>2. /\ k + 1 \in DOMAIN n /\ n[k + 1].role = "user" /\ n[k + 1].id = m[i].id
          /\ (m[i].applied # 0 => n[k + 1].applied # 0)
      BY <1>5, <1>6, <1>8, <1>10, <3>1
    <3> QED BY <3>2
  <2> QED BY <2>1, <2>2
<1>14. EndsWith(n, u)
  BY <1>8, <1>10 DEF EndsWith
<1>15. RowEffect(l)
  BY <1>1, <1>8, <1>9, <1>11, <1>12, <1>13 DEF RowEffect
<1>16. IF lane[l].edits THEN k = LastUser(m) - 1 ELSE k = Len(m)
  BY <1>6, <1>10
<1> QED BY <1>1, <1>2, <1>6, <1>8, <1>9, <1>14, <1>15, <1>16

\* An answer is added to the question it answers.
LEMMA SaveIs ==
  ASSUME RecordTypes, Transcript(row.msgs), Numbered(row.msgs, runs), Requests, NEW l \in Lanes,
         Asks(l), Stands(l), Unanswered(l), Judged(l), lane[l].pc = "saving", session = l, chat = l,
         MaySave(l), row' = Saved(l), runs' = runs
  PROVE  /\ RowEffect(l) /\ row'.study.step = row.study.step /\ row'.study.rev = row.study.rev
         /\ Len(row.msgs) # 0 /\ LastUser(row.msgs) = Len(row.msgs)
         /\ row.msgs[Len(row.msgs)].role = "user" /\ row.msgs[Len(row.msgs)].id = lane[l].user.id
         /\ Len(row'.msgs) = Len(row.msgs) + 1
         /\ \A i \in 1 .. Len(row.msgs) : row'.msgs[i].role = row.msgs[i].role /\ row'.msgs[i].id = row.msgs[i].id
         /\ row'.msgs[Len(row'.msgs)].role = "assistant" /\ row'.msgs[Len(row'.msgs)].id = lane[l].run
<1>1. PICK m : m = row.msgs
  OBVIOUS
<1>2. PICK k : k = Len(m)
  OBVIOUS
<1>3. PICK res : res = lane[l].result
  OBVIOUS
<1>4. m \in Seq(Messages) /\ runs \in Nat /\ DOMAIN m = 1 .. k /\ k \in Nat /\ row.study \in Studies /\ row \in Rows
  BY <1>1, <1>2, MsgsIn DEF RecordTypes
<1>5. lane[l] \in Turns /\ Turn(l)
  BY LaneKinds DEF TurnStages, Turn
<1>6. res \in Results /\ (res.card # NoCard => res.card.source = lane[l].user.id)
  BY <1>3 DEF Judged
<1>7. lane[l].run \in 1 .. runs
  BY DEF Requests, Is
<1>8. k # 0 /\ m[k].role = "user" /\ m[k].id = lane[l].user.id /\ m[k].applied # lane[l].run
      /\ m[k].run = lane[l].run /\ LastUser(m) = k
  <2>1. m # << >> /\ m[k].role = "user" /\ m[k].id = lane[l].user.id /\ m[k].applied = lane[l].user.applied
    BY <1>1, <1>2, <1>5 DEF Stands, EndsWith, Asks
  <2>2. k # 0
    BY <1>2, <1>4, <2>1
  <2>3. PICK i : i = LastUser(m)
    OBVIOUS
  <2>4. i = k
    <3>1. IsLastUser(m, i)
      BY <1>4, <2>3, LastUserIs
    <3> QED BY <1>2, <1>4, <2>1, <2>2, <3>1 DEF IsLastUser
  <2>5. m[k].run = lane[l].run
    BY <1>1, <2>3, <2>4 DEF MaySave
  <2>6. lane[l].user.applied # lane[l].run
    BY <1>5, <1>7 DEF Asks
  <2> QED BY <2>1, <2>2, <2>3, <2>4, <2>5, <2>6
<1>9. PICK a : a = AnswerMessage(lane[l].run, res.ok, res.card)
  OBVIOUS
<1>10. /\ a \in Messages /\ a.role = "assistant" /\ a.run = lane[l].run /\ a.id = lane[l].run
       /\ a.applied = 0 /\ a.card = res.card
  BY <1>4, <1>6, <1>7, <1>9 DEF AnswerMessage, Messages, Results
<1>11. PICK n1 : n1 = AnsweredBy(m, a)
  OBVIOUS
<1>12. /\ n1 \in Seq(Messages) /\ Len(n1) = k + 1 /\ n1[k + 1] = a /\ \A i \in 1 .. k : n1[i] = m[i]
       /\ Transcript(n1)
  <2>1. \A i \in 1 .. k : m[i].role = "assistant" => m[i].id # a.id
    BY <1>1, <1>4, <1>10 DEF Unanswered
  <2>2. a.card # NoCard => a.card.source = m[k].id /\ m[k].applied # a.id
    BY <1>6, <1>8, <1>10
  <2>3. Transcript(m) /\ Len(m) # 0 /\ LastUser(m) = Len(m) /\ a.run = m[Len(m)].run
    BY <1>1, <1>2, <1>8, <1>10
  <2> QED BY <1>2, <1>4, <1>10, <1>11, <2>1, <2>2, <2>3, AnsweredTranscript
<1>13. Numbered(n1, runs)
  <2>1. ASSUME NEW i \in 1 .. k
        PROVE  n1[i].id \in 1 .. runs /\ n1[i].run \in 1 .. runs /\ n1[i].applied \in 0 .. runs
    <3>1. i \in DOMAIN m /\ n1[i] = m[i]
      BY <1>4, <1>12
    <3> QED BY <1>1, <3>1 DEF Numbered
  <2>2. DOMAIN n1 = 1 .. k + 1 /\ \A i \in 1 .. k + 1 : i = k + 1 \/ i \in 1 .. k
    BY <1>4, <1>12
  <2> QED BY <1>4, <1>7, <1>10, <1>12, <2>1, <2>2 DEF Numbered
<1>14. /\ row' \in Rows /\ row'.snap = row.snap /\ Touched(n1, row'.msgs)
       /\ row'.study.step = row.study.step /\ row'.study.rev = row.study.rev
  <2>1. CASE StudyTaken(l)
    <3>1. PICK e : e = Expired(n1, res.study)
      OBVIOUS
    <3>2. Touched(n1, e)
      BY <1>12, <3>1, ExpiredTouches
    <3>3. e \in Seq(Messages) /\ res.study \in Studies
      BY <1>6, <3>2 DEF Touched, Results
    <3>4. row' = [row EXCEPT !.msgs = e, !.study = res.study]
      BY <1>1, <1>3, <1>9, <1>11, <2>1, <3>1 DEF Saved, AnsweredBy
    <3>5. row' \in Rows /\ row'.snap = row.snap /\ row'.msgs = e /\ row'.study = res.study
      BY <1>4, <3>3, <3>4 DEF Rows
    <3>6. row.study = lane[l].read.study
      BY <2>1 DEF MaySave
    <3>7. res.study.step = row.study.step /\ res.study.rev = row.study.rev
      <4>1. res.study \in {row.study, [row.study EXCEPT !.pass = lane[l].run]}
        BY <1>3, <3>6 DEF Judged
      <4> QED BY <1>4, <4>1 DEF Studies
    <3> QED BY <3>2, <3>5, <3>7
  <2>2. CASE ~StudyTaken(l)
    <3>1. row' = [row EXCEPT !.msgs = n1]
      BY <1>1, <1>3, <1>9, <1>11, <2>2 DEF Saved, AnsweredBy
    <3>2. row' \in Rows /\ row'.msgs = n1 /\ row'.snap = row.snap /\ row'.study = row.study
      BY <1>12, <3>1, WithMsgs
    <3> QED BY <1>12, <3>2, SameIsTouched
  <2> QED BY <2>1, <2>2
<1>15. PICK n : n = row'.msgs
  OBVIOUS
<1>16. /\ n \in Seq(Messages) /\ Len(n) = k + 1 /\ DOMAIN n = 1 .. k + 1
       /\ \A i \in 1 .. k + 1 : SameMessage(n1[i], n[i])
  BY <1>12, <1>14, <1>15 DEF Touched
<1>17. Transcript(n) /\ Numbered(n, runs)
  BY <1>4, <1>12, <1>13, <1>14, <1>15, TouchedTranscript, TouchedNumbered
<1>18. n[k + 1].role = "assistant" /\ n[k + 1].id = lane[l].run /\ n[k + 1].run = lane[l].run
  BY <1>4, <1>10, <1>12, <1>16 DEF SameMessage
<1>19. \A i \in 1 .. k : n[i].role = m[i].role /\ n[i].id = m[i].id /\ n[i].run = m[i].run /\ n[i].applied = m[i].applied
  <2> SUFFICES ASSUME NEW i \in 1 .. k
               PROVE  n[i].role = m[i].role /\ n[i].id = m[i].id /\ n[i].run = m[i].run /\ n[i].applied = m[i].applied
    OBVIOUS
  <2>1. SameMessage(m[i], n[i])
    <3>1. i \in 1 .. k + 1 /\ n1[i] = m[i]
      BY <1>4, <1>12
    <3> QED BY <1>16, <3>1
  <2> QED BY <2>1 DEF SameMessage
<1>20. From(m, n, lane[l].run)
  <2>1. \A i \in 1 .. k + 1 : i = k + 1 \/ (i \in 1 .. k /\ i \in DOMAIN m)
    BY <1>4
  <2> QED BY <1>16, <1>18, <1>19, <2>1 DEF From
<1>21. Marked(m, n)
  <2>1. \A i \in DOMAIN m : i \in 1 .. k /\ i \in DOMAIN n
    BY <1>4, <1>16
  <2> QED BY <1>19, <2>1 DEF Marked
<1>22. RowEffect(l)
  BY <1>1, <1>14, <1>15, <1>17, <1>20, <1>21 DEF RowEffect
<1> QED BY <1>1, <1>2, <1>8, <1>14, <1>15, <1>16, <1>18, <1>19, <1>22

\* An action is executed on its card, and its message is marked.
LEMMA ApplyIs ==
  ASSUME RecordTypes, Transcript(row.msgs), Numbered(row.msgs, runs), NEW l \in Lanes,
         Position(l) # 0, Decided(l) # NoCard, Decided(l).status # "executed", Unspent(l), chat = l,
         NEW step \in Nat, NEW total \in Nat, Apply(l, step, total), runs' = runs
  PROVE  /\ RowEffect(l) /\ Alike(row.msgs, row'.msgs) /\ row'.study.step = step /\ row'.study.rev = row.study.rev + 1
         /\ \E i \in DOMAIN row.msgs :
              /\ row.msgs[i].role = "user" /\ row.msgs[i].id = Decided(l).source /\ row.msgs[i].applied = 0
              /\ row'.msgs[i].applied # 0
<1>1. PICK m : m = row.msgs
  OBVIOUS
<1>2. PICK p : p = Position(l)
  OBVIOUS
<1>3. PICK card : card = Decided(l)
  OBVIOUS
<1>4. m \in Seq(Messages) /\ DOMAIN m = 1 .. Len(m) /\ runs \in Nat /\ row \in Rows /\ row.study \in Studies
  BY <1>1, MsgsIn DEF RecordTypes
<1>5. /\ p \in 1 .. Len(m) /\ m[p].role = "assistant" /\ m[p].id = lane[l].action /\ card = m[p].card
      /\ card \in Cards
  BY <1>1, <1>2, <1>3, <1>4, PositionIs
<1>6. card # NoCard /\ card.status # "executed"
  BY <1>3
<1>7. p - 1 \in 1 .. Len(m) /\ m[p - 1].role = "user" /\ m[p - 1].id = card.source /\ m[p - 1].applied # m[p].id
  <2>1. p > 1 /\ m[p - 1].role = "user"
    BY <1>1, <1>4, <1>5 DEF Transcript, Pairs
  <2>2. m[p - 1].id = card.source /\ (m[p - 1].applied = m[p].id => card.status = "executed")
    BY <1>1, <1>4, <1>5, <1>6 DEF Transcript, Authorised
  <2> QED BY <1>4, <1>5, <1>6, <2>1, <2>2
<1>8. Source(l) = p - 1
  <2>1. PICK q : q = Source(l)
    OBVIOUS
  <2>2. IsAt(m, "user", card.source, q)
    BY <1>1, <1>3, <1>4, <2>1, AtIs DEF Source
  <2>3. q # 0
    BY <1>7, <2>2 DEF IsAt
  <2>4. q \in 1 .. Len(m) /\ m[q].role = "user" /\ m[q].id = card.source
    BY <1>4, <2>2, <2>3 DEF IsAt
  <2>5. q = p - 1
    BY <1>1, <1>4, <1>7, <2>4 DEF Transcript, Unique
  <2> QED BY <2>1, <2>5
<1>9. m[p - 1].applied = 0
  <2>1. p - 1 # 0
    BY <1>4, <1>7
  <2> QED BY <1>1, <1>5, <1>7, <1>8, <2>1 DEF Unspent
<1>10. PICK c : c = [card EXCEPT !.status = "executed", !.due = FALSE]
  OBVIOUS
<1>11. c \in Cards /\ c.source = card.source /\ c.status = "executed"
  BY <1>5, <1>10 DEF Cards
<1>12. PICK n : n = ActionRecorded(l)
  OBVIOUS
<1>13. /\ DOMAIN n = DOMAIN m
       /\ \A i \in DOMAIN m : n[i] = IF i = p THEN [m[i] EXCEPT !.card = c]
                                     ELSE IF i = p - 1 THEN [m[i] EXCEPT !.applied = lane[l].action] ELSE m[i]
       /\ n = [i \in DOMAIN m |-> n[i]]
  BY <1>1, <1>2, <1>3, <1>8, <1>10, <1>12, Zenon DEF ActionRecorded
<1>14. ASSUME NEW i \in 1 .. Len(m)
       PROVE  /\ n[i] \in Messages /\ n[i].role = m[i].role /\ n[i].id = m[i].id /\ n[i].run = m[i].run
              /\ i # p => n[i].card = m[i].card
              /\ i = p => n[i].card = c
              /\ i # p - 1 => n[i].applied = m[i].applied
              /\ i = p - 1 => n[i].applied = m[p].id
  <2>1. i \in DOMAIN m /\ m[i] \in Messages /\ m[p] \in Messages
    BY <1>4, <1>5
  <2>2. m[p].id \in Nat
    BY <2>1 DEF Messages
  <2>3. CASE i = p
    <3>1. n[i] = [m[i] EXCEPT !.card = c]
      BY <1>13, <2>1, <2>3, Zenon
    <3>2. p # p - 1
      BY <1>5
    <3> QED BY <1>11, <2>1, <2>3, <3>1, <3>2 DEF Messages
  <2>4. CASE i = p - 1
    <3>1. p # p - 1
      BY <1>5
    <3>2. n[i] = [m[i] EXCEPT !.applied = m[p].id]
      BY <1>5, <1>13, <2>1, <2>4, <3>1, Zenon
    <3> QED BY <2>1, <2>2, <2>4, <3>1, <3>2 DEF Messages
  <2>5. CASE i # p /\ i # p - 1
    <3>1. n[i] = m[i]
      BY <1>13, <2>1, <2>5, Zenon
    <3> QED BY <2>1, <2>5, <3>1
  <2> QED BY <2>3, <2>4, <2>5
<1>15. n \in Seq(Messages) /\ Len(n) = Len(m)
  <2>1. n = [i \in 1 .. Len(m) |-> n[i]]
    BY <1>4, <1>13, Zenon
  <2> QED BY <1>14, <2>1
<1>16. Acted(m, n, p)
  BY <1>5, <1>7, <1>11, <1>14, <1>15 DEF Acted
<1>17. /\ Transcript(n) /\ Alike(m, n) /\ Marked(m, n) /\ From(m, n, lane[l].run) /\ Numbered(n, runs)
       /\ n[p - 1].applied # 0
  <2>1. Transcript(m) /\ Numbered(m, runs) /\ m[p].card # NoCard
    BY <1>1, <1>5, <1>6
  <2> QED BY <1>4, <1>5, <1>16, <2>1, ActedTranscript
<1>18. PICK study : study = [row.study EXCEPT !.step = step, !.total = total, !.rev = row.study.rev + 1, !.pass = 0]
  OBVIOUS
<1>19. study \in Studies /\ study.step = step /\ study.rev = row.study.rev + 1
  <2>1. PICK rev \in Nat : rev = row.study.rev + 1
    BY <1>4 DEF Studies
  <2> QED BY <1>4, <1>18, <2>1 DEF Studies
<1>20. row' = [row EXCEPT !.msgs = n, !.study = study]
  BY <1>12, <1>18 DEF Apply
<1>21. row' \in Rows /\ row'.snap = row.snap /\ row'.msgs = n /\ row'.study = study
  BY <1>4, <1>15, <1>19, <1>20 DEF Rows
<1>22. RowEffect(l)
  BY <1>1, <1>17, <1>21 DEF RowEffect
<1> QED BY <1>1, <1>3, <1>4, <1>7, <1>9, <1>17, <1>19, <1>21, <1>22

-----------------------------------------------------------------------------
(* A step of a lane, with its effect on the row and on the history.        *)

LaneStep(l) ==
  \/ \E edits, same \in BOOLEAN : Start(l, edits, same)
  \/ Replay(l) \/ Prepare(l) \/ Begin(l) \/ Undo(l) \/ Answer(l) \/ Save(l) \/ Commit(l)
  \/ \E wish \in {"confirm", "decline"} : Decide(l, wish)
  \/ Decline(l) \/ Expire(l) \/ Execute(l)
  \/ Reserve(l) \/ Complete(l) \/ GenerationFails(l) \/ Fail(l)
  \/ Abandon(l) \/ Stall(l) \/ Crash(l)

\* The history follows the study.
Accounted ==
  /\ row'.study.step = row.study.step /\ row'.study.rev = row.study.rev
  /\ credit' = credit /\ executed' = executed

LEMMA SpentKept ==
  ASSUME Spent, Marked(row.msgs, row'.msgs), executed' = executed, credit'.count = credit.count
  PROVE  Spent'
<1>1. ASSUME NEW x \in executed
      PROVE  \E i \in DOMAIN row'.msgs : row'.msgs[i].role = "user" /\ row'.msgs[i].id = x.source /\ row'.msgs[i].applied # 0
  <2>1. PICK i \in DOMAIN row.msgs : row.msgs[i].role = "user" /\ row.msgs[i].id = x.source /\ row.msgs[i].applied # 0
    BY DEF Spent
  <2>2. PICK j \in DOMAIN row'.msgs : row'.msgs[j].role = "user" /\ row'.msgs[j].id = row.msgs[i].id /\ row'.msgs[j].applied # 0
    BY <2>1 DEF Marked
  <2> QED BY <2>1, <2>2
<1> QED BY <1>1 DEF Spent

LEMMA SpentGrows ==
  ASSUME RecordTypes, Spent, Transcript(row.msgs), Marked(row.msgs, row'.msgs), Alike(row.msgs, row'.msgs),
         NEW x \in [action : Nat, source : Nat], executed' = executed \cup {x}, credit'.count = credit.count + 1,
         NEW i \in DOMAIN row.msgs,
         row.msgs[i].role = "user", row.msgs[i].id = x.source, row.msgs[i].applied = 0, row'.msgs[i].applied # 0
  PROVE  Spent'
<1>1. ASSUME NEW y \in executed
      PROVE  /\ y.source # x.source
             /\ \E j \in DOMAIN row'.msgs : row'.msgs[j].role = "user" /\ row'.msgs[j].id = y.source /\ row'.msgs[j].applied # 0
  <2>1. PICK k \in DOMAIN row.msgs : row.msgs[k].role = "user" /\ row.msgs[k].id = y.source /\ row.msgs[k].applied # 0
    BY DEF Spent
  <2>2. PICK j \in DOMAIN row'.msgs : row'.msgs[j].role = "user" /\ row'.msgs[j].id = row.msgs[k].id /\ row'.msgs[j].applied # 0
    BY <2>1 DEF Marked
  <2>3. y.source # x.source
    BY <2>1 DEF Transcript, Unique
  <2> QED BY <2>1, <2>2, <2>3
<1>2. i \in DOMAIN row'.msgs /\ row'.msgs[i].role = "user" /\ row'.msgs[i].id = x.source /\ row'.msgs[i].applied # 0
  BY DEF Alike
<1>3. x \notin executed
  BY <1>1
<1>4. IsFiniteSet(executed') /\ Cardinality(executed') = Cardinality(executed) + 1
  <2>1. IsFiniteSet(executed)
    BY DEF Spent
  <2> QED BY <1>3, <2>1, FS_AddElement
<1>5. credit'.count = Cardinality(executed')
  BY <1>4 DEF Spent
<1>6. \A y, z \in executed' : y.source = z.source => y = z
  BY <1>1 DEF Spent
<1>7. \A y \in executed' : \E j \in DOMAIN row'.msgs :
        row'.msgs[j].role = "user" /\ row'.msgs[j].id = y.source /\ row'.msgs[j].applied # 0
  BY <1>1, <1>2
<1> QED BY <1>4, <1>5, <1>6, <1>7 DEF Spent

LEMMA AppliedAccounts ==
  ASSUME RecordTypes, Transcript(row.msgs), Numbered(row.msgs, runs), Spent, ProgressKept, NEW l \in Lanes,
         Position(l) # 0, Decided(l) # NoCard, Decided(l).status # "executed", Unspent(l), chat = l,
         lane[l].pc \in DecisionStages,
         NEW step \in Nat, NEW total \in Nat, Apply(l, step, total), runs' = runs
  PROVE  RowEffect(l) /\ Alike(row.msgs, row'.msgs) /\ Spent' /\ ProgressKept'
<1>1. /\ RowEffect(l) /\ Alike(row.msgs, row'.msgs) /\ row'.study.step = step /\ row'.study.rev = row.study.rev + 1
      /\ \E i \in DOMAIN row.msgs :
           /\ row.msgs[i].role = "user" /\ row.msgs[i].id = Decided(l).source /\ row.msgs[i].applied = 0
           /\ row'.msgs[i].applied # 0
  BY ApplyIs
<1>2. PICK x : x = [action |-> lane[l].action, source |-> Decided(l).source]
  OBVIOUS
<1>3. x \in [action : Nat, source : Nat] /\ x.source = Decided(l).source
  <2>1. lane[l].action \in Nat
    BY LaneKinds DEF Decisions
  <2>2. Decided(l).source \in Nat
    BY PositionIs DEF Cards
  <2> QED BY <1>2, <2>1, <2>2
<1>4. executed' = executed \cup {x}
  BY <1>2 DEF Apply
<1>5. credit' = [step |-> step, rev |-> credit.rev + 1, count |-> credit.count + 1]
  BY DEF Apply
<1>6. Spent'
  BY <1>1, <1>3, <1>4, <1>5, SpentGrows DEF RowEffect
<1>7. ProgressKept'
  BY <1>1, <1>5 DEF ProgressKept
<1> QED BY <1>1, <1>6, <1>7

LEMMA AccountedKeeps ==
  ASSUME NEW l, RowEffect(l), Spent, ProgressKept, Accounted
  PROVE  Spent' /\ ProgressKept'
<1>1. Spent'
  BY SpentKept DEF RowEffect, Accounted
<1> QED BY <1>1 DEF Accounted, ProgressKept

\* A card that is decided upon, or the row as it is.
LEMMA MarkIs ==
  ASSUME RecordTypes, Transcript(row.msgs), Numbered(row.msgs, runs), NEW l \in Lanes, chat = l,
         Position(l) # 0, Retryable(Decided(l)), runs' = runs,
         \/ \E status \in {"declined", "expired", "failed"} : row' = WithStatus(l, status)
         \/ row' = WithCard(Position(l), [Decided(l) EXCEPT !.status = "confirmed", !.run = lane[l].run, !.due = FALSE])
            /\ lane[l].run \in Nat
  PROVE  RowEffect(l) /\ row'.study = row.study /\ Touched(row.msgs, row'.msgs)
<1>1. Decided(l) \in Cards /\ Decided(l) # NoCard /\ Decided(l).status # "executed"
  BY PositionIs, RetryableIs
<1>2. /\ row' \in Rows /\ row'.snap = row.snap /\ row'.study = row.study /\ Touched(row.msgs, row'.msgs)
  <2>1. CASE \E status \in {"declined", "expired", "failed"} : row' = WithStatus(l, status)
    BY <1>1, <2>1, StatusChanges
  <2>2. ASSUME NEW card, card = [Decided(l) EXCEPT !.status = "confirmed", !.run = lane[l].run, !.due = FALSE],
               row' = WithCard(Position(l), card), lane[l].run \in Nat
        PROVE  row' \in Rows /\ row'.snap = row.snap /\ row'.study = row.study /\ Touched(row.msgs, row'.msgs)
    <3>1. card \in Cards /\ card.source = Decided(l).source
      BY <1>1, <2>2 DEF Cards
    <3> QED BY <1>1, <2>2, <3>1, DecidedChanges
  <2> QED BY <2>1, <2>2
<1>3. RowEffect(l)
  BY <1>2, TouchedEffect
<1> QED BY <1>2, <1>3

\* A generation that reports its failure, perhaps long after it lost the chat, changes
\* no card but the one it has reserved.
LEMMA FailIs ==
  ASSUME RecordTypes, Transcript(row.msgs), Numbered(row.msgs, runs), NEW l \in Lanes, Fail(l)
  PROVE  RowEffect(l) /\ row'.study = row.study /\ Quiet(l)
<1>1. runs' = runs /\ row \in Rows /\ row.msgs \in Seq(Messages)
  BY MsgsIn DEF Fail, RecordTypes
<1>2. CASE ~Reserved(l)
  <2>1. row' = row
    BY <1>2 DEF Fail
  <2>2. Quiet(l)
    BY <1>1, <2>1, SameIsTouched DEF Quiet
  <2> QED BY <1>1, <2>1, <2>2, SameEffect
<1>3. CASE Reserved(l)
  <2>1. Position(l) # 0 /\ Decided(l).status = "confirmed" /\ Decided(l).run = lane[l].run
    BY <1>3 DEF Reserved
  <2>2. Decided(l) # NoCard /\ Decided(l) = row.msgs[Position(l)].card
    BY <2>1, NoCardIs, PositionIs
  <2>3. row' = WithStatus(l, "failed")
    BY <1>3 DEF Fail
  <2>4. /\ row' \in Rows /\ row'.snap = row.snap /\ row'.study = row.study /\ Touched(row.msgs, row'.msgs)
        /\ \A j \in DOMAIN row.msgs \ {Position(l)} : row'.msgs[j] = row.msgs[j]
    BY <2>1, <2>2, <2>3, StatusChanges
  <2>5. Quiet(l)
    BY <2>1, <2>2, <2>4 DEF Quiet
  <2> QED BY <1>1, <2>4, <2>5, TouchedEffect
<1> QED BY <1>2, <1>3

LEMMA SameAccounted ==
  ASSUME RecordTypes, Transcript(row.msgs), Numbered(row.msgs, runs), Spent, ProgressKept, NEW l,
         row' = row, runs' \in {runs, runs + 1}, history' = history
  PROVE  RowEffect(l) /\ Spent' /\ ProgressKept'
<1>1. row \in Rows
  BY DEF RecordTypes
<1>2. RowEffect(l)
  BY <1>1, SameEffect
<1>3. Accounted
  BY DEF Accounted, history
<1> QED BY <1>2, <1>3, AccountedKeeps

-----------------------------------------------------------------------------
(* A step of a lane, action by action: what it leaves behind.              *)

Reserves(l) == Is(l, "generate") /\ chat = l /\ Position(l) # 0 => Reserved(l)
Own(l) ==
  Asks(l) /\ Unanswered(l) /\ Unasked(l) /\ Stands(l) /\ Judged(l) /\ Opened(l) /\ Reserves(l)
StoreTypes ==
  /\ budget \in Budgets
  /\ branches \in [1 .. budget.snapshots -> Seq(Marks)]
  /\ credit \in [step : Nat, rev : Nat, count : Nat]
  /\ executed \in SUBSET [action : Nat, source : Nat]
Serves(l) == RowEffect(l) /\ Spent' /\ ProgressKept' /\ Own(l)' /\ Contexts' /\ StoreTypes'

LEMMA OwnHolds ==
  ASSUME TurnsInv, NEW l \in Lanes
  PROVE  Own(l) /\ StoreTypes
BY DEF TurnsInv, Own, Reserves, ReservationKept, StoreTypes, RecordTypes

LEMMA AlikeSame ==
  ASSUME NEW m \in Seq(Messages)
  PROVE  Alike(m, m)
BY DEF Alike

LEMMA AlikeAt ==
  ASSUME NEW m \in Seq(Messages), NEW n \in Seq(Messages), Alike(m, n), Unique(m), NEW role, NEW id
  PROVE  At(n, role, id) = At(m, role, id)
<1>1. PICK i : i = At(m, role, id)
  OBVIOUS
<1>2. PICK k : k = At(n, role, id)
  OBVIOUS
<1>3. IsAt(m, role, id, i) /\ IsAt(n, role, id, k)
  BY <1>1, <1>2, AtIs
<1>4. /\ Len(m) = Len(n) /\ Len(m) \in Nat /\ DOMAIN m = 1 .. Len(m)
      /\ \A j \in 1 .. Len(m) : m[j].role = n[j].role /\ m[j].id = n[j].id
  BY DEF Alike
<1>5. i = k
  BY <1>3, <1>4 DEF IsAt, Unique
<1> QED BY <1>1, <1>2, <1>5

LEMMA KnownAlike ==
  ASSUME NEW m \in Seq(Messages), NEW n \in Seq(Messages), Alike(m, n), Transcript(m),
         NEW b \in Seq(Marks), Known(b, m), Placed(b, m)
  PROVE  Known(b, n) /\ Placed(b, n)
<1>1. /\ Len(m) = Len(n) /\ Len(m) \in Nat /\ DOMAIN m = 1 .. Len(m) /\ DOMAIN n = 1 .. Len(m)
      /\ \A j \in 1 .. Len(m) : m[j].role = n[j].role /\ m[j].id = n[j].id
  BY DEF Alike
<1>2. Known(b, n)
  BY <1>1 DEF Known
<1>3. ASSUME n # << >>, n[Len(n)].role = "assistant"
      PROVE  m # << >> /\ m[Len(m)].role = "assistant" /\ n[Len(n)].id = m[Len(m)].id /\ n[Len(n) - 1].id = m[Len(m) - 1].id
  <2>1. Len(m) \in 1 .. Len(m) /\ m # << >>
    BY <1>1, <1>3
  <2>2. m[Len(m)].role = "assistant"
    BY <1>1, <1>3, <2>1
  <2>3. Len(m) - 1 \in 1 .. Len(m)
    <3>1. Len(m) > 1
      BY <1>1, <2>1, <2>2 DEF Transcript, Pairs
    <3> QED BY <1>1, <3>1
  <2> QED BY <1>1, <2>1, <2>2, <2>3
<1>4. Placed(b, n)
  BY <1>3 DEF Placed
<1> QED BY <1>2, <1>4

LEMMA ContextsAlike ==
  ASSUME TurnsInv, row' \in Rows, row'.snap = row.snap, Alike(row.msgs, row'.msgs), branches' = branches
  PROVE  Contexts'
<1>1. row.msgs \in Seq(Messages) /\ row'.msgs \in Seq(Messages) /\ branches[row.snap] \in Seq(Marks)
  BY DEF TurnsInv, RecordTypes, Rows
<1>2. Known(branches[row.snap], row'.msgs) /\ Placed(branches[row.snap], row'.msgs)
  BY <1>1, KnownAlike DEF TurnsInv, Contexts
<1> QED BY <1>2 DEF TurnsInv, Contexts

LEMMA IdleOwn ==
  ASSUME NEW l \in Lanes, lane'[l].pc \in {"idle", "decline", "expire", "execute", "reserve", "fail"}
  PROVE  Own(l)'
BY DEF Own, Asks, Turn, TurnStages, Unanswered, Unasked, Stands, Judged, Opened, Reserves, Is

LEMMA SameStores ==
  ASSUME RecordTypes, budget' = budget, branches' = branches, history' = history
  PROVE  StoreTypes'
BY DEF RecordTypes, StoreTypes, history

\* The row changes in its cards or not at all, and the lane is given up.
LEMMA SameServes ==
  ASSUME TurnsInv, NEW l \in Lanes, row' = row, branches' = branches, history' = history, budget' = budget,
         runs' \in {runs, runs + 1}, Own(l)'
  PROVE  Serves(l)
<1>1. RecordTypes /\ row \in Rows /\ row.msgs \in Seq(Messages)
  BY MsgsIn DEF TurnsInv, RecordTypes
<1>2. RowEffect(l) /\ Spent' /\ ProgressKept'
  BY <1>1, SameAccounted DEF TurnsInv
<1>3. Contexts'
  BY <1>1, AlikeSame, ContextsAlike
<1>4. StoreTypes'
  BY <1>1, SameStores
<1> QED BY <1>2, <1>3, <1>4 DEF Serves

LEMMA AccountedServes ==
  ASSUME TurnsInv, NEW l \in Lanes, RowEffect(l), row'.study = row.study, Alike(row.msgs, row'.msgs),
         branches' = branches, history' = history, budget' = budget, Own(l)'
  PROVE  Serves(l)
<1>1. RecordTypes
  BY DEF TurnsInv
<1>2. Accounted
  BY DEF Accounted, history
<1>3. Spent' /\ ProgressKept'
  BY <1>2, AccountedKeeps DEF TurnsInv
<1>4. Contexts'
  BY ContextsAlike DEF RowEffect
<1>5. StoreTypes'
  BY <1>1, SameStores
<1> QED BY <1>3, <1>4, <1>5 DEF Serves

LEMMA EndsIdle ==
  ASSUME RecordTypes, NEW l \in Lanes, End(l)
  PROVE  lane'[l].pc = "idle" /\ Own(l)'
<1>1. lane'[l].pc = "idle"
  BY LaneEnds DEF End
<1> QED BY <1>1, IdleOwn

LEMMA ReplayServes ==
  ASSUME TurnsInv, NEW l \in Lanes, Replay(l)
  PROVE  Serves(l)
<1>1. RecordTypes /\ Own(l)'
  BY EndsIdle DEF TurnsInv, Replay
<1>2. RowEffect(l) /\ row'.study = row.study /\ Alike(row.msgs, row'.msgs)
  BY ReplayIs DEF TurnsInv
<1>3. branches' = branches /\ history' = history /\ budget' = budget
  BY DEF Replay
<1> QED BY <1>1, <1>2, <1>3, AccountedServes

\* Only cards change.
LEMMA TouchedServes ==
  ASSUME TurnsInv, NEW l \in Lanes, RowEffect(l), row'.study = row.study, Touched(row.msgs, row'.msgs),
         branches' = branches, history' = history, budget' = budget, Own(l)'
  PROVE  Serves(l)
<1>1. row.msgs \in Seq(Messages)
  BY MsgsIn DEF TurnsInv
<1>2. Alike(row.msgs, row'.msgs)
  BY <1>1, TouchedIsAlike
<1> QED BY <1>2, AccountedServes

LEMMA MarkServes ==
  ASSUME TurnsInv, NEW l \in Lanes, NEW status \in {"declined", "expired"}, Mark(l, status),
         lane[l].pc \in {"decline", "expire"}
  PROVE  Serves(l)
<1>1. RecordTypes /\ Own(l)' /\ chat = l
  BY EndsIdle DEF TurnsInv, Mark, Permits, Holding
<1>2. runs' = runs /\ branches' = branches /\ history' = history /\ budget' = budget
  BY DEF Mark
<1>3. CASE row' = row
  BY <1>1, <1>2, <1>3, SameServes
<1>4. CASE Position(l) # 0 /\ Retryable(Decided(l)) /\ row' = WithStatus(l, status)
  <2>1. RowEffect(l) /\ row'.study = row.study /\ Touched(row.msgs, row'.msgs)
    BY <1>1, <1>2, <1>4, MarkIs DEF TurnsInv
  <2> QED BY <1>1, <1>2, <2>1, TouchedServes
<1> QED BY <1>3, <1>4 DEF Mark

LEMMA FailServes ==
  ASSUME TurnsInv, NEW l \in Lanes, Fail(l)
  PROVE  Serves(l)
<1>1. RecordTypes /\ Own(l)'
  BY EndsIdle DEF TurnsInv, Fail
<1>2. branches' = branches /\ history' = history /\ budget' = budget
  BY DEF Fail
<1>3. RowEffect(l) /\ row'.study = row.study /\ Touched(row.msgs, row'.msgs)
  BY <1>1, FailIs DEF TurnsInv, Quiet
<1> QED BY <1>1, <1>2, <1>3, TouchedServes

LEMMA AppliedServes ==
  ASSUME TurnsInv, NEW l \in Lanes, Position(l) # 0, Decided(l) # NoCard, Decided(l).status # "executed", Unspent(l),
         lane[l].pc \in {"execute", "generate"}, NEW step \in Nat, NEW total \in Nat, Apply(l, step, total),
         runs' = runs, branches' = branches, budget' = budget, Own(l)'
  PROVE  Serves(l)
<1>1. RecordTypes /\ chat = l /\ lane[l].pc \in DecisionStages
  BY DEF TurnsInv, Permits, Holding, DecisionStages
<1>2. RowEffect(l) /\ Alike(row.msgs, row'.msgs) /\ Spent' /\ ProgressKept'
  BY <1>1, AppliedAccounts DEF TurnsInv
<1>3. Contexts'
  BY <1>2, ContextsAlike DEF RowEffect
<1>4. StoreTypes'
  <2>1. lane[l].action \in Nat
    BY <1>1, LaneKinds DEF Decisions
  <2>2. Decided(l).source \in Nat
    BY <1>1, PositionIs DEF Cards
  <2>3. PICK x : x = [action |-> lane[l].action, source |-> Decided(l).source]
    OBVIOUS
  <2>4. x \in [action : Nat, source : Nat]
    BY <2>1, <2>2, <2>3
  <2>5. executed' = executed \cup {x}
    BY <2>3 DEF Apply
  <2>6. credit' = [step |-> step, rev |-> credit.rev + 1, count |-> credit.count + 1]
    BY DEF Apply
  <2> QED BY <1>1, <2>4, <2>5, <2>6 DEF RecordTypes, StoreTypes
<1> QED BY <1>2, <1>3, <1>4 DEF Serves

LEMMA ExecuteServes ==
  ASSUME TurnsInv, NEW l \in Lanes, Execute(l)
  PROVE  Serves(l)
<1>1. RecordTypes /\ Own(l)' /\ lane[l].pc = "execute"
  BY EndsIdle DEF TurnsInv, Execute, Is
<1>2. runs' = runs /\ branches' = branches /\ budget' = budget /\ chat = l
  BY <1>1 DEF Execute, TurnsInv, Permits, Holding
<1>3. CASE UNCHANGED <<row, history>>
  BY <1>1, <1>2, <1>3, SameServes
<1>4. CASE Position(l) # 0 /\ Retryable(Decided(l)) /\ row' = WithStatus(l, "expired") /\ UNCHANGED history
  <2>1. RowEffect(l) /\ row'.study = row.study /\ Touched(row.msgs, row'.msgs)
    BY <1>1, <1>2, <1>4, MarkIs DEF TurnsInv
  <2> QED BY <1>1, <1>2, <1>4, <2>1, TouchedServes
<1>5. CASE Position(l) # 0 /\ Retryable(Decided(l)) /\ Unspent(l) /\ Apply(l, row.study.step + 1, row.study.total)
  <2>1. row.study.step + 1 \in Nat /\ row.study.total \in Nat
    BY <1>1, MsgsIn DEF Studies
  <2>2. Decided(l) # NoCard /\ Decided(l).status # "executed"
    BY <1>1, <1>5, PositionIs, RetryableIs
  <2> QED BY <1>1, <1>2, <1>5, <2>1, <2>2, AppliedServes
<1> QED BY <1>3, <1>4, <1>5 DEF Execute

LEMMA CompleteServes ==
  ASSUME TurnsInv, NEW l \in Lanes, Complete(l) \/ GenerationFails(l)
  PROVE  Serves(l)
<1>1. RecordTypes /\ lane[l].pc = "generate"
  BY DEF TurnsInv, Complete, GenerationFails, Is
<1>2. runs' = runs /\ branches' = branches /\ budget' = budget
  BY DEF Complete, GenerationFails, stores
<1>3. CASE UNCHANGED <<row, history>> /\ Goto(l, "fail")
  <2>1. lane'[l].pc = "fail"
    BY <1>1, <1>3, DecisionGoes DEF Goto, DecisionStages, DecisionMoves
  <2>2. Own(l)'
    BY <2>1, IdleOwn
  <2> QED BY <1>1, <1>2, <1>3, <2>2, SameServes
<1>4. CASE Reserved(l) /\ Unspent(l) /\ Apply(l, 0, Steps) /\ End(l) /\ Position(l) # 0
  <2>1. Own(l)'
    BY <1>1, <1>4, EndsIdle
  <2>2. Decided(l) # NoCard /\ Decided(l).status # "executed"
    BY <1>4, NoCardIs DEF Reserved
  <2>3. 0 \in Nat /\ Steps \in Nat
    BY TurnsAssumption
  <2> QED BY <1>1, <1>2, <1>4, <2>1, <2>2, <2>3, AppliedServes
<1>5. Reserved(l) => Position(l) # 0
  BY DEF Reserved
<1> QED BY <1>1, <1>3, <1>4, <1>5 DEF Complete, GenerationFails, stores

LEMMA ReserveServes ==
  ASSUME TurnsInv, NEW l \in Lanes, Reserve(l)
  PROVE  Serves(l)
<1>1. RecordTypes /\ lane[l].pc = "reserve"
  BY DEF TurnsInv, Reserve, Is
<1>2. runs' = runs /\ branches' = branches /\ budget' = budget /\ history' = history /\ chat = l
  BY <1>1 DEF Reserve, TurnsInv, Permits, Holding
<1>3. CASE row' = row /\ End(l)
  BY <1>1, <1>2, <1>3, EndsIdle, SameServes
<1>4. PICK card : card = [Decided(l) EXCEPT !.status = "confirmed", !.run = lane[l].run, !.due = FALSE]
  OBVIOUS
<1>5. CASE Position(l) # 0 /\ Retryable(Decided(l)) /\ row' = WithCard(Position(l), card) /\ Goto(l, "generate")
  <2>1. lane[l].run \in Nat /\ Decided(l) \in Cards /\ Decided(l) # NoCard /\ Decided(l).status # "executed"
    BY <1>1, <1>5, LaneKinds, PositionIs, RetryableIs DEF DecisionStages, Decisions
  <2>2. RowEffect(l) /\ row'.study = row.study /\ Touched(row.msgs, row'.msgs)
    BY <1>1, <1>2, <1>4, <1>5, <2>1, MarkIs DEF TurnsInv
  <2>3. card \in Cards /\ card.source = Decided(l).source /\ card.status = "confirmed" /\ card.run = lane[l].run
    BY <1>4, <2>1 DEF Cards
  <2>4. row'.msgs[Position(l)].card = card
    BY <1>1, <1>5, <2>1, <2>3, DecidedChanges
  <2>5. lane'[l].pc = "generate" /\ lane'[l].run = lane[l].run /\ lane'[l].action = lane[l].action
    BY <1>1, <1>5, DecisionGoes DEF Goto, DecisionStages, DecisionMoves
  <2>6. At(row'.msgs, "assistant", lane[l].action) = At(row.msgs, "assistant", lane[l].action)
    <3>1. row.msgs \in Seq(Messages) /\ row'.msgs \in Seq(Messages) /\ Unique(row.msgs)
      BY <1>1, <2>2, MsgsIn DEF TurnsInv, Transcript, Touched
    <3> QED BY <2>2, <3>1, TouchedIsAlike, AlikeAt
  <2>7. Reserves(l)'
    BY <2>3, <2>4, <2>5, <2>6 DEF Reserves, Reserved, Decided, Position
  <2>8. Own(l)'
    BY <2>5, <2>7 DEF Own, Asks, Turn, TurnStages, Unanswered, Unasked, Stands, Judged, Opened
  <2> QED BY <1>2, <2>2, <2>8, TouchedServes
<1> QED BY <1>3, <1>4, <1>5 DEF Reserve

LEMMA StartServes ==
  ASSUME TurnsInv, NEW l \in Lanes, NEW edits \in BOOLEAN, NEW same \in BOOLEAN, Start(l, edits, same)
  PROVE  Serves(l)
<1>1. RecordTypes /\ Numbered(row.msgs, runs) /\ Transcript(row.msgs) /\ Spent /\ ProgressKept /\ row \in Rows
  BY DEF TurnsInv, RecordTypes
<1>2. /\ StartedTurn(l, edits) /\ row' = Migrated(row)
      /\ credit' = (IF Migrates THEN [credit EXCEPT !.rev = credit.rev + 1] ELSE credit)
  BY <1>1, StartAdmits
<1>3. /\ row' \in Rows /\ row'.msgs = row.msgs /\ row'.snap = row.snap /\ row'.study.step = row.study.step
      /\ row'.study.rev = IF row.study.snap = row.snap THEN row.study.rev ELSE row.study.rev + 1
  BY <1>1, <1>2, MigratedIs
<1>4. /\ branches' = branches /\ budget' = budget /\ executed' = executed /\ runs' = runs + 1
      /\ row.msgs \in Seq(Messages) /\ runs \in Nat /\ DOMAIN row.msgs = 1 .. Len(row.msgs)
  BY <1>1, MsgsIn DEF Start
<1>5. RowEffect(l)
  BY <1>1, <1>3, <1>4, SameEffect
<1>6. /\ credit' \in [step : Nat, rev : Nat, count : Nat] /\ credit'.count = credit.count
      /\ credit'.step = credit.step /\ credit'.rev = IF Migrates THEN credit.rev + 1 ELSE credit.rev
  <2>1. credit \in [step : Nat, rev : Nat, count : Nat]
    BY <1>1 DEF RecordTypes
  <2> QED BY <1>2, <2>1
<1>7. Spent'
  BY <1>1, <1>4, <1>5, <1>6, SpentKept DEF RowEffect
<1>8. ProgressKept'
  BY <1>1, <1>3, <1>6 DEF ProgressKept, Migrates
<1>9. Contexts'
  <2>1. Alike(row.msgs, row'.msgs)
    BY <1>3, <1>4, AlikeSame
  <2> QED BY <1>3, <1>4, <2>1, ContextsAlike
<1>10. StoreTypes'
  BY <1>1, <1>4, <1>6 DEF RecordTypes, StoreTypes
<1>11. PICK k : k = LastUser(row.msgs)
  OBVIOUS
<1>12. /\ lane'[l].pc \in {"replay", "prepare"} /\ lane'[l].edits = edits /\ lane'[l].run = runs + 1
       /\ lane'[l].read.msgs = row.msgs /\ lane'[l].read.snap = row.snap /\ lane'[l] \in Turns
       /\ lane'[l].user.role = "user" /\ lane'[l].user.run = runs + 1 /\ lane'[l].user.card = NoCard
       /\ ~edits => lane'[l].user.id = runs + 1 /\ lane'[l].user.applied = 0
       /\ edits => k # 0 /\ lane'[l].user.id = row.msgs[k].id /\ lane'[l].user.applied = Applied(row.msgs, k)
  BY <1>2, <1>11 DEF StartedTurn, Admitted
<1>13. edits => /\ k \in 1 .. Len(row.msgs) /\ row.msgs[k].id \in 1 .. runs
                /\ Applied(row.msgs, k) \in 0 .. runs /\ (row.msgs[k].applied # 0 => Applied(row.msgs, k) # 0)
  <2>1. edits => k \in 1 .. Len(row.msgs)
    BY <1>4, <1>11, <1>12, LastUserIs DEF IsLastUser
  <2> QED BY <1>1, <1>4, <2>1, AppliedIs DEF Numbered
<1>14. Asks(l)'
  <2>1. lane'[l].user.id \in 1 .. runs + 1 /\ lane'[l].user.applied < runs + 1
    BY <1>4, <1>12, <1>13
  <2> QED BY <1>12, <2>1 DEF Asks
<1>15. \A i \in DOMAIN row.msgs : row.msgs[i].id # runs + 1 /\ row.msgs[i].run # runs + 1
  BY <1>1, <1>4 DEF Numbered
<1>16. Unanswered(l)' /\ Unasked(l)'
  BY <1>3, <1>12, <1>15 DEF Unanswered, Unasked
<1>17. Stands(l)'
  <2>1. Alike(row.msgs, row.msgs)
    BY <1>4, AlikeSame
  <2> QED BY <1>3, <1>11, <1>12, <1>13, <2>1 DEF Stands, EditsLast
<1>18. Opened(l)'
  <2>1. row.snap \in 1 .. row.snap
    <3>1. row.snap \in 1 .. budget.snapshots
      BY <1>1 DEF RecordTypes
    <3> QED BY <1>1, <3>1, BudgetIs
  <2>2. \A s \in DOMAIN branches : s > row.snap => branches[s] = << >>
    BY DEF TurnsInv, Contexts
  <2> QED BY <1>3, <1>4, <1>12, <2>1, <2>2 DEF Opened
<1>19. Own(l)'
  BY <1>12, <1>14, <1>16, <1>17, <1>18 DEF Own, Judged, Reserves, Is
<1> QED BY <1>5, <1>7, <1>8, <1>9, <1>10, <1>19 DEF Serves

LEMMA DecideServes ==
  ASSUME TurnsInv, NEW l \in Lanes, NEW wish, Decide(l, wish)
  PROVE  Serves(l)
<1>1. RecordTypes
  BY DEF TurnsInv
<1>2. lane'[l].pc \in {"expire", "decline", "reserve", "execute"} /\ runs' = runs + 1
  BY <1>1, DecideAdmits DEF DecidesOn, Admitted
<1>3. Own(l)'
  BY <1>2, IdleOwn
<1>4. row' = row /\ branches' = branches /\ budget' = budget /\ history' = history
  BY DEF Decide, stores, history
<1> QED BY <1>2, <1>3, <1>4, SameServes

\* What a turn that goes on takes along.
LEMMA TurnKeepsAsking ==
  ASSUME NEW l \in Lanes, NEW s, TurnMoves(l, s), Asks(l), Turn(l)
  PROVE  Asks(l)'
BY DEF TurnMoves, Asks

LEMMA TurnHolds ==
  ASSUME TurnsInv, NEW l \in Lanes, lane[l].pc \in TurnStages
  PROVE  /\ RecordTypes /\ Turn(l) /\ lane[l] \in Turns /\ Own(l)
         /\ Transcript(row.msgs) /\ Numbered(row.msgs, runs) /\ Requests /\ Permits
         /\ row \in Rows /\ row.msgs \in Seq(Messages) /\ row.snap \in 1 .. budget.snapshots /\ budget.snapshots \in Nat
         /\ lane[l].read.snap \in 1 .. row.snap /\ lane[l].read.snap \in DOMAIN branches
         /\ DOMAIN branches = 1 .. budget.snapshots /\ row.snap \in DOMAIN branches
<1>1. RecordTypes /\ Own(l) /\ Transcript(row.msgs) /\ Numbered(row.msgs, runs) /\ Requests /\ Permits
  BY OwnHolds DEF TurnsInv
<1>2. Turn(l) /\ lane[l] \in Turns
  BY <1>1, LaneKinds DEF Turn
<1>3. row \in Rows /\ row.msgs \in Seq(Messages) /\ row.snap \in 1 .. budget.snapshots /\ budget.snapshots \in Nat
      /\ DOMAIN branches = 1 .. budget.snapshots
  BY <1>1, MsgsIn, BudgetIs DEF RecordTypes
<1>4. lane[l].read.snap \in 1 .. row.snap
  BY <1>1, <1>2 DEF Own, Opened
<1>5. lane[l].read.snap \in 1 .. budget.snapshots
  BY <1>3, <1>4
<1> QED BY <1>1, <1>2, <1>3, <1>4, <1>5

\* The turn cannot begin.
LEMMA UndoingServes ==
  ASSUME TurnsInv, NEW l \in Lanes, lane[l].pc = "begin", Goto(l, "undo"), row' = row, branches' = branches,
         history' = history, budget' = budget, runs' = runs
  PROVE  Serves(l)
<1>1. RecordTypes /\ Own(l) /\ Turn(l)
  BY TurnHolds DEF TurnStages
<1>2. TurnMoves(l, "undo") /\ lane'[l].leaf = lane[l].leaf /\ chat' = chat /\ session' = session
  BY <1>1, TurnGoes DEF TurnStages
<1>3. Asks(l)'
  BY <1>1, <1>2, TurnKeepsAsking DEF Own
<1>4. Opened(l)'
  BY <1>1, <1>2 DEF Own, Opened, TurnMoves
<1>5. Own(l)'
  BY <1>2, <1>3, <1>4 DEF Own, TurnMoves, Unanswered, Unasked, Stands, Judged, Reserves, Is
<1> QED BY <1>5, SameServes

LEMMA AnswerServes ==
  ASSUME TurnsInv, NEW l \in Lanes, Answer(l)
  PROVE  Serves(l)
<1>1. RecordTypes /\ Own(l) /\ Turn(l) /\ lane[l].pc = "running"
  BY TurnHolds DEF TurnStages, Answer, Is
<1>2. /\ TurnMoves(l, "saving") /\ Judged(l)' /\ chat' = chat /\ session' = session /\ runs' = runs
      /\ row' = row /\ branches' = branches
  BY <1>1, AnswerIs DEF Own
<1>3. Asks(l)'
  BY <1>1, <1>2, TurnKeepsAsking DEF Own
<1>4. Unanswered(l)' /\ Unasked(l)' /\ Stands(l)' /\ Opened(l)'
  BY <1>1, <1>2 DEF Own, Opened, TurnMoves, Unanswered, Unasked, Stands
<1>5. Own(l)'
  BY <1>2, <1>3, <1>4 DEF Own, TurnMoves, Reserves, Is
<1>6. budget' = budget /\ history' = history
  BY DEF Answer
<1> QED BY <1>2, <1>5, <1>6, SameServes

LEMMA StallServes ==
  ASSUME TurnsInv, NEW l \in Lanes, Stall(l)
  PROVE  Serves(l)
<1>1. RecordTypes /\ Own(l) /\ Turn(l) /\ TurnOpen(l)
  <2>1. lane[l].pc \in TurnStages
    BY DEF Stall, TurnOpen, TurnStages
  <2> QED BY <2>1, TurnHolds DEF Stall
<1>2. chat' # l /\ session' # l /\ lane' = lane
  BY <1>1, ReleasedLetsGo DEF Stall, LetGo
<1>3. row' = row /\ branches' = branches /\ history' = history /\ budget' = budget /\ runs' = runs
  BY DEF Stall, stores
<1>4. Asks(l)' /\ Unanswered(l)' /\ Unasked(l)' /\ Judged(l)'
  BY <1>1, <1>2, <1>3 DEF Own, Asks, Turn, Unanswered, Unasked, Judged
<1>5. Stands(l)'
  BY <1>2 DEF Stands
<1>6. Opened(l)'
  BY <1>1, <1>2, <1>3 DEF Own, Opened, Turn
<1>7. Own(l)'
  BY <1>1, <1>2, <1>4, <1>5, <1>6 DEF Own, Reserves, Is, TurnOpen
<1> QED BY <1>3, <1>7, SameServes

LEMMA AbandonServes ==
  ASSUME TurnsInv, NEW l \in Lanes, Abandon(l)
  PROVE  Serves(l)
<1>1. RecordTypes /\ row' = row /\ branches' = branches /\ history' = history /\ budget' = budget /\ runs' = runs
  BY DEF Abandon, stores, TurnsInv
<1>2. CASE Is(l, "begin") /\ Goto(l, "undo")
  BY <1>1, <1>2, UndoingServes DEF Is
<1>3. CASE Is(l, "generate") /\ lane' = [lane EXCEPT ![l].pc = "fail"]
  <2>1. lane'[l].pc = "fail"
    BY <1>1, <1>3, DecisionGoes DEF Is, DecisionStages, DecisionMoves
  <2> QED BY <1>1, <2>1, IdleOwn, SameServes
<1>4. CASE End(l)
  BY <1>1, <1>4, EndsIdle, SameServes
<1> QED BY <1>2, <1>3, <1>4 DEF Abandon

LEMMA CrashServes ==
  ASSUME TurnsInv, NEW l \in Lanes, Crash(l)
  PROVE  Serves(l)
<1>1. RecordTypes /\ row' = row /\ branches' = branches /\ history' = history /\ budget' = budget /\ runs' = runs
  BY DEF Crash, stores, TurnsInv
<1>2. lane'[l].pc = "idle"
  BY <1>1, LaneEnds DEF Crash
<1> QED BY <1>1, <1>2, IdleOwn, SameServes

\* A turn writes the branch of the snapshot it read.
LEMMA WrittenServes ==
  ASSUME TurnsInv, NEW l \in Lanes, lane[l].pc \in TurnStages, NEW b \in Seq(Marks),
         branches' = [branches EXCEPT ![lane[l].read.snap] = b],
         lane[l].read.snap = row.snap => Known(b, row.msgs) /\ Placed(b, row.msgs),
         row' = row, history' = history, budget' = budget, runs' = runs, Own(l)'
  PROVE  Serves(l)
<1>1. /\ RecordTypes /\ row.snap \in Nat /\ budget.snapshots \in Nat /\ lane[l].read.snap \in 1 .. row.snap
      /\ lane[l].read.snap \in DOMAIN branches /\ row.snap \in DOMAIN branches
      /\ DOMAIN branches = 1 .. budget.snapshots
  BY TurnHolds, MsgsIn
<1>2. RowEffect(l) /\ Spent' /\ ProgressKept'
  BY <1>1, SameAccounted DEF TurnsInv
<1>3. branches \in [1 .. budget.snapshots -> Seq(Marks)]
  BY <1>1 DEF RecordTypes
<1>4. branches' \in [1 .. budget.snapshots -> Seq(Marks)]
  BY <1>1, <1>3
<1>5. StoreTypes'
  BY <1>1, <1>4 DEF RecordTypes, StoreTypes, history
<1>6. ASSUME NEW s \in DOMAIN branches
      PROVE  branches'[s] = IF s = lane[l].read.snap THEN b ELSE branches[s]
  BY <1>3
<1>7. Known(branches'[row.snap], row.msgs) /\ Placed(branches'[row.snap], row.msgs)
  BY <1>1, <1>6 DEF TurnsInv, Contexts
<1>8. \A s \in DOMAIN branches' : s > row.snap => branches'[s] = << >>
  <2> SUFFICES ASSUME NEW s \in DOMAIN branches, s > row.snap
               PROVE  branches'[s] = << >>
    BY <1>1, <1>4
  <2>1. s # lane[l].read.snap
    BY <1>1
  <2> QED BY <1>6, <2>1 DEF TurnsInv, Contexts
<1>9. Contexts'
  BY <1>7, <1>8 DEF Contexts
<1> QED BY <1>2, <1>5, <1>9 DEF Serves

LEMMA MarkOf ==
  ASSUME NEW e \in Marks
  PROVE  e[1] \in {"turn", "answer"} /\ e[2] \in Nat /\ e = <<e[1], e[2]>>
BY DEF Marks

\* Answers from before the last question are known, and none answers it.
LEMMA TrimmedKnown ==
  ASSUME NEW m \in Seq(Messages), Transcript(m), NEW b \in Seq(Marks), Trimmed(b, m)
  PROVE  Known(b, m) /\ Placed(b, m)
<1>1. Known(b, m)
  BY DEF Trimmed, Known
<1>2. ASSUME m # << >>, m[Len(m)].role = "assistant", NEW j \in DOMAIN b, b[j] = AnswerMark(m[Len(m)].id)
      PROVE  FALSE
  <2>1. DOMAIN m = 1 .. Len(m) /\ Len(m) \in 1 .. Len(m) /\ m[Len(m)] \in Messages
    BY <1>2
  <2>2. b[j][1] = "answer" /\ b[j][2] = m[Len(m)].id
    BY <1>2 DEF AnswerMark
  <2>3. PICK i \in DOMAIN m : i < LastUser(m) /\ m[i].role = "assistant" /\ m[i].id = b[j][2]
    BY <2>2 DEF Trimmed
  <2>4. i = Len(m)
    BY <1>2, <2>1, <2>2, <2>3 DEF Transcript, Unique
  <2>5. LastUser(m) \in 0 .. Len(m)
    BY LastUserIs DEF IsLastUser
  <2> QED BY <2>1, <2>3, <2>4, <2>5
<1>3. Placed(b, m)
  BY <1>2 DEF Placed
<1> QED BY <1>1, <1>3

LEMMA CutTrims ==
  ASSUME TurnsInv, NEW l \in Lanes, lane[l].pc = "prepare", lane[l].edits, chat = l, lane[l].read.snap = row.snap
  PROVE  Cut(Branch(l), l) \in Seq(Marks) /\ Trimmed(Cut(Branch(l), l), row.msgs)
<1>1. PICK m : m = row.msgs
  OBVIOUS
<1>2. PICK k : k = LastUser(m)
  OBVIOUS
<1>3. PICK b : b = Branch(l)
  OBVIOUS
<1>4. PICK c : c = Cut(b, l)
  OBVIOUS
<1>5. /\ RecordTypes /\ Transcript(m) /\ Stands(l) /\ m \in Seq(Messages) /\ DOMAIN m = 1 .. Len(m)
      /\ branches[row.snap] \in Seq(Marks)
  <2>1. RecordTypes /\ Own(l) /\ row.snap \in DOMAIN branches
    BY TurnHolds DEF TurnStages
  <2>2. branches[row.snap] \in Seq(Marks)
    BY <2>1 DEF RecordTypes
  <2> QED BY <1>1, <2>1, <2>2, MsgsIn DEF TurnsInv, Own
<1>6. b = branches[row.snap] /\ b \in Seq(Marks) /\ Known(b, m) /\ Placed(b, m)
  BY <1>1, <1>3, <1>5 DEF Branch, TurnsInv, Contexts
<1>7. /\ k \in 1 .. Len(m) /\ m[k].role = "user" /\ m[k].id = lane[l].user.id
      /\ Len(m) \in {k, k + 1}
  BY <1>1, <1>2, <1>5, EditedIs, OneAnswerFollows DEF Transcript
<1>8. /\ c \in Seq(Marks)
      /\ \/ \E i \in DOMAIN b : b[i] = TurnMark(lane[l].user.id) /\ c = SubSeq(b, 1, i - 1)
         \/ KnownBefore(c, m, k - 1)
  BY <1>1, <1>2, <1>3, <1>4, <1>5, <1>6, CutIs
<1>9. ASSUME NEW i \in DOMAIN b, b[i] = TurnMark(lane[l].user.id), c = SubSeq(b, 1, i - 1)
      PROVE  Trimmed(c, m)
  <2> SUFFICES ASSUME NEW x \in DOMAIN c, c[x][1] = "answer"
               PROVE  \E j \in DOMAIN m : j < k /\ m[j].role = "assistant" /\ m[j].id = c[x][2]
    BY <1>2 DEF Trimmed
  <2>1. i \in 1 .. Len(b) /\ DOMAIN b = 1 .. Len(b) /\ Len(b) \in Nat
    BY <1>6, <1>9
  <2>2. x \in 1 .. i - 1 /\ c[x] = b[x]
    <3>1. Len(c) = i - 1 /\ \A y \in 1 .. i - 1 : c[y] = b[y]
      BY <1>6, <1>9, <2>1
    <3>2. x \in 1 .. Len(c)
      BY <1>8
    <3> QED BY <3>1, <3>2
  <2>3. x \in DOMAIN b /\ b[x] \in Marks
    BY <1>6, <2>1, <2>2
  <2>4. PICK j \in DOMAIN m : m[j].role = "assistant" /\ m[j].id = b[x][2]
    BY <1>6, <2>2, <2>3 DEF Known
  <2>5. ASSUME j > k
        PROVE  FALSE
    <3>1. j = Len(m) /\ Len(m) = k + 1 /\ m # << >>
      <4>1. j \in 1 .. Len(m) /\ Len(m) \in Nat /\ k \in 1 .. Len(m) /\ Len(m) \in {k, k + 1}
        <5>1. j \in 1 .. Len(m)
          BY <1>5, Zenon
        <5>2. Len(m) \in Nat
          BY <1>5
        <5> QED BY <1>7, <5>1, <5>2, Zenon
      <4>2. m # << >>
        BY <4>1
      <4> QED BY <2>5, <4>1, <4>2
    <3>2. b[x] = AnswerMark(m[Len(m)].id)
      BY <2>2, <2>3, <2>4, <3>1, MarkOf DEF AnswerMark
    <3>3. b[i] = TurnMark(m[Len(m) - 1].id)
      BY <1>7, <1>9, <3>1
    <3>4. i < x
      BY <1>6, <1>9, <2>3, <2>4, <3>1, <3>2, <3>3 DEF Placed
    <3> QED BY <2>1, <2>2, <3>4
  <2>6. j # k
    BY <1>7, <2>4
  <2>7. j < k
    <3>1. j \in 1 .. Len(m) /\ k \in 1 .. Len(m)
      BY <1>5, <1>7, Zenon
    <3> QED BY <2>5, <2>6, <3>1
  <2> QED BY <2>2, <2>4, <2>7
<1>10. ASSUME KnownBefore(c, m, k - 1)
       PROVE  Trimmed(c, m)
  <2>1. \A j \in 1 .. k - 1 : j \in DOMAIN m /\ j < k
    BY <1>5, <1>7
  <2> QED BY <1>2, <1>10, <2>1 DEF KnownBefore, Trimmed
<1> QED BY <1>1, <1>3, <1>4, <1>8, <1>9, <1>10

\* The mark of a question is added.
TurnPut(b, id) == Append(b, TurnMark(id))

LEMMA TurnAdded ==
  ASSUME NEW b \in Seq(Marks), NEW id \in Nat, NEW c, c = TurnPut(b, id), NEW m
  PROVE  /\ c \in Seq(Marks)
         /\ Known(b, m) => Known(c, m)
         /\ Trimmed(b, m) => Trimmed(c, m)
         /\ Placed(b, m) /\ (m # << >> /\ m[Len(m)].role = "assistant" => m[Len(m) - 1].id # id) => Placed(c, m)
<1>1. PICK t \in Marks : t = TurnMark(id) /\ t[1] = "turn" /\ t[2] = id
  BY MarksAre
<1>2. c = Append(b, t)
  BY <1>1 DEF TurnPut
<1>3. /\ c \in Seq(Marks) /\ DOMAIN c = 1 .. Len(b) + 1 /\ DOMAIN b = 1 .. Len(b) /\ Len(b) \in Nat
      /\ c[Len(b) + 1] = t /\ \A i \in 1 .. Len(b) : c[i] = b[i]
  BY <1>2
<1>4. ASSUME NEW i \in DOMAIN c
      PROVE  (i \in DOMAIN b /\ c[i] = b[i]) \/ (i = Len(b) + 1 /\ c[i] = t)
  <2>1. CASE i \in 1 .. Len(b)
    BY <1>3, <2>1
  <2>2. CASE i = Len(b) + 1
    BY <1>3, <2>2
  <2>3. i \in 1 .. Len(b) + 1 /\ Len(b) \in Nat
    BY <1>3, Zenon
  <2> QED BY <2>1, <2>2, <2>3
<1>5. \A i \in DOMAIN c : c[i][1] = "answer" => i \in DOMAIN b /\ c[i] = b[i]
  BY <1>1, <1>4
<1>6. Known(b, m) => Known(c, m)
  BY <1>5 DEF Known
<1>7. Trimmed(b, m) => Trimmed(c, m)
  BY <1>5 DEF Trimmed
<1>8. ASSUME Placed(b, m), m # << >>, m[Len(m)].role = "assistant", m[Len(m) - 1].id # id,
             NEW i \in DOMAIN c, NEW j \in DOMAIN c,
             c[i] = TurnMark(m[Len(m) - 1].id), c[j] = AnswerMark(m[Len(m)].id)
      PROVE  i < j
  <2>1. c[i][2] # id /\ c[j][1] = "answer"
    BY <1>8 DEF TurnMark, AnswerMark
  <2>2. i \in DOMAIN b /\ j \in DOMAIN b /\ b[i] = c[i] /\ b[j] = c[j]
    BY <1>1, <1>4, <1>5, <2>1
  <2> QED BY <1>8, <2>2 DEF Placed
<1>9. Placed(b, m) /\ (m # << >> /\ m[Len(m)].role = "assistant" => m[Len(m) - 1].id # id) => Placed(c, m)
  BY <1>8 DEF Placed
<1> QED BY <1>3, <1>6, <1>7, <1>9

LEMMA PrepareServes ==
  ASSUME TurnsInv, NEW l \in Lanes, Prepare(l)
  PROVE  Serves(l)
<1>1. /\ RecordTypes /\ Turn(l) /\ lane[l] \in Turns /\ Own(l) /\ Transcript(row.msgs)
      /\ row.msgs \in Seq(Messages) /\ DOMAIN row.msgs = 1 .. Len(row.msgs)
      /\ row.snap \in DOMAIN branches /\ lane[l].read.snap \in DOMAIN branches
      /\ lane[l].read.snap \in 1 .. row.snap
      /\ branches \in [1 .. budget.snapshots -> Seq(Marks)]
  <2>1. lane[l].pc \in TurnStages
    BY DEF Prepare, Is, TurnStages
  <2> QED BY <2>1, TurnHolds DEF RecordTypes
<1>2. /\ Branch(l) \in Seq(Marks) /\ Onto(l) \in Seq(Marks)
      /\ branches' = [branches EXCEPT ![lane[l].read.snap] = Append(Onto(l), TurnMark(lane[l].user.id))]
      /\ TurnMoves(l, "begin") /\ lane'[l].leaf = Branch(l)
      /\ lane[l].pc = "prepare" /\ chat = l /\ chat' = l /\ session' = l /\ runs' = runs
  BY <1>1, PrepareIs DEF Own
<1>3. row' = row /\ history' = history /\ budget' = budget
  BY DEF Prepare
<1>4. PICK b : b = TurnPut(Onto(l), lane[l].user.id)
  OBVIOUS
<1>5. lane[l].user.id \in Nat
  BY <1>1 DEF Turns, Messages
<1>6. branches' = [branches EXCEPT ![lane[l].read.snap] = b] /\ b \in Seq(Marks)
  <2>1. b \in Seq(Marks)
    <3>1. PICK o \in Seq(Marks) : o = Onto(l)
      BY <1>2
    <3>2. PICK id \in Nat : id = lane[l].user.id
      BY <1>5
    <3>3. b = TurnPut(o, id)
      BY <1>4, <3>1, <3>2
    <3> QED BY <3>3, TurnAdded
  <2> QED BY <1>2, <1>4, <2>1 DEF TurnPut
<1>7. ASSUME lane[l].read.snap = row.snap
      PROVE  /\ Known(b, row.msgs) /\ Placed(b, row.msgs) /\ (lane[l].edits => Trimmed(b, row.msgs))
             /\ Known(Branch(l), row.msgs) /\ Placed(Branch(l), row.msgs)
  <2>1. Known(Branch(l), row.msgs) /\ Placed(Branch(l), row.msgs)
    BY <1>7 DEF TurnsInv, Contexts, Branch
  <2>2. CASE lane[l].edits
    <3>1. Trimmed(Onto(l), row.msgs)
      BY <1>2, <1>7, <2>2, CutTrims DEF Onto
    <3>2. Onto(l) \in Seq(Marks)
      BY <1>2
    <3>3. Trimmed(b, row.msgs)
      <4>1. PICK o \in Seq(Marks) : o = Onto(l)
        BY <3>2
      <4>2. PICK id \in Nat : id = lane[l].user.id
        BY <1>5
      <4>3. PICK m : m = row.msgs
        OBVIOUS
      <4>4. b = TurnPut(o, id) /\ Trimmed(o, m)
        BY <1>4, <3>1, <4>1, <4>2, <4>3
      <4>5. Trimmed(b, m)
        BY <4>4, TurnAdded
      <4> QED BY <4>3, <4>5
    <3> QED BY <1>1, <1>6, <2>1, <2>2, <3>3, TrimmedKnown
  <2>3. CASE ~lane[l].edits
    <3>1. Onto(l) = Branch(l)
      BY <2>3 DEF Onto
    <3>2. ASSUME row.msgs # << >>, row.msgs[Len(row.msgs)].role = "assistant"
          PROVE  row.msgs[Len(row.msgs) - 1].id # lane[l].user.id
      <4>1. Len(row.msgs) \in DOMAIN row.msgs
        BY <1>1, <3>2
      <4>2. Len(row.msgs) > 1 /\ row.msgs[Len(row.msgs) - 1].role = "user"
        BY <1>1, <3>2, <4>1 DEF Transcript, Pairs
      <4>3. Len(row.msgs) - 1 \in DOMAIN row.msgs
        BY <1>1, <4>1, <4>2
      <4>4. row.msgs[Len(row.msgs) - 1].id # lane[l].run
        BY <1>1, <1>2, <2>3, <4>2, <4>3 DEF Own, Unasked
      <4> QED BY <1>1, <2>3, <4>4 DEF Own, Asks
    <3>3. Known(b, row.msgs) /\ Placed(b, row.msgs)
      <4>1. PICK o \in Seq(Marks) : o = Branch(l)
        BY <1>2
      <4>2. PICK id \in Nat : id = lane[l].user.id
        BY <1>5
      <4>3. PICK m : m = row.msgs
        OBVIOUS
      <4>4. b = TurnPut(o, id) /\ Known(o, m) /\ Placed(o, m)
        BY <1>4, <2>1, <3>1, <4>1, <4>2, <4>3
      <4>5. m # << >> /\ m[Len(m)].role = "assistant" => m[Len(m) - 1].id # id
        BY <3>2, <4>2, <4>3
      <4>6. Known(b, m) /\ Placed(b, m)
        BY <4>4, <4>5, TurnAdded
      <4> QED BY <4>3, <4>6
    <3> QED BY <2>1, <2>3, <3>3
  <2> QED BY <2>2, <2>3
<1>8. Asks(l)'
  BY <1>1, <1>2, TurnKeepsAsking DEF Own
<1>9. Unanswered(l)' /\ Unasked(l)' /\ Stands(l)'
  BY <1>1, <1>2, <1>3 DEF Own, TurnMoves, Unanswered, Unasked, Stands, EditsLast
<1>10. Opened(l)'
  <2>1. lane'[l].read = lane[l].read /\ lane'[l].edits = lane[l].edits /\ lane'[l].leaf = Branch(l)
    BY <1>2 DEF TurnMoves
  <2>2. DOMAIN branches' = DOMAIN branches /\ branches'[lane[l].read.snap] = b
    BY <1>1, <1>6
  <2>3. \A s \in DOMAIN branches : s > lane[l].read.snap => branches'[s] = << >>
    <3>1. \A s \in DOMAIN branches : s > lane[l].read.snap => branches[s] = << >>
      BY <1>1, <1>2 DEF Own, Opened
    <3>2. \A s \in DOMAIN branches : s > lane[l].read.snap => s # lane[l].read.snap
      BY <1>1
    <3> QED BY <1>1, <1>6, <3>1, <3>2
  <2> QED BY <1>1, <1>3, <1>7, <2>1, <2>2, <2>3 DEF Opened
<1>11. Own(l)'
  BY <1>2, <1>8, <1>9, <1>10 DEF Own, TurnMoves, Judged, Reserves, Is
<1> QED BY <1>1, <1>2, <1>3, <1>6, <1>7, <1>11, WrittenServes DEF TurnStages

LEMMA BeginServes ==
  ASSUME TurnsInv, NEW l \in Lanes, Begin(l)
  PROVE  Serves(l)
<1>1. /\ RecordTypes /\ Turn(l) /\ lane[l] \in Turns /\ Own(l) /\ Transcript(row.msgs) /\ Numbered(row.msgs, runs)
      /\ Requests /\ Permits /\ row.msgs \in Seq(Messages) /\ DOMAIN row.msgs = 1 .. Len(row.msgs)
      /\ row.snap \in DOMAIN branches /\ lane[l].read.snap \in 1 .. row.snap /\ row.snap \in Nat
      /\ lane[l].pc = "begin"
  <2>1. lane[l].pc \in TurnStages
    BY DEF Begin, Is, TurnStages
  <2> QED BY <2>1, TurnHolds, MsgsIn DEF Begin, Is
<1>2. branches' = branches /\ history' = history /\ budget' = budget /\ runs' = runs
  BY DEF Begin
<1>3. CASE row' = row /\ Goto(l, "undo")
  BY <1>1, <1>2, <1>3, UndoingServes
<1>4. CASE ~Fenced(l) /\ row' = [row EXCEPT !.msgs = Asked(l)] /\ Goto(l, "running")
  <2>1. session = l /\ chat = l
    BY <1>1, <1>4 DEF Fenced, Permits
  <2>2. /\ RowEffect(l) /\ row'.study = row.study
        /\ EndsWith(row'.msgs, lane[l].user) /\ LastUser(row'.msgs) = Len(row'.msgs)
        /\ \E k \in 0 .. Len(row.msgs) :
             /\ Len(row'.msgs) = k + 1 /\ \A i \in 1 .. k : row'.msgs[i] = row.msgs[i]
             /\ IF lane[l].edits THEN k = LastUser(row.msgs) - 1 ELSE k = Len(row.msgs)
    BY <1>1, <1>2, <1>4, <2>1, BeginIs DEF Own
  <2>3. PICK k \in 0 .. Len(row.msgs) :
             /\ Len(row'.msgs) = k + 1 /\ \A i \in 1 .. k : row'.msgs[i] = row.msgs[i]
             /\ IF lane[l].edits THEN k = LastUser(row.msgs) - 1 ELSE k = Len(row.msgs)
    BY <2>2
  <2>4. /\ row' \in Rows /\ row'.msgs \in Seq(Messages) /\ DOMAIN row'.msgs = 1 .. k + 1 /\ row'.snap = row.snap
        /\ k \in Nat /\ row'.msgs[k + 1].role = "user"
    <3>1. row' \in Rows /\ row'.msgs \in Seq(Messages) /\ row'.snap = row.snap
      BY <2>2 DEF RowEffect, Rows
    <3>2. row'.msgs[k + 1].role = "user"
      BY <1>1, <2>2, <2>3 DEF EndsWith, Own, Asks
    <3> QED BY <2>3, <3>1, <3>2
  <2>5. \A i \in DOMAIN row'.msgs : i = k + 1 \/ (i \in 1 .. k /\ i \in DOMAIN row.msgs)
    BY <1>1, <2>3, <2>4
  <2>6. TurnMoves(l, "running") /\ chat' = chat /\ session' = session
    BY <1>1, <1>4, TurnGoes DEF TurnStages
  <2>7. Asks(l)'
    BY <1>1, <2>6, TurnKeepsAsking DEF Own
  <2>8. Unanswered(l)'
    <3>1. \A i \in DOMAIN row.msgs : row.msgs[i].role = "assistant" =>
            row.msgs[i].id # lane[l].run /\ row.msgs[i].run # lane[l].run
      BY <1>1 DEF Own, Unanswered
    <3>2. \A i \in DOMAIN row'.msgs : row'.msgs[i].role = "assistant" =>
            row'.msgs[i].id # lane[l].run /\ row'.msgs[i].run # lane[l].run
      BY <2>3, <2>4, <2>5, <3>1
    <3> QED BY <2>6, <3>2 DEF Unanswered, TurnMoves
  <2>9. Stands(l)'
    BY <2>2, <2>6 DEF Stands, TurnMoves
  <2>10. Opened(l)'
    BY <1>1, <1>2, <2>4, <2>6 DEF Own, Opened, TurnMoves
  <2>11. Own(l)'
    BY <2>6, <2>7, <2>8, <2>9, <2>10 DEF Own, TurnMoves, Unasked, Judged, Reserves, Is
  <2>12. Known(branches[row.snap], row'.msgs)
    <3>1. CASE lane[l].read.snap # row.snap
      <4>1. branches[row.snap] = << >>
        BY <1>1, <2>1, <3>1 DEF Own, Opened
      <4> QED BY <4>1 DEF Known
    <3>2. CASE lane[l].read.snap = row.snap
      <4> SUFFICES ASSUME NEW i \in DOMAIN branches[row.snap], branches[row.snap][i][1] = "answer"
                   PROVE  \E j \in DOMAIN row'.msgs :
                            row'.msgs[j].role = "assistant" /\ row'.msgs[j].id = branches[row.snap][i][2]
        BY DEF Known
      <4>1. PICK j \in DOMAIN row.msgs :
              /\ row.msgs[j].role = "assistant" /\ row.msgs[j].id = branches[row.snap][i][2]
              /\ lane[l].edits => j < LastUser(row.msgs)
        <5>1. CASE lane[l].edits
          BY <1>1, <2>1, <3>2, <5>1 DEF Own, Opened, Trimmed
        <5>2. CASE ~lane[l].edits
          BY <5>2 DEF TurnsInv, Contexts, Known
        <5> QED BY <5>1, <5>2
      <4>2. j \in 1 .. k
        <5>1. j \in 1 .. Len(row.msgs) /\ Len(row.msgs) \in Nat /\ LastUser(row.msgs) \in Nat
          BY <1>1, LastUserIs DEF IsLastUser
        <5> QED BY <2>3, <4>1, <5>1
      <4>3. j \in DOMAIN row'.msgs /\ row'.msgs[j] = row.msgs[j]
        BY <2>3, <2>4, <4>2
      <4> QED BY <4>1, <4>3
    <3> QED BY <3>1, <3>2
  <2>13. Placed(branches[row.snap], row'.msgs)
    BY <2>3, <2>4 DEF Placed
  <2>14. Contexts'
    BY <1>2, <2>4, <2>12, <2>13 DEF TurnsInv, Contexts
  <2>15. Spent' /\ ProgressKept'
    <3>1. Accounted
      BY <1>2, <2>2 DEF Accounted, history
    <3> QED BY <2>2, <3>1, AccountedKeeps DEF TurnsInv
  <2>16. StoreTypes'
    BY <1>1, <1>2, SameStores
  <2> QED BY <2>2, <2>11, <2>14, <2>15, <2>16 DEF Serves
<1> QED BY <1>3, <1>4 DEF Begin

LEMMA UndoServes ==
  ASSUME TurnsInv, NEW l \in Lanes, Undo(l)
  PROVE  Serves(l)
<1>1. /\ RecordTypes /\ lane[l] \in Turns /\ Own(l) /\ Turn(l) /\ Permits
      /\ lane[l].pc = "undo" /\ lane[l].pc \in TurnStages
  <2>1. lane[l].pc \in TurnStages /\ lane[l].pc = "undo"
    BY DEF Undo, Is, TurnStages
  <2> QED BY <2>1, TurnHolds
<1>2. row' = row /\ history' = history /\ budget' = budget /\ runs' = runs
  BY DEF Undo
<1>3. Own(l)'
  BY <1>1, EndsIdle DEF Undo
<1>4. CASE branches' = branches
  BY <1>2, <1>3, <1>4, SameServes
<1>5. CASE ~Fenced(l) /\ branches' = [branches EXCEPT ![lane[l].read.snap] = lane[l].leaf]
  <2>1. lane[l].leaf \in Seq(Marks)
    BY <1>1 DEF Turns
  <2>2. lane[l].read.snap = row.snap => Known(lane[l].leaf, row.msgs) /\ Placed(lane[l].leaf, row.msgs)
    BY <1>1, <1>5 DEF Fenced, Own, Opened
  <2> QED BY <1>1, <1>2, <1>3, <1>5, <2>1, <2>2, WrittenServes
<1> QED BY <1>4, <1>5 DEF Undo

\* The mark of the last answer is added.
AnswerPut(b, id) == Append(b, AnswerMark(id))

LEMMA AnswerAdded ==
  ASSUME NEW b \in Seq(Marks), NEW id \in Nat, NEW c, c = AnswerPut(b, id), NEW m \in Seq(Messages), m # << >>,
         m[Len(m)].role = "assistant", m[Len(m)].id = id, Known(b, m), Placed(b, m)
  PROVE  c \in Seq(Marks) /\ Known(c, m) /\ Placed(c, m)
<1>1. PICK t \in Marks : t = AnswerMark(id) /\ t[1] = "answer" /\ t[2] = id
  BY MarksAre
<1>2. c = Append(b, t)
  BY <1>1 DEF AnswerPut
<1>3. /\ c \in Seq(Marks) /\ DOMAIN c = 1 .. Len(b) + 1 /\ DOMAIN b = 1 .. Len(b) /\ Len(b) \in Nat
      /\ c[Len(b) + 1] = t /\ \A i \in 1 .. Len(b) : c[i] = b[i]
  BY <1>2
<1>4. ASSUME NEW i \in DOMAIN c
      PROVE  (i \in DOMAIN b /\ c[i] = b[i] /\ i < Len(b) + 1) \/ (i = Len(b) + 1 /\ c[i] = t)
  <2>1. CASE i \in 1 .. Len(b)
    BY <1>3, <2>1
  <2>2. CASE i = Len(b) + 1
    BY <1>3, <2>2
  <2>3. i \in 1 .. Len(b) + 1 /\ Len(b) \in Nat
    BY <1>3, Zenon
  <2> QED BY <2>1, <2>2, <2>3
<1>5. Known(c, m)
  <2>1. Len(m) \in DOMAIN m
    OBVIOUS
  <2> QED BY <1>1, <1>4, <2>1 DEF Known
<1>6. ASSUME NEW i \in DOMAIN c, NEW j \in DOMAIN c,
             c[i] = TurnMark(m[Len(m) - 1].id), c[j] = AnswerMark(m[Len(m)].id)
      PROVE  i < j
  <2>1. c[i][1] = "turn"
    BY <1>6 DEF TurnMark
  <2>2. i \in DOMAIN b /\ c[i] = b[i] /\ i < Len(b) + 1
    BY <1>1, <1>4, <2>1
  <2>3. CASE j \in DOMAIN b /\ c[j] = b[j]
    BY <1>6, <2>2, <2>3 DEF Placed
  <2>4. CASE j = Len(b) + 1
    BY <2>2, <2>4
  <2> QED BY <1>4, <2>3, <2>4
<1>7. Placed(c, m)
  BY <1>6 DEF Placed
<1> QED BY <1>3, <1>5, <1>7

LEMMA CommitServes ==
  ASSUME TurnsInv, NEW l \in Lanes, Commit(l)
  PROVE  Serves(l)
<1>1. /\ RecordTypes /\ lane[l] \in Turns /\ Own(l) /\ Turn(l) /\ row.msgs \in Seq(Messages)
      /\ lane[l].read.snap \in DOMAIN branches /\ lane[l].pc = "commit" /\ lane[l].pc \in TurnStages
  <2>1. lane[l].pc \in TurnStages /\ lane[l].pc = "commit"
    BY DEF Commit, Is, TurnStages
  <2> QED BY <2>1, TurnHolds
<1>2. row' = row /\ history' = history /\ budget' = budget /\ runs' = runs
  BY DEF Commit
<1>3. Own(l)'
  BY <1>1, EndsIdle DEF Commit
<1>4. CASE branches' = branches
  BY <1>2, <1>3, <1>4, SameServes
<1>5. CASE ~Fenced(l) /\ branches' = [branches EXCEPT ![lane[l].read.snap] = Append(Branch(l), AnswerMark(lane[l].run))]
  <2>1. PICK b : b = AnswerPut(Branch(l), lane[l].run)
    OBVIOUS
  <2>2. branches' = [branches EXCEPT ![lane[l].read.snap] = b]
    BY <1>5, <2>1 DEF AnswerPut
  <2>3. Branch(l) \in Seq(Marks) /\ lane[l].run \in Nat
    BY <1>1 DEF RecordTypes, Branch, Turns
  <2>4. /\ row.msgs # << >> /\ row.msgs[Len(row.msgs)].role = "assistant"
        /\ row.msgs[Len(row.msgs)].id = lane[l].run
    BY <1>1, <1>5 DEF Fenced, Own, Stands
  <2>5. b \in Seq(Marks)
    <3>1. PICK t \in Marks : t = AnswerMark(lane[l].run)
      BY <2>3, MarksAre
    <3>2. b = Append(Branch(l), t)
      BY <2>1, <3>1 DEF AnswerPut
    <3> QED BY <2>3, <3>2
  <2>6. ASSUME lane[l].read.snap = row.snap
        PROVE  Known(b, row.msgs) /\ Placed(b, row.msgs)
    <3>1. Known(Branch(l), row.msgs) /\ Placed(Branch(l), row.msgs)
      BY <2>6 DEF TurnsInv, Contexts, Branch
    <3> QED BY <1>1, <2>1, <2>3, <2>4, <3>1, AnswerAdded
  <2> QED BY <1>1, <1>2, <1>3, <2>2, <2>5, <2>6, WrittenServes
<1> QED BY <1>4, <1>5 DEF Commit

LEMMA SaveServes ==
  ASSUME TurnsInv, NEW l \in Lanes, Save(l)
  PROVE  Serves(l)
<1>1. /\ RecordTypes /\ lane[l] \in Turns /\ Own(l) /\ Turn(l) /\ row.msgs \in Seq(Messages)
      /\ lane[l].pc = "saving" /\ lane[l].pc \in TurnStages /\ Transcript(row.msgs) /\ Numbered(row.msgs, runs)
      /\ Requests /\ Permits /\ row.snap \in DOMAIN branches /\ DOMAIN row.msgs = 1 .. Len(row.msgs)
  <2>1. lane[l].pc \in TurnStages /\ lane[l].pc = "saving"
    BY DEF Save, Is, TurnStages
  <2> QED BY <2>1, TurnHolds
<1>2. branches' = branches /\ history' = history /\ budget' = budget /\ runs' = runs
  BY DEF Save
<1>3. CASE row' = row /\ End(l)
  BY <1>1, <1>2, <1>3, EndsIdle, SameServes
<1>4. CASE ~Fenced(l) /\ MaySave(l) /\ row' = Saved(l) /\ Goto(l, "commit")
  <2>1. session = l /\ chat = l
    BY <1>1, <1>4 DEF Fenced, Permits
  <2>2. /\ RowEffect(l) /\ row'.study.step = row.study.step /\ row'.study.rev = row.study.rev
        /\ Len(row.msgs) # 0 /\ Len(row'.msgs) = Len(row.msgs) + 1
        /\ \A i \in 1 .. Len(row.msgs) : row'.msgs[i].role = row.msgs[i].role /\ row'.msgs[i].id = row.msgs[i].id
        /\ row'.msgs[Len(row'.msgs)].role = "assistant" /\ row'.msgs[Len(row'.msgs)].id = lane[l].run
    BY <1>1, <1>2, <1>4, <2>1, SaveIs DEF Own
  <2>3. /\ row' \in Rows /\ row'.msgs \in Seq(Messages) /\ DOMAIN row'.msgs = 1 .. Len(row.msgs) + 1
        /\ row'.snap = row.snap
    BY <1>1, <2>2 DEF RowEffect, Rows
  <2>4. TurnMoves(l, "commit") /\ chat' = chat /\ session' = session
    BY <1>1, <1>4, TurnGoes DEF TurnStages
  <2>5. Asks(l)'
    BY <1>1, <2>4, TurnKeepsAsking DEF Own
  <2>6. Stands(l)'
    <3>1. row'.msgs # << >>
      BY <1>1, <2>2
    <3> QED BY <2>2, <2>4, <3>1 DEF Stands, TurnMoves
  <2>7. Opened(l)'
    BY <1>1, <1>2, <2>3, <2>4 DEF Own, Opened, TurnMoves
  <2>8. Own(l)'
    BY <2>4, <2>5, <2>6, <2>7 DEF Own, TurnMoves, Unanswered, Unasked, Judged, Reserves, Is
  <2>9. \A i \in DOMAIN row.msgs :
          i \in DOMAIN row'.msgs /\ row'.msgs[i].role = row.msgs[i].role /\ row'.msgs[i].id = row.msgs[i].id
    BY <1>1, <2>2, <2>3
  <2>10. Known(branches[row.snap], row'.msgs)
    BY <2>9 DEF TurnsInv, Contexts, Known
  <2>11. Placed(branches[row.snap], row'.msgs)
    <3>1. ASSUME NEW j \in DOMAIN branches[row.snap], branches[row.snap][j] = AnswerMark(lane[l].run)
          PROVE  FALSE
      <4>1. branches[row.snap][j][1] = "answer" /\ branches[row.snap][j][2] = lane[l].run
        BY <3>1 DEF AnswerMark
      <4>2. \E i \in DOMAIN row.msgs : row.msgs[i].role = "assistant" /\ row.msgs[i].id = lane[l].run
        BY <4>1 DEF TurnsInv, Contexts, Known
      <4> QED BY <1>1, <4>2 DEF Own, Unanswered
    <3> QED BY <2>2, <3>1 DEF Placed
  <2>12. Contexts'
    BY <1>2, <2>3, <2>10, <2>11 DEF TurnsInv, Contexts
  <2>13. Spent' /\ ProgressKept'
    <3>1. Accounted
      BY <1>2, <2>2 DEF Accounted, history
    <3> QED BY <2>2, <3>1, AccountedKeeps DEF TurnsInv
  <2>14. StoreTypes'
    BY <1>1, <1>2, SameStores
  <2> QED BY <2>2, <2>8, <2>12, <2>13, <2>14 DEF Serves
<1> QED BY <1>3, <1>4 DEF Save

\* Whatever a lane does, it leaves the stores and its own request in order.
LEMMA LaneServes ==
  ASSUME TurnsInv, NEW l \in Lanes, LaneStep(l)
  PROVE  Serves(l)
<1>1. CASE \E edits, same \in BOOLEAN : Start(l, edits, same)
  BY <1>1, StartServes
<1>2. CASE \E wish \in {"confirm", "decline"} : Decide(l, wish)
  BY <1>2, DecideServes
<1>3. CASE Decline(l) \/ Expire(l)
  BY <1>3, MarkServes DEF Decline, Expire, Is
<1>4. CASE Replay(l) \/ Prepare(l) \/ Begin(l) \/ Undo(l) \/ Answer(l) \/ Save(l) \/ Commit(l)
  BY <1>4, ReplayServes, PrepareServes, BeginServes, UndoServes, AnswerServes, SaveServes, CommitServes
<1>5. CASE Execute(l) \/ Reserve(l) \/ Complete(l) \/ GenerationFails(l) \/ Fail(l) \/ Abandon(l) \/ Stall(l) \/ Crash(l)
  BY <1>5, ExecuteServes, ReserveServes, CompleteServes, FailServes, AbandonServes, StallServes, CrashServes
<1> QED BY <1>1, <1>2, <1>3, <1>4, <1>5 DEF LaneStep

-----------------------------------------------------------------------------
(* The other requests: a step of a lane does not disturb them.             *)

LEMMA ActsAwake ==
  ASSUME NEW l \in Lanes, LaneStep(l), RecordTypes
  PROVE  /\ lane[l].pc # "idle" \/ (row'.msgs = row.msgs /\ chat = None)
         /\ branches' = branches \/ lane[l].pc = "prepare" \/ session = l
<1>1. CASE \E edits, same \in BOOLEAN : Start(l, edits, same)
  <2>1. row' = Migrated(row) /\ chat = None /\ branches' = branches
    BY <1>1 DEF Start
  <2> QED BY <2>1, MigratedIs DEF RecordTypes
<1>2. CASE \E wish \in {"confirm", "decline"} : Decide(l, wish)
  BY <1>2 DEF Decide, stores
<1>3. CASE Decline(l) \/ Expire(l)
  BY <1>3 DEF Decline, Expire, Mark, Is
<1>4. CASE Replay(l) \/ Prepare(l) \/ Begin(l) \/ Undo(l) \/ Answer(l) \/ Save(l) \/ Commit(l)
  BY <1>4 DEF Replay, Prepare, Begin, Undo, Answer, Save, Commit, Is, Fenced, stores
<1>5. CASE Execute(l) \/ Reserve(l) \/ Complete(l) \/ GenerationFails(l) \/ Fail(l) \/ Abandon(l) \/ Stall(l) \/ Crash(l)
  BY <1>5 DEF Execute, Reserve, Complete, GenerationFails, Fail, Abandon, Stall, Crash, Is, TurnOpen, stores
<1> QED BY <1>1, <1>2, <1>3, <1>4, <1>5 DEF LaneStep

\* What another request sees of the row, when only cards change that are not its own.
Undisturbed(o) ==
  /\ Touched(row.msgs, row'.msgs)
  /\ lane[o].pc = "generate" =>
       \A i \in DOMAIN row.msgs : row.msgs[i].card.status = "confirmed" /\ row.msgs[i].card.run = lane[o].run =>
         row'.msgs[i].card.status = "confirmed" /\ row'.msgs[i].card.run = row.msgs[i].card.run

LEMMA TouchedEnds ==
  ASSUME NEW m \in Seq(Messages), NEW n, Touched(m, n), m # << >>
  PROVE  /\ n # << >> /\ n[Len(n)].role = m[Len(m)].role /\ n[Len(n)].id = m[Len(m)].id
         /\ n[Len(n)].applied = m[Len(m)].applied
<1>1. Len(n) = Len(m) /\ Len(m) \in 1 .. Len(m) /\ \A i \in 1 .. Len(m) : SameMessage(m[i], n[i])
  BY DEF Touched
<1>2. n # << >>
  BY <1>1
<1> QED BY <1>1, <1>2 DEF SameMessage

LEMMA UndisturbedStands ==
  ASSUME RecordTypes, NEW o \in Lanes, Touched(row.msgs, row'.msgs), Stands(o),
         lane'[o] = lane[o], chat' = o => chat = o, session' = o => session = o
  PROVE  Stands(o)'
<1>1. /\ row.msgs \in Seq(Messages) /\ row'.msgs \in Seq(Messages) /\ Alike(row.msgs, row'.msgs)
      /\ LastUser(row'.msgs) = LastUser(row.msgs)
  BY MsgsIn, TouchedIsAlike, AlikeLastUser DEF Touched
<1>2. ASSUME chat' = o, lane[o].pc \in {"prepare", "begin"}, lane[o].edits
      PROVE  EditsLast(o)'
  <2>1. PICK k : k = LastUser(row.msgs)
    OBVIOUS
  <2>2. k # 0 /\ row.msgs[k].id = lane[o].user.id /\ (row.msgs[k].applied # 0 => lane[o].user.applied # 0)
    BY <1>2, <2>1 DEF Stands, EditsLast
  <2>3. k \in 1 .. Len(row.msgs)
    BY <1>1, <2>1, <2>2, LastUserIs DEF IsLastUser
  <2>4. row'.msgs[k].id = row.msgs[k].id /\ row'.msgs[k].applied = row.msgs[k].applied
    BY <2>3 DEF Touched, SameMessage
  <2> QED BY <1>1, <2>1, <2>2, <2>4 DEF EditsLast
<1>3. ASSUME chat' = o, lane[o].pc = "prepare"
      PROVE  Alike(lane[o].read.msgs, row'.msgs)
  BY <1>1, <1>3 DEF Stands, Alike
<1>4. ASSUME session' = o, lane[o].pc \in {"running", "saving"}
      PROVE  EndsWith(row'.msgs, lane[o].user)
  BY <1>1, <1>4, TouchedEnds DEF Stands, EndsWith
<1>5. ASSUME session' = o, lane[o].pc = "commit"
      PROVE  /\ row'.msgs # << >> /\ row'.msgs[Len(row'.msgs)].role = "assistant"
             /\ row'.msgs[Len(row'.msgs)].id = lane[o].run
  BY <1>1, <1>5, TouchedEnds DEF Stands
<1> QED BY <1>2, <1>3, <1>4, <1>5 DEF Stands

LEMMA UndisturbedReserves ==
  ASSUME RecordTypes, Transcript(row.msgs), NEW o \in Lanes, Undisturbed(o), Reserves(o),
         lane'[o] = lane[o], chat' = o => chat = o
  PROVE  Reserves(o)'
<1>1. PICK p : p = Position(o)
  OBVIOUS
<1>2. row.msgs \in Seq(Messages) /\ row'.msgs \in Seq(Messages) /\ Alike(row.msgs, row'.msgs) /\ Unique(row.msgs)
  BY MsgsIn, TouchedIsAlike DEF Undisturbed, Touched, Transcript
<1>3. At(row'.msgs, "assistant", lane[o].action) = At(row.msgs, "assistant", lane[o].action)
  BY <1>2, AlikeAt
<1>4. Position(o)' = p
  BY <1>1, <1>3 DEF Position
<1> SUFFICES ASSUME lane[o].pc = "generate", chat = o, p # 0
             PROVE  Reserved(o)'
  BY <1>4 DEF Reserves, Is
<1>5. Decided(o).status = "confirmed" /\ Decided(o).run = lane[o].run
  BY <1>1 DEF Reserves, Reserved, Is
<1>6. p \in DOMAIN row.msgs /\ Decided(o) = row.msgs[p].card
  BY <1>1, PositionIs
<1>7. row'.msgs[p].card.status = "confirmed" /\ row'.msgs[p].card.run = lane[o].run
  BY <1>5, <1>6 DEF Undisturbed
<1>8. Decided(o)' = row'.msgs[p].card
  BY <1>4 DEF Decided
<1> QED BY <1>4, <1>7, <1>8 DEF Reserved

LEMMA UndisturbedOpened ==
  ASSUME RecordTypes, Transcript(row.msgs), NEW o \in Lanes, Touched(row.msgs, row'.msgs), Opened(o),
         lane'[o] = lane[o], chat' = o => chat = o, session' = o => session = o,
         branches' = branches, row'.snap \in Nat, row'.snap >= row.snap
  PROVE  Opened(o)'
<1>1. /\ row.msgs \in Seq(Messages) /\ row'.msgs \in Seq(Messages) /\ Alike(row.msgs, row'.msgs)
      /\ LastUser(row'.msgs) = LastUser(row.msgs) /\ row.snap \in Nat
  BY MsgsIn, TouchedIsAlike, AlikeLastUser DEF Touched
<1> SUFFICES ASSUME Turn(o)
             PROVE  Opened(o)'
  BY DEF Opened, Turn
<1>2. lane[o] \in Turns
  BY LaneKinds DEF Turn
<1>3. lane[o].read.snap \in 1 .. row.snap
  BY DEF Opened
<1>4. lane[o].read.snap \in 1 .. row'.snap
  BY <1>1, <1>3
<1>5. ASSUME session' = o, lane[o].read.snap = row'.snap, lane[o].pc \in {"begin", "undo"}
      PROVE  Known(lane[o].leaf, row'.msgs) /\ Placed(lane[o].leaf, row'.msgs)
  <2>1. row'.snap = row.snap
    BY <1>1, <1>3, <1>5
  <2>2. lane[o].leaf \in Seq(Marks)
    BY <1>2 DEF Turns
  <2>3. Known(lane[o].leaf, row.msgs) /\ Placed(lane[o].leaf, row.msgs)
    BY <1>5, <2>1 DEF Opened
  <2> QED BY <1>1, <2>2, <2>3, KnownAlike
<1>6. ASSUME session' = o, lane[o].read.snap = row'.snap, lane[o].pc = "begin", lane[o].edits
      PROVE  Trimmed(branches[row'.snap], row'.msgs)
  <2>1. row'.snap = row.snap
    BY <1>1, <1>3, <1>6
  <2>2. Trimmed(branches[row.snap], row.msgs)
    BY <1>6, <2>1 DEF Opened
  <2> QED BY <1>1, <2>1, <2>2 DEF Trimmed, Alike
<1>7. chat' = o => \A s \in DOMAIN branches' : s > lane[o].read.snap => branches'[s] = << >>
  BY DEF Opened
<1> QED BY <1>4, <1>5, <1>6, <1>7 DEF Opened

LEMMA UndisturbedOwn ==
  ASSUME TurnsInv, NEW o \in Lanes, Undisturbed(o), lane'[o] = lane[o],
         chat' = o => chat = o, session' = o => session = o, branches' = branches,
         row'.snap \in Nat, row'.snap >= row.snap
  PROVE  Own(o)'
<1>1. RecordTypes /\ Transcript(row.msgs) /\ Own(o) /\ row.msgs \in Seq(Messages) /\ Touched(row.msgs, row'.msgs)
  BY OwnHolds, MsgsIn DEF TurnsInv, Undisturbed
<1>2. Asks(o)' /\ Judged(o)'
  BY <1>1 DEF Own, Asks, Turn, Judged
<1>3. /\ DOMAIN row'.msgs = DOMAIN row.msgs
      /\ \A i \in DOMAIN row.msgs : /\ row'.msgs[i].role = row.msgs[i].role /\ row'.msgs[i].id = row.msgs[i].id
                                    /\ row'.msgs[i].run = row.msgs[i].run
  BY <1>1 DEF Touched, SameMessage
<1>4. Unanswered(o)' /\ Unasked(o)'
  BY <1>1, <1>3 DEF Own, Unanswered, Unasked
<1>5. Stands(o)'
  BY <1>1, UndisturbedStands DEF Own
<1>6. Reserves(o)'
  BY <1>1, UndisturbedReserves DEF Own
<1>7. Opened(o)'
  <2>1. Turn(o) => lane[o].read.snap \in 1 .. row.snap
    BY <1>1 DEF Own, Opened
  <2>2. ~Turn(o) => Opened(o)'
    BY DEF Opened, Turn
  <2>3. Turn(o) => Opened(o)'
    BY <1>1, <2>1, UndisturbedOpened DEF Own
  <2> QED BY <2>2, <2>3
<1> QED BY <1>2, <1>4, <1>5, <1>6, <1>7 DEF Own

\* A request that lost its permits: what it may still believe.
LEMMA LostOwn ==
  ASSUME TurnsInv, NEW l \in Lanes, NEW o \in Lanes \ {l}, lane'[o] = lane[o], chat' # o, session' # o,
         RowEffect(l), lane[l].pc # "idle"
  PROVE  Own(o)'
<1>1. RecordTypes /\ Own(o) /\ Requests /\ row.msgs \in Seq(Messages)
  BY OwnHolds, MsgsIn DEF TurnsInv
<1>2. Asks(o)' /\ Judged(o)'
  BY <1>1 DEF Own, Asks, Turn, Judged
<1>3. lane[o].pc # "idle" => lane[o].run # lane[l].run
  BY <1>1 DEF Requests, Is
<1>4. From(row.msgs, row'.msgs, lane[l].run)
  BY DEF RowEffect
<1>5. Unanswered(o)'
  <2> SUFFICES ASSUME lane[o].pc \in {"prepare", "begin", "running", "saving"},
                      NEW j \in DOMAIN row'.msgs, row'.msgs[j].role = "assistant"
               PROVE  row'.msgs[j].id # lane[o].run /\ row'.msgs[j].run # lane[o].run
    BY DEF Unanswered
  <2>1. \A i \in DOMAIN row.msgs : row.msgs[i].role = "assistant" =>
          row.msgs[i].id # lane[o].run /\ row.msgs[i].run # lane[o].run
    BY <1>1 DEF Own, Unanswered
  <2> QED BY <1>3, <1>4, <2>1 DEF From
<1>6. Unasked(o)'
  <2> SUFFICES ASSUME lane[o].pc \in {"prepare", "begin"}, ~lane[o].edits,
                      NEW j \in DOMAIN row'.msgs, row'.msgs[j].role = "user"
               PROVE  row'.msgs[j].id # lane[o].run
    BY DEF Unasked
  <2>1. \A i \in DOMAIN row.msgs : row.msgs[i].role = "user" => row.msgs[i].id # lane[o].run
    BY <1>1 DEF Own, Unasked
  <2> QED BY <1>3, <1>4, <2>1 DEF From
<1>7. Stands(o)' /\ Reserves(o)'
  BY DEF Stands, Reserves
<1>8. Opened(o)'
  BY <1>1 DEF Own, Opened, Turn, RowEffect
<1> QED BY <1>2, <1>5, <1>6, <1>7, <1>8 DEF Own

LEMMA OthersOwn ==
  ASSUME TurnsInv, NEW l \in Lanes, LaneStep(l), RowEffect(l), Control(l), NEW o \in Lanes \ {l}
  PROVE  Own(o)'
<1>1. /\ RecordTypes /\ Permits /\ Requests /\ row.msgs \in Seq(Messages) /\ row.snap \in Nat
  BY MsgsIn DEF TurnsInv
<1>2. lane'[o] = lane[o] /\ (chat' = o => chat = o) /\ (session' = o => session = o) /\ (session' = o => chat = o)
  BY <1>1 DEF Control, OthersStay, Permits
<1>3. CASE chat # o /\ lane[l].pc # "idle"
  BY <1>2, <1>3, LostOwn
<1>4. CASE chat = o \/ lane[l].pc = "idle"
  <2>1. Undisturbed(o)
    <3>1. CASE lane[l].pc = "idle"
      <4>1. row'.msgs = row.msgs
        BY <1>1, <3>1, ActsAwake
      <4> QED BY <1>1, <4>1, SameIsTouched DEF Undisturbed
    <3>2. CASE lane[l].pc # "idle" /\ chat = o
      <4>1. Quiet(l)
        BY <3>2 DEF RowEffect
      <4>2. ASSUME lane[o].pc = "generate"
            PROVE  lane[o].run # lane[l].run
        BY <1>1, <3>2, <4>2 DEF Requests, Is
      <4> QED BY <4>1, <4>2 DEF Undisturbed, Quiet
    <3> QED BY <1>4, <3>1, <3>2
  <2>2. branches' = branches
    BY <1>1, <1>4, ActsAwake DEF Permits, TurnOpen, Holding
  <2> QED BY <1>1, <1>2, <2>1, <2>2, UndisturbedOwn DEF RowEffect
<1> QED BY <1>3, <1>4

LEMMA StepBudget ==
  ASSUME NEW l \in Lanes, LaneStep(l)
  PROVE  budget' = budget
BY DEF LaneStep, Start, Replay, Prepare, Begin, Undo, Answer, Save, Commit, Decide, Decline, Expire, Mark, Execute,
       Reserve, Complete, GenerationFails, Fail, Abandon, Stall, Crash

-----------------------------------------------------------------------------
(* Steps of nobody's request.                                              *)

LEMMA LaneKeeps ==
  ASSUME TurnsInv, NEW l \in Lanes, LaneStep(l)
  PROVE  TurnsInv'
<1>1. /\ RecordTypes /\ Permits /\ Requests /\ Transcript(row.msgs) /\ Numbered(row.msgs, runs)
      /\ Asks(l) /\ Stands(l) /\ Opened(l)
  BY DEF TurnsInv
<1>2. Control(l)
  BY <1>1, StepControl DEF LaneStep
<1>3. Serves(l)
  BY LaneServes
<1>4. Permits' /\ Requests'
  BY <1>1, <1>2, ControlKeeps
<1>5. \A o \in Lanes : Own(o)'
  BY <1>2, <1>3, OthersOwn DEF Serves
<1>6. RecordTypes'
  <2>1. budget' = budget
    BY StepBudget
  <2>2. row' \in Rows /\ row'.snap = row.snap
    BY <1>3 DEF Serves, RowEffect
  <2> QED BY <1>1, <1>2, <1>3, <2>1, <2>2 DEF Serves, StoreTypes, RecordTypes, Control, LaneTypes, Holders
<1> QED BY <1>3, <1>4, <1>5, <1>6 DEF TurnsInv, Serves, RowEffect, Own, Reserves, ReservationKept

\* Lanes and permits stay as they are, or a permit of a dead process becomes free.
LEMMA NobodyKeeps ==
  ASSUME TurnsInv, lane' = lane, runs' = runs, budget' = budget, branches' = branches,
         chat' = chat \/ (chat = Gone /\ chat' = None), session' = session \/ (session = Gone /\ session' = None),
         row' \in Rows, row'.snap \in row.snap .. budget.snapshots, Touched(row.msgs, row'.msgs),
         \A i \in DOMAIN row.msgs : row'.msgs[i].card.status = row.msgs[i].card.status
                                    /\ row'.msgs[i].card.run = row.msgs[i].card.run,
         executed' = executed, credit' \in [step : Nat, rev : Nat, count : Nat], credit'.count = credit.count,
         ProgressKept', Contexts'
  PROVE  TurnsInv'
<1>1. /\ RecordTypes /\ Permits /\ Requests /\ Transcript(row.msgs) /\ Numbered(row.msgs, runs) /\ Spent
      /\ row.msgs \in Seq(Messages) /\ row.snap \in Nat /\ runs \in Nat /\ budget.snapshots \in Nat
      /\ row.snap \in 1 .. budget.snapshots
  BY MsgsIn, BudgetIs DEF TurnsInv, RecordTypes
<1>2. ASSUME NEW l \in Lanes
      PROVE  (chat' = l => chat = l) /\ (session' = l => session = l) /\ (chat = l => chat' = l)
  BY TurnsAssumption
<1>3. RecordTypes'
  <2>1. row'.snap \in 1 .. budget.snapshots
    BY <1>1
  <2> QED BY <1>1, <2>1 DEF RecordTypes
<1>4. Permits' /\ Requests'
  BY <1>1, <1>2 DEF Permits, Requests, TurnOpen, Is
<1>5. Transcript(row'.msgs) /\ Numbered(row'.msgs, runs) /\ Marked(row.msgs, row'.msgs)
  BY <1>1, TouchedTranscript, TouchedNumbered, TouchedIsAlike
<1>6. Spent'
  BY <1>1, <1>5, SpentKept
<1>7. ASSUME NEW l \in Lanes
      PROVE  Own(l)'
  <2>1. Undisturbed(l)
    BY DEF Undisturbed
  <2>2. row'.snap \in Nat /\ row'.snap >= row.snap
    BY <1>1
  <2> QED BY <1>2, <2>1, <2>2, UndisturbedOwn
<1> QED BY <1>3, <1>4, <1>5, <1>6, <1>7 DEF TurnsInv, Own, Reserves, ReservationKept

LEMMA MigrateKeeps ==
  ASSUME TurnsInv, Migrate
  PROVE  TurnsInv'
<1>1. /\ RecordTypes /\ row \in Rows /\ row.msgs \in Seq(Messages) /\ row.snap \in 1 .. budget.snapshots
      /\ budget.snapshots \in Nat /\ credit \in [step : Nat, rev : Nat, count : Nat]
  BY MsgsIn, BudgetIs DEF TurnsInv, RecordTypes
<1>2. /\ row' \in Rows /\ row'.msgs = row.msgs /\ row'.snap = row.snap /\ row'.study.step = row.study.step
      /\ row'.study.rev = row.study.rev + 1
  BY <1>1, MigratedIs DEF Migrate, Migrates
<1>3. /\ credit' \in [step : Nat, rev : Nat, count : Nat] /\ credit'.count = credit.count
      /\ credit'.step = credit.step /\ credit'.rev = credit.rev + 1
  BY <1>1 DEF Migrate
<1>4. Touched(row.msgs, row'.msgs) /\ Alike(row.msgs, row'.msgs)
  BY <1>1, <1>2, SameIsTouched, AlikeSame
<1>5. ProgressKept'
  BY <1>2, <1>3 DEF TurnsInv, ProgressKept
<1>6. /\ lane' = lane /\ runs' = runs /\ budget' = budget /\ branches' = branches /\ chat' = chat
      /\ session' = session /\ executed' = executed
  BY DEF Migrate
<1>7. Contexts'
  BY <1>2, <1>4, <1>6, ContextsAlike
<1>8. row'.snap \in row.snap .. budget.snapshots
  BY <1>1, <1>2
<1> QED BY <1>2, <1>3, <1>4, <1>5, <1>6, <1>7, <1>8, NobodyKeeps

LEMMA PublishKeeps ==
  ASSUME TurnsInv, Publish
  PROVE  TurnsInv'
<1>1. /\ RecordTypes /\ row \in Rows /\ row.msgs \in Seq(Messages) /\ row.snap \in 1 .. budget.snapshots
      /\ budget.snapshots \in Nat /\ credit \in [step : Nat, rev : Nat, count : Nat]
      /\ DOMAIN branches = 1 .. budget.snapshots
  BY MsgsIn, BudgetIs DEF TurnsInv, RecordTypes
<1>2. row' = [row EXCEPT !.snap = row.snap + 1] /\ row.snap < budget.snapshots
  BY DEF Publish
<1>3. row' \in Rows /\ row'.msgs = row.msgs /\ row'.snap = row.snap + 1 /\ row'.study = row.study
  BY <1>1, <1>2 DEF Rows
<1>4. Touched(row.msgs, row'.msgs)
  BY <1>1, <1>3, SameIsTouched
<1>5. /\ lane' = lane /\ runs' = runs /\ budget' = budget /\ branches' = branches /\ chat' = chat
      /\ session' = session /\ executed' = executed /\ credit' = credit
  BY DEF Publish, history
<1>6. ProgressKept'
  BY <1>3, <1>5 DEF TurnsInv, ProgressKept
<1>7. Contexts'
  <2>1. \A s \in DOMAIN branches : s > row.snap => branches[s] = << >>
    BY DEF TurnsInv, Contexts
  <2>2. row'.snap \in DOMAIN branches /\ row'.snap > row.snap
    BY <1>1, <1>2, <1>3
  <2>3. branches[row'.snap] = << >>
    BY <2>1, <2>2
  <2>4. Known(branches[row'.snap], row'.msgs) /\ Placed(branches[row'.snap], row'.msgs)
    BY <2>3 DEF Known, Placed
  <2>5. \A s \in DOMAIN branches : s > row'.snap => branches[s] = << >>
    BY <1>1, <1>3, <2>1
  <2> QED BY <1>5, <2>4, <2>5 DEF Contexts
<1>8. row'.snap \in row.snap .. budget.snapshots
  BY <1>1, <1>2, <1>3
<1>9. credit' \in [step : Nat, rev : Nat, count : Nat] /\ credit'.count = credit.count
  BY <1>1, <1>5
<1> QED BY <1>3, <1>4, <1>5, <1>6, <1>7, <1>8, <1>9, NobodyKeeps

LEMMA DueKeeps ==
  ASSUME TurnsInv, Due
  PROVE  TurnsInv'
<1>1. /\ RecordTypes /\ row \in Rows /\ row.msgs \in Seq(Messages) /\ row.snap \in 1 .. budget.snapshots
      /\ budget.snapshots \in Nat /\ credit \in [step : Nat, rev : Nat, count : Nat]
  BY MsgsIn, BudgetIs DEF TurnsInv, RecordTypes
<1>2. PICK i \in DOMAIN row.msgs :
        /\ row.msgs[i].card # NoCard
        /\ row' = WithCard(i, [row.msgs[i].card EXCEPT !.due = TRUE])
  BY DEF Due
<1>3. PICK card : card = [row.msgs[i].card EXCEPT !.due = TRUE]
  OBVIOUS
<1>4. row.msgs[i].card \in Cards
  <2>1. row.msgs[i] \in Messages
    BY <1>1
  <2> QED BY <2>1 DEF Messages
<1>5. /\ card \in Cards /\ card.source = row.msgs[i].card.source /\ card.status = row.msgs[i].card.status
      /\ card.run = row.msgs[i].card.run
  BY <1>3, <1>4 DEF Cards
<1>6. PICK r : r = row'
  OBVIOUS
<1>7. r = CardPut(row, i, card)
  BY <1>2, <1>3, <1>6 DEF WithCard, CardPut
<1>8. /\ r \in Rows /\ r.snap = row.snap /\ r.study = row.study /\ Touched(row.msgs, r.msgs)
      /\ r.msgs[i].card = card /\ \A j \in DOMAIN row.msgs \ {i} : r.msgs[j] = row.msgs[j]
  BY <1>1, <1>2, <1>5, <1>7, CardChanges
<1>9. \A j \in DOMAIN row.msgs : r.msgs[j].card.status = row.msgs[j].card.status
                                 /\ r.msgs[j].card.run = row.msgs[j].card.run
  BY <1>5, <1>8
<1>10. /\ lane' = lane /\ runs' = runs /\ budget' = budget /\ branches' = branches /\ chat' = chat
       /\ session' = session /\ executed' = executed /\ credit' = credit
  BY DEF Due, history
<1>11. ProgressKept'
  BY <1>6, <1>8, <1>10 DEF TurnsInv, ProgressKept
<1>12. Contexts'
  <2>1. Alike(row.msgs, row'.msgs)
    BY <1>1, <1>6, <1>8, TouchedIsAlike
  <2> QED BY <1>6, <1>8, <1>10, <2>1, ContextsAlike
<1>13. row'.snap \in row.snap .. budget.snapshots
  BY <1>1, <1>6, <1>8
<1> QED BY <1>1, <1>6, <1>8, <1>9, <1>10, <1>11, <1>12, <1>13, NobodyKeeps

LEMMA ReclaimKeeps ==
  ASSUME TurnsInv, Reclaim \/ UNCHANGED vars
  PROVE  TurnsInv'
<1>1. /\ RecordTypes /\ row \in Rows /\ row.msgs \in Seq(Messages) /\ row.snap \in 1 .. budget.snapshots
      /\ budget.snapshots \in Nat /\ credit \in [step : Nat, rev : Nat, count : Nat]
  BY MsgsIn, BudgetIs DEF TurnsInv, RecordTypes
<1>2. /\ row' = row /\ lane' = lane /\ runs' = runs /\ budget' = budget /\ branches' = branches
      /\ executed' = executed /\ credit' = credit
      /\ chat' = chat \/ (chat = Gone /\ chat' = None)
      /\ session' = session \/ (session = Gone /\ session' = None)
  BY DEF Reclaim, vars, stores, history
<1>3. Touched(row.msgs, row'.msgs)
  BY <1>1, <1>2, SameIsTouched
<1>4. ProgressKept' /\ Contexts'
  BY <1>2 DEF TurnsInv, ProgressKept, Contexts
<1>5. row'.snap \in row.snap .. budget.snapshots
  BY <1>1, <1>2
<1> QED BY <1>1, <1>2, <1>3, <1>4, <1>5, NobodyKeeps

LEMMA TurnsStart ==
  ASSUME Init
  PROVE  TurnsInv
<1>1. budget \in [runs : Nat, messages : Nat, snapshots : Nat \ {0}, faults : Nat] /\ budget \in Budgets
  BY TurnsAssumption DEF Init
<1>2. budget.snapshots \in Nat \ {0} /\ 1 \in 1 .. budget.snapshots
  BY <1>1
<1>3. row \in Rows /\ row.msgs = << >> /\ row.snap = 1 /\ row.study.step = 0 /\ row.study.rev = 0
  BY DEF Init, Rows, Studies
<1>4. branches = [s \in 1 .. budget.snapshots |-> << >>] /\ << >> \in Seq(Marks)
  BY DEF Init
<1>5. branches \in [1 .. budget.snapshots -> Seq(Marks)] /\ \A s \in DOMAIN branches : branches[s] = << >>
  BY <1>4
<1>6. \A l \in Lanes : lane[l] = Idle /\ lane[l].pc = "idle"
  BY DEF Init, Idle
<1>7. /\ chat = None /\ session = None /\ runs = 0 /\ credit = [step |-> 0, rev |-> 0, count |-> 0]
      /\ executed = {} /\ lane = [l \in Lanes |-> Idle]
  BY DEF Init
<1>8. RecordTypes
  BY <1>1, <1>2, <1>3, <1>5, <1>7 DEF RecordTypes
<1>9. Permits /\ Requests
  BY <1>6, <1>7, TurnsAssumption DEF Permits, Requests, Holding, Is
<1>10. Transcript(row.msgs) /\ Numbered(row.msgs, runs)
  BY <1>3 DEF Transcript, Pairs, Unique, Authorised, Numbered
<1>11. \A l \in Lanes : Asks(l) /\ Unanswered(l) /\ Unasked(l) /\ Stands(l) /\ Judged(l) /\ Opened(l)
  BY <1>6 DEF Asks, Unanswered, Unasked, Stands, Judged, Opened, Turn, TurnStages
<1>12. Spent
  BY <1>7, FS_EmptySet DEF Spent
<1>13. ProgressKept /\ ReservationKept
  BY <1>3, <1>6, <1>7 DEF ProgressKept, ReservationKept, Is
<1>14. Contexts
  BY <1>2, <1>3, <1>5 DEF Contexts, Known, Placed
<1> QED BY <1>8, <1>9, <1>10, <1>11, <1>12, <1>13, <1>14 DEF TurnsInv

LEMMA TurnsStep ==
  ASSUME TurnsInv, [Next]_vars
  PROVE  TurnsInv'
<1>1. CASE \E l \in Lanes : LaneStep(l)
  BY <1>1, LaneKeeps
<1>2. CASE Due
  BY <1>2, DueKeeps
<1>3. CASE Publish
  BY <1>3, PublishKeeps
<1>4. CASE Migrate
  BY <1>4, MigrateKeeps
<1>5. CASE Reclaim \/ UNCHANGED vars
  BY <1>5, ReclaimKeeps
<1> QED BY <1>1, <1>2, <1>3, <1>4, <1>5 DEF Next, LaneStep

LEMMA TurnsHold == Spec => []TurnsInv
<1>1. Init => TurnsInv
  BY TurnsStart
<1>2. TurnsInv /\ [Next]_vars => TurnsInv'
  BY TurnsStep
<1> QED BY <1>1, <1>2, PTL DEF Spec

-----------------------------------------------------------------------------

\* Every answer in the transcript directly follows the question of its own run,
\* through edits, retries, replays and stalled turns that come back.
THEOREM AnswersStayPaired == Spec => []AnswersPaired
<1>1. TurnsInv => AnswersPaired
  BY DEF TurnsInv, Transcript, Pairs, AnswersPaired
<1> QED BY <1>1, TurnsHold, PTL

\* The context of the model holds no answer that the transcript does not show.
THEOREM ContextsStayFaithful == Spec => []ContextFaithful
<1>1. TurnsInv => ContextFaithful
  <2> SUFFICES ASSUME TurnsInv, NEW i \in DOMAIN branches[row.snap], branches[row.snap][i][1] = "answer"
               PROVE  At(row.msgs, "assistant", branches[row.snap][i][2]) # 0
    BY DEF ContextFaithful
  <2>1. PICK id : id = branches[row.snap][i][2]
    OBVIOUS
  <2>2. PICK j \in DOMAIN row.msgs : row.msgs[j].role = "assistant" /\ row.msgs[j].id = id
    BY <2>1 DEF TurnsInv, Contexts, Known
  <2>3. row.msgs \in Seq(Messages)
    BY MsgsIn DEF TurnsInv
  <2>4. PICK k : k = At(row.msgs, "assistant", id)
    OBVIOUS
  <2>5. IsAt(row.msgs, "assistant", id, k)
    BY <2>3, <2>4, AtIs
  <2>6. k # 0
    BY <2>2, <2>3, <2>5 DEF IsAt
  <2> QED BY <2>1, <2>4, <2>6
<1> QED BY <1>1, TurnsHold, PTL

\* A message of the user authorises one action at most, and none is executed twice.
THEOREM MessagesAuthoriseOnce == Spec => []OneActionPerMessage
<1>1. TurnsInv => OneActionPerMessage
  BY DEF TurnsInv, Spent, OneActionPerMessage
<1> QED BY <1>1, TurnsHold, PTL

\* No accepted change of the study is lost, and a reservation stands as long as its
\* generation runs under the permit.
THEOREM ConfirmedStaysKept == Spec => []ConfirmedKept
<1>1. TurnsInv => ConfirmedKept
  BY DEF TurnsInv, ConfirmedKept
<1> QED BY <1>1, TurnsHold, PTL
=============================================================================
