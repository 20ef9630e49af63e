------------------------- MODULE SnapshotRetention -------------------------
(***************************************************************************)
(* The public snapshots of one repository in                               *)
(* server/src/persistence/postgres-store.ts: an update uploads a snapshot, *)
(* saves its row and makes it the head; the replaced version is retired,   *)
(* kept for a grace, and then purged by the elected scheduler, unless a    *)
(* reader holds a lease.  Its objects are deleted after the transaction    *)
(* and again from a ledger until that succeeds.                            *)
(*                                                                         *)
(* A snapshot key names a commit and a configuration, so that a repository *)
(* that returns to an old commit returns to an old key.  The objects of a  *)
(* key are one object: their names follow from their content.              *)
(***************************************************************************)
EXTENDS Integers, FiniteSets

CONSTANTS
  Versions,       \* the commits, by age: the snapshot keys
  SnapshotReaders,
  Rewinds,        \* whether the head may return to an older commit
  MaxMishaps      \* bound: updates, deletions and processes that fail

ASSUME RetentionAssumption == Versions \subseteq Nat \ {0} /\ MaxMishaps \in Nat

VARIABLES
  head,       \* current_public_snapshot_key, 0 for none
  snapshot,   \* the row of each key
  object,     \* the keys whose objects are in the store
  ledger,     \* snapshot_payload_deletions of each key
  update,     \* the active update
  cleaner,    \* the elected scheduler
  lease,      \* the version each reader has leased
  mishaps,
  graced      \* history: the version the last publication replaced, until its grace is over

publication == <<head, snapshot, update, graced>>
retentionVars == <<publication, object, ledger, cleaner, lease, mishaps>>

\* age: retired_at is null ("current"), purge_after lies ahead ("graced"), has passed
\* on the clock of the scheduler ("closing"), and on that of the database ("due").
\* keys: the storage keys are there; payload: whether payload_purged_at is set.
Absent == [age |-> "absent", keys |-> "none", payload |-> "kept"]
Current == [age |-> "current", keys |-> "stored", payload |-> "kept"]
Purged(k) == snapshot[k].payload = "purged"

Rest == [stage |-> "idle", key |-> 0]
NoLease == 0

RetentionInit ==
  /\ head = 0 /\ snapshot = [k \in Versions |-> Absent]
  /\ object = {} /\ ledger = [k \in Versions |-> "none"]
  /\ update = [stage |-> "idle", key |-> 0, base |-> 0]
  /\ cleaner = Rest /\ lease = [r \in SnapshotReaders |-> NoLease]
  /\ mishaps = 0 /\ graced = 0

UpdateAt(s) == update.stage = s
UpdateGoes(s) == update' = [update EXCEPT !.stage = s]
CleanerGoes(s) == cleaner' = [cleaner EXCEPT !.stage = s]
Mishap == mishaps < MaxMishaps /\ mishaps' = mishaps + 1

-----------------------------------------------------------------------------
(* The update.                                                               *)

\* A job for commit k begins; its update keeps the head of that moment as base.
StartUpdate(k) ==
  /\ UpdateAt("idle")
  /\ Rewinds \/ k >= update.key
  /\ update' = [stage |-> "comparing", key |-> k, base |-> head]
  /\ UNCHANGED <<head, snapshot, graced, object, ledger, cleaner, lease, mishaps>>

\* loadPublicSnapshotView(): an unpurged row is reused without an upload; if its
\* objects are missing, the job fails.
Readable(k) == snapshot[k].keys = "stored" /\ k \in object
LookForView ==
  LET found == snapshot[update.key].age # "absent" /\ ~Purged(update.key) IN
  /\ UpdateAt("comparing")
  /\ UpdateGoes(CASE ~found -> "analyzed"
                  [] found /\ Readable(update.key) -> "saved"
                  [] OTHER -> "idle")
  /\ UNCHANGED <<head, snapshot, graced, object, ledger, cleaner, lease, mishaps>>

\* savePublicSnapshot(), under the shared guard `repository-payload-use', which the
\* purge of retired versions does not take: first the uploads ...
Upload ==
  /\ UpdateAt("analyzed")
  /\ object' = object \cup {update.key}
  /\ UpdateGoes("uploaded")
  /\ UNCHANGED <<head, snapshot, graced, ledger, cleaner, lease, mishaps>>

\* ... then the row.
SaveRow ==
  /\ UpdateAt("uploaded")
  /\ snapshot' = [snapshot EXCEPT ![update.key] = Current]
  /\ UpdateGoes("saved")
  /\ UNCHANGED <<head, graced, object, ledger, cleaner, lease, mishaps>>

\* "Only the version just replaced gets the grace; older ones expire now".
Retired(s) ==
  IF s.age = "absent" \/ s.payload = "purged" THEN s
  ELSE [s EXCEPT !.age =
         CASE @ = "current" -> "graced" [] @ = "graced" -> "closing" [] OTHER -> @]

\* publishRepositoryUpdate(): the flags of the new head are reset whatever became
\* of its payload.
PublishHead ==
  LET key == update.key IN
  /\ UpdateAt("saved")
  /\ head' = key
  /\ snapshot' = [k \in Versions |->
       IF k = key THEN [snapshot[k] EXCEPT !.age = "current", !.payload = "kept"]
       ELSE Retired(snapshot[k])]
  /\ graced' = IF head = key THEN 0 ELSE head
  /\ UpdateGoes("idle")
  /\ UNCHANGED <<object, ledger, cleaner, lease, mishaps>>

FailRetrieval ==
  /\ ~UpdateAt("idle") /\ Mishap
  /\ UpdateGoes("idle")
  /\ UNCHANGED <<head, snapshot, graced, object, ledger, cleaner, lease>>

PassGrace(k) ==
  /\ snapshot[k].age \in {"graced", "closing"}
  /\ snapshot' = [snapshot EXCEPT ![k].age = IF @ = "graced" THEN "closing" ELSE "due"]
  /\ graced' = IF graced = k THEN 0 ELSE graced
  /\ UNCHANGED <<head, update, object, ledger, cleaner, lease, mishaps>>

-----------------------------------------------------------------------------
(* Readers: a turn of a conversation leases the version it starts with.      *)

\* acquireSnapshotReadLease(), one statement that shares the row.
Leasable(k) == snapshot[k].age \in {"current", "graced", "closing"} /\ ~Purged(k)

Lease(r, k) ==
  /\ lease[r] = NoLease /\ Leasable(k)
  /\ lease' = [lease EXCEPT ![r] = k]
  /\ UNCHANGED <<publication, object, ledger, cleaner, mishaps>>

\* releaseSnapshotReadLease(), or the process dies and 30 minutes pass.
EndLease(r) ==
  /\ lease[r] # NoLease
  /\ lease' = [lease EXCEPT ![r] = NoLease]
  /\ UNCHANGED <<publication, object, ledger, cleaner, mishaps>>

-----------------------------------------------------------------------------
(* The clean-up.                                                             *)

Due(k) == snapshot[k].age \in {"closing", "due"} /\ ~Purged(k)
Based(k) == ~UpdateAt("idle") /\ update.base = k
Referenced(k) == head = k \/ Based(k) \/ \E r \in SnapshotReaders : lease[r] = k

\* listPurgeablePublicSnapshots().
ListDue(k) ==
  /\ cleaner = Rest /\ Due(k) /\ ~Referenced(k)
  /\ cleaner' = [stage |-> "listed", key |-> k]
  /\ UNCHANGED <<publication, object, ledger, lease, mishaps>>

\* Mutant: the references are not looked at again.
PurgeableAsListed(k) == Due(k)

\* The row under FOR UPDATE: what was listed may have been leased or published.
Purgeable(k) == Due(k) /\ ~Referenced(k)

\* Mutant: the objects to be deleted are not written down.
OwedNever(entry) == entry

\* ON CONFLICT DO NOTHING: an entry of an earlier purge stays as it is.
Owed(entry) == IF entry = "none" THEN "pending" ELSE entry

\* purgePublicSnapshotPayload(), up to its COMMIT.
Purge ==
  LET k == cleaner.key IN
  /\ cleaner.stage = "listed"
  /\ IF Purgeable(k)
     THEN /\ snapshot' = [snapshot EXCEPT ![k].keys = "none", ![k].payload = "purged"]
          /\ ledger' = [ledger EXCEPT ![k] = Owed(@)]
          /\ CleanerGoes("deleting")
     ELSE /\ cleaner' = Rest /\ UNCHANGED <<snapshot, ledger>>
  /\ UNCHANGED <<head, update, graced, object, lease, mishaps>>

\* deleteRetiredSnapshotObjectsBatch() reads an open entry of the ledger; it does
\* not ask what became of the key.
Resume(k) ==
  /\ cleaner = Rest /\ ledger[k] = "pending"
  /\ cleaner' = [stage |-> "deleting", key |-> k]
  /\ UNCHANGED <<publication, object, ledger, lease, mishaps>>

\* deleteSnapshotObjects(): the objects, then the entry.
DeleteObjects ==
  /\ cleaner.stage = "deleting"
  /\ object' = object \ {cleaner.key}
  /\ CleanerGoes("deleted")
  /\ UNCHANGED <<publication, ledger, lease, mishaps>>

RecordDeletion ==
  /\ cleaner.stage = "deleted"
  /\ ledger' = [ledger EXCEPT ![cleaner.key] = "deleted"]
  /\ cleaner' = Rest
  /\ UNCHANGED <<publication, object, lease, mishaps>>

\* The store refuses, or the scheduler dies: the entry stays open.
BreakOff ==
  /\ cleaner # Rest /\ Mishap
  /\ cleaner' = Rest
  /\ UNCHANGED <<publication, object, ledger, lease>>

-----------------------------------------------------------------------------
RetentionNext ==
  \/ LookForView \/ Upload \/ SaveRow \/ PublishHead \/ FailRetrieval
  \/ Purge \/ DeleteObjects \/ RecordDeletion \/ BreakOff
  \/ \E k \in Versions :
       \/ StartUpdate(k) \/ PassGrace(k) \/ ListDue(k) \/ Resume(k)
       \/ \E r \in SnapshotReaders : Lease(r, k)
  \/ \E r \in SnapshotReaders : EndLease(r)

\* The scheduler runs every 30 seconds and comes to every entry of the ledger.
RetentionFairness ==
  /\ WF_retentionVars(Purge \/ DeleteObjects \/ RecordDeletion)
  /\ SF_retentionVars(\E k \in Versions : Resume(k))

RetentionSpec == RetentionInit /\ [][RetentionNext]_retentionVars /\ RetentionFairness

-----------------------------------------------------------------------------
(* Properties.                                                               *)

\* A turn that holds a lease reads its version to the end, although newer ones are
\* published, its grace runs out and the clean-up may have chosen it before.
LeasedReadable == \A r \in SnapshotReaders : lease[r] # NoLease => Readable(lease[r])

\* The version the last publication replaced can still be leased until its grace is
\* over, whatever is saved, listed and purged meanwhile.
GraceKept == graced # 0 => Leasable(graced)

\* What readers were promised stays readable: their leases and the grace.
StaysReadable == LeasedReadable /\ GraceKept

\* The objects of a purged version disappear, although a deletion may fail and the
\* scheduler may die between the transaction and the deletion.
PurgedGone ==
  \A k \in Versions : []<>(Purged(k) => k \notin object)

\* "Preparatory uploads are invisible and protect their objects from reclamation":
\* what an update has uploaded is there when it saves the row.
UploadsProtected == UpdateAt("uploaded") => update.key \in object
=============================================================================
