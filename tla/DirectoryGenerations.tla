----------------------- MODULE DirectoryGenerations -----------------------
(***************************************************************************)
(* The query directory of one public snapshot key: its generations.        *)
(* server/src/persistence: snapshot-directory-publication.ts stages one    *)
(* while the publishing transaction of savePublicSnapshot() is open, in    *)
(* small commits of its own, and binds it at the end; directory-           *)
(* reclamation.ts removes those that are not bound (any more), in batches; *)
(* snapshot-query-reader.ts reads the bound one, tables in the database    *)
(* and objects in a store that knows no transactions.                      *)
(*                                                                         *)
(* The tables of a generation are one table, its objects one object.  A    *)
(* batch of the reclamation is two steps: it chooses its work, and with    *)
(* it reads the manifest, before it takes any lock on the generation.      *)
(***************************************************************************)
EXTENDS Naturals, FiniteSets

CONSTANTS
  Generations,      \* directory_id, in the order they are drawn
  Publishers,       \* calls of savePublicSnapshot() for this key
  DirectoryReaders,
  Unleased,         \* the readers who take no lease of the snapshot
  Torn,             \* whether the manifest may be written between the steps of a batch
  MaxTroubles       \* bound: calls that fail and processes that die

ASSUME DirectoryAssumption ==
  Generations \subseteq Nat \ {0} /\ Unleased \subseteq DirectoryReaders /\ Torn \in BOOLEAN
  /\ Publishers \cap DirectoryReaders = {} /\ MaxTroubles \in Nat

VARIABLES
  age,         \* of the row of the key: "absent", "fresh", "retired" and due, "purged"
  pointer,     \* snapshot_query_directories, 0 for none
  generations, \* snapshot_directory_generations; "expired": staging_expires_at has passed
  known,       \* what tells the objects of a generation: intents and manifest
  tables,      \* the generations whose tables are there
  stored,      \* the generations whose objects are in the store
  queue,       \* snapshot_directory_reclamation; "observed": cleanup_observed_at is set
  older,       \* the open transactions that began before that
  doomed,      \* both ledgers of objects to delete
  work,        \* the batch: its generation, the manifest it read, what it has queued
  publisher, dirReader, troubles

keyVars == <<age, pointer>>
generationVars == <<generations, known, tables>>
objectVars == <<stored, doomed>>
cleanupVars == <<queue, older, work>>
dirVars == <<keyVars, generationVars, objectVars, cleanupVars, publisher, dirReader, troubles>>

NoWork == [g |-> 0, manifest |-> {}, added |-> {}]
At(s, g) == [stage |-> s, g |-> g]
Away == At("away", 0)

DirectoryInit ==
  /\ age = "absent" /\ pointer = 0
  /\ generations = [g \in Generations |-> "none"] /\ known = [g \in Generations |-> {}]
  /\ tables = {} /\ stored = {} /\ doomed = {}
  /\ queue = [g \in Generations |-> "no"] /\ older = [g \in Generations |-> {}]
  /\ work = NoWork
  /\ publisher = [p \in Publishers |-> Away] /\ dirReader = [r \in DirectoryReaders |-> Away]
  /\ troubles = 0

There(g) == generations[g] \in {"staging", "expired", "kept"}
Trouble == troubles < MaxTroubles /\ troubles' = troubles + 1

\* INSERT ... ON CONFLICT DO NOTHING.
Queued(q) == IF q = "no" THEN "queued" ELSE q

\* The lock `snapshot-publication:<key>', and that of the row of the key.
Binding == \E p \in Publishers : publisher[p].stage = "bound"

\* Transactions open now; one that ends is no longer older than anything.
Open == {p \in Publishers : publisher[p] # Away}
        \cup {r \in DirectoryReaders : dirReader[r].stage = "reading"}
Over(t) == older' = [g \in Generations |-> older[g] \ {t}]

-----------------------------------------------------------------------------
(* Publication.                                                              *)

PublisherAt(p, s) == publisher[p].stage = s
Goes(p, s) == publisher' = [publisher EXCEPT ![p].stage = s]

\* The transaction begins, and a generation is drawn on another connection.
StageGeneration(p, g) ==
  /\ publisher[p] = Away
  /\ generations[g] = "none" /\ \A h \in Generations : h < g => generations[h] # "none"
  /\ generations' = [generations EXCEPT ![g] = "staging"]
  /\ publisher' = [publisher EXCEPT ![p] = At("staged", g)]
  /\ UNCHANGED <<keyVars, objectVars, cleanupVars, known, tables, dirReader, troubles>>

\* "Commit ownership before uploading": the intent refers to the row of the generation.
Intend(p) ==
  LET g == publisher[p].g IN
  /\ PublisherAt(p, "staged") /\ There(g)
  /\ known' = [known EXCEPT ![g] = @ \cup {"intent"}]
  /\ Goes(p, "intended")
  /\ UNCHANGED <<keyVars, objectVars, cleanupVars, generations, tables, dirReader, troubles>>

PutChunks(p) ==
  /\ PublisherAt(p, "intended")
  /\ stored' = stored \cup {publisher[p].g}
  /\ Goes(p, "uploaded")
  /\ UNCHANGED <<keyVars, generationVars, cleanupVars, doomed, dirReader, troubles>>

\* UPDATE of the generation, which need not be there.
Record(p) ==
  LET g == publisher[p].g IN
  /\ PublisherAt(p, "uploaded")
  /\ known' = [known EXCEPT ![g] = IF There(g) THEN @ \cup {"manifest"} ELSE @]
  /\ Goes(p, "recorded")
  /\ UNCHANGED <<keyVars, objectVars, cleanupVars, generations, tables, dirReader, troubles>>

DropIntents(p) ==
  LET g == publisher[p].g IN
  /\ PublisherAt(p, "recorded")
  /\ known' = [known EXCEPT ![g] = @ \ {"intent"}]
  /\ Goes(p, "described")
  /\ UNCHANGED <<keyVars, objectVars, cleanupVars, generations, tables, dirReader, troubles>>

\* The parallel connections commit; their foreign key needs the generation.
LoadTables(p) ==
  LET g == publisher[p].g IN
  /\ PublisherAt(p, "described") /\ There(g)
  /\ tables' = tables \cup {g}
  /\ Goes(p, "loaded")
  /\ UNCHANGED <<keyVars, objectVars, cleanupVars, generations, known, dirReader, troubles>>

Publishable(g) == There(g) /\ queue[g] = "no"

\* bindSnapshotQueryDirectory(), which waits for the lock and is not committed yet.
Bind(p) ==
  /\ PublisherAt(p, "loaded") /\ ~Binding /\ Publishable(publisher[p].g)
  /\ Goes(p, "bound")
  /\ UNCHANGED <<keyVars, generationVars, objectVars, cleanupVars, dirReader, troubles>>

\* "The old version and its durable work item become retired atomically".
CommitPublication(p) ==
  LET g == publisher[p].g IN
  /\ PublisherAt(p, "bound")
  /\ age' = "fresh" /\ pointer' = g
  /\ generations' = [generations EXCEPT ![g] = "kept"]
  /\ queue' = [h \in Generations |-> IF h = pointer THEN Queued(queue[h]) ELSE queue[h]]
  /\ publisher' = [publisher EXCEPT ![p] = Away] /\ Over(p)
  /\ UNCHANGED <<objectVars, known, tables, work, dirReader, troubles>>

\* What was staged is queued, if that succeeds and the process lives to do it.
GiveUp(p, landed) ==
  LET g == publisher[p].g IN
  /\ stored' = stored \cup landed
  /\ queue' \in {queue, [queue EXCEPT ![g] = IF There(g) THEN Queued(@) ELSE @]}
  /\ publisher' = [publisher EXCEPT ![p] = Away] /\ Over(p)
  /\ UNCHANGED <<keyVars, generationVars, doomed, work, dirReader>>

\* An intent or a table without its generation, or a generation that was queued.
Refused(p) ==
  /\ \/ publisher[p].stage \in {"staged", "described"} /\ ~There(publisher[p].g)
     \/ PublisherAt(p, "loaded") /\ ~Binding /\ ~Publishable(publisher[p].g)
  /\ GiveUp(p, {}) /\ UNCHANGED troubles

\* The fence, the store or the database refuses, or the process dies. An upload that
\* failed, or was not answered, may have arrived.
FailPublication(p) ==
  /\ publisher[p] # Away /\ Trouble
  /\ \E landed \in SUBSET {publisher[p].g} :
       (landed # {} => PublisherAt(p, "intended")) /\ GiveUp(p, landed)

\* Three hours after a generation was staged.
ExpireStaging(g) ==
  /\ generations[g] = "staging"
  /\ generations' = [generations EXCEPT ![g] = "expired"]
  /\ UNCHANGED <<keyVars, objectVars, cleanupVars, known, tables, publisher, dirReader, troubles>>

-----------------------------------------------------------------------------
(* The elected maintenance process: reclaimSnapshotDirectoryBatch().         *)

\* enqueueExpiredDirectoryStaging(): by what is committed.
Unbound(g) == generations[g] = "expired" /\ pointer # g

\* The batch queues what has expired, invisibly, and chooses its work.
Choose(g) ==
  LET added == {h \in Generations : Unbound(h) /\ queue[h] = "no"} IN
  /\ work = NoWork
  /\ queue[g] # "no" \/ g \in added
  /\ work' = [g |-> g, manifest |-> known[g] \cap {"manifest"}, added |-> added]
  /\ UNCHANGED <<keyVars, generationVars, objectVars, queue, older, publisher, dirReader, troubles>>

\* The queue once the batch commits.
Committed == [h \in Generations |-> IF h \in work.added THEN Queued(queue[h]) ELSE queue[h]]

\* Mutant: only the manifest is looked at.
KeysOfManifest(g) == known[g] \cap {"manifest"}

\* The keys the batch finds: the manifest it read first, and the intents of now.
Keys(g) ==
  (known[g] \cap {"intent"}) \cup (IF Torn THEN work.manifest ELSE known[g] \cap {"manifest"})

\* A transaction may still read it.
InUse(g) == g \in tables \/ Keys(g) # {}

\* Mutant: nobody is waited for.
ReadableByNobody(g) == {}

\* What a transaction may still read holds the batch up.
ReadableBy(g) == older[g]
HeldUp(g) == Committed[g] = "observed" /\ ReadableBy(g) # {}

\* Rolled back: the lock of the key is taken, or a table may still be read.
GiveWay ==
  /\ work # NoWork
  /\ Binding \/ (pointer # work.g /\ work.g \in tables /\ HeldUp(work.g))
  /\ work' = NoWork
  /\ UNCHANGED <<keyVars, generationVars, objectVars, queue, older, publisher, dirReader, troubles>>

\* Committed as it is: objects may still be read.
AwaitReaders ==
  LET g == work.g IN
  /\ work # NoWork /\ ~Binding /\ pointer # g
  /\ g \notin tables /\ Keys(g) # {} /\ HeldUp(g)
  /\ queue' = Committed /\ work' = NoWork
  /\ UNCHANGED <<keyVars, generationVars, objectVars, older, publisher, dirReader, troubles>>

\* The first time, the moment is noted.
Observe ==
  LET g == work.g IN
  /\ work # NoWork /\ ~Binding /\ pointer # g
  /\ InUse(g) /\ Committed[g] = "queued"
  /\ queue' = [Committed EXCEPT ![g] = "observed"]
  /\ older' = [older EXCEPT ![g] = Open]
  /\ work' = NoWork
  /\ UNCHANGED <<keyVars, generationVars, objectVars, publisher, dirReader, troubles>>

\* drop_retired_snapshot_directory_child().
DropTables ==
  LET g == work.g IN
  /\ work # NoWork /\ ~Binding /\ pointer # g
  /\ g \in tables /\ Committed[g] = "observed" /\ ReadableBy(g) = {}
  /\ tables' = tables \ {g}
  /\ queue' = Committed /\ work' = NoWork
  /\ UNCHANGED <<keyVars, objectVars, generations, known, older, publisher, dirReader, troubles>>

\* Without rows: the keys go to the ledger, and the generation goes.
Finish ==
  LET g == work.g IN
  /\ work # NoWork /\ ~Binding /\ pointer # g
  /\ g \notin tables
  /\ Keys(g) # {} => Committed[g] = "observed" /\ ReadableBy(g) = {}
  /\ doomed' = IF Keys(g) # {} THEN doomed \cup {g} ELSE doomed
  /\ known' = [known EXCEPT ![g] = {}] /\ generations' = [generations EXCEPT ![g] = "gone"]
  /\ queue' = [Committed EXCEPT ![g] = "no"] /\ older' = [older EXCEPT ![g] = {}]
  /\ work' = NoWork
  /\ UNCHANGED <<keyVars, tables, stored, publisher, dirReader, troubles>>

\* It was bound after all.
Unqueue ==
  /\ work # NoWork /\ ~Binding /\ pointer = work.g
  /\ queue' = [Committed EXCEPT ![work.g] = "no"]
  /\ work' = NoWork
  /\ UNCHANGED <<keyVars, generationVars, objectVars, older, publisher, dirReader, troubles>>

\* deleteDirectoryObjectsBatch() and deleteSnapshotObjects(), until they succeed.
DeleteDoomed(g) ==
  /\ g \in doomed
  /\ stored' = stored \ {g} /\ doomed' = doomed \ {g}
  /\ UNCHANGED <<keyVars, generationVars, cleanupVars, publisher, dirReader, troubles>>

-----------------------------------------------------------------------------
(* The snapshot: its retirement and purge, see SnapshotRetention.            *)

RetireSnapshot ==
  /\ age = "fresh" /\ ~Binding
  /\ age' = "retired"
  /\ UNCHANGED <<generationVars, objectVars, cleanupVars, pointer, publisher, dirReader, troubles>>

Leased == \E r \in DirectoryReaders \ Unleased : dirReader[r] # Away

\* purgePublicSnapshotPayload(): every generation of the key is queued, and its known
\* objects are deleted after the transaction, whoever reads them.
PurgeDirectory ==
  /\ age = "retired" /\ ~Binding /\ ~Leased
  /\ age' = "purged" /\ pointer' = 0
  /\ queue' = [g \in Generations |-> IF There(g) THEN Queued(queue[g]) ELSE queue[g]]
  /\ doomed' = doomed \cup {g \in Generations : known[g] # {}}
  /\ UNCHANGED <<generationVars, stored, older, work, publisher, dirReader, troubles>>

-----------------------------------------------------------------------------
(* Readers.                                                                  *)

\* acquireSnapshotReadLease(), for a turn of a conversation.
LeaseSnapshot(r) ==
  /\ dirReader[r] = Away /\ r \notin Unleased /\ age = "fresh"
  /\ dirReader' = [dirReader EXCEPT ![r] = At("leased", 0)]
  /\ UNCHANGED <<keyVars, generationVars, objectVars, cleanupVars, publisher, troubles>>

\* withDirectory(): REPEATABLE READ, what is bound now stays what it sees.
OpenDirectory(r) ==
  /\ IF r \in Unleased THEN dirReader[r] = Away ELSE dirReader[r] = At("leased", 0)
  /\ pointer # 0
  /\ dirReader' = [dirReader EXCEPT ![r] = At("reading", pointer)]
  /\ UNCHANGED <<keyVars, generationVars, objectVars, cleanupVars, publisher, troubles>>

\* The transaction ends, and with it the lease.
CloseDirectory(r) ==
  /\ dirReader[r] # Away
  /\ dirReader' = [dirReader EXCEPT ![r] = Away] /\ Over(r)
  /\ UNCHANGED <<keyVars, generationVars, objectVars, queue, work, publisher, troubles>>

-----------------------------------------------------------------------------
PublishDirectory(p) ==
  \/ \E g \in Generations : StageGeneration(p, g)
  \/ Intend(p) \/ PutChunks(p) \/ Record(p) \/ DropIntents(p) \/ LoadTables(p)
  \/ Bind(p) \/ CommitPublication(p) \/ Refused(p)

Proceed == GiveWay \/ AwaitReaders \/ Observe \/ DropTables \/ Finish \/ Unqueue

DirectoryNext ==
  \/ \E p \in Publishers : PublishDirectory(p) \/ FailPublication(p)
  \/ \E g \in Generations : ExpireStaging(g) \/ Choose(g) \/ DeleteDoomed(g)
  \/ Proceed \/ RetireSnapshot \/ PurgeDirectory
  \/ \E r \in DirectoryReaders : LeaseSnapshot(r) \/ OpenDirectory(r) \/ CloseDirectory(r)

\* Publications and reads end, the maintenance process is elected again, and comes to
\* every item of its queue and its ledger.
DirectoryFairness ==
  /\ \A p \in Publishers : WF_dirVars(PublishDirectory(p))
  /\ \A r \in DirectoryReaders : WF_dirVars(CloseDirectory(r))
  /\ \A g \in Generations :
       WF_dirVars(ExpireStaging(g)) /\ SF_dirVars(Choose(g)) /\ WF_dirVars(DeleteDoomed(g))
  /\ WF_dirVars(Proceed)

DirectorySpec == DirectoryInit /\ [][DirectoryNext]_dirVars /\ DirectoryFairness

-----------------------------------------------------------------------------
(* Properties.                                                               *)

\* "Reclamation waits for transactions that could still see the retired generation":
\* what a reader has found, and what the next one will find, is complete, although
\* generations are replaced, expire, are queued and purged meanwhile.
DirectoryReadable ==
  LET Complete(g) == g \in tables /\ g \in stored IN
  /\ \A r \in DirectoryReaders : dirReader[r].stage = "reading" => Complete(dirReader[r].g)
  /\ pointer # 0 => Complete(pointer)

\* "An interrupted upload or a rolled-back publication therefore leaves recoverable
\* ownership metadata": no object is in the store that nobody would delete.
ObjectsOwned ==
  \A g \in stored : g \in doomed \/ (There(g) /\ known[g] # {})

\* A generation that is not bound disappears, with its tables and its objects, whoever
\* died at which moment.
AbandonedGone ==
  \A g \in Generations :
    []<>(pointer = g \/ (generations[g] \in {"none", "gone"} /\ g \notin tables \cup stored))
=============================================================================
