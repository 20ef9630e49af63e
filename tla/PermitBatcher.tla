--------------------------- MODULE PermitBatcher ---------------------------
(***************************************************************************)
(* server/src/scheduling/postgres-permit-batcher.ts: the change() of the   *)
(* PostgreSQL permit store.  Callers of one process queue per namespace;   *)
(* one loop takes a namespace at a time, locks it, runs the changes of a   *)
(* batch of callers in memory, and writes and commits what they leave in   *)
(* one transaction.  A caller may give up at any moment; other processes   *)
(* hold the lock of a namespace for their own transactions.                *)
(*                                                                         *)
(* A request stands for a fresh call whenever it has ended.                *)
(***************************************************************************)
EXTENDS Naturals, FiniteSets, SequencesExt

CONSTANTS
  Requests, Namespaces,
  NamespaceOf,      \* the namespace of each request
  MaxBatch,         \* MAX_BATCH
  MaxOutstanding,   \* MAX_OUTSTANDING
  MaxCancels        \* bound: calls given up

ASSUME BatcherAssumption ==
  /\ NamespaceOf \in [Requests -> Namespaces] /\ MaxBatch \in Nat \ {0}
  /\ "none" \notin Namespaces

VARIABLES
  \* the process
  call,       \* per request: "idle", "queued", "active", "done", "failed"
  queues,     \* per namespace, the requests that wait
  ready,      \* the namespaces to be served, in turn
  delayed,    \* the namespaces whose lock was busy
  loop,       \* "idle", "scheduled", "running"
  attempt,    \* the batch in work
  cancels,
  \* the database
  lock,       \* per namespace, who holds its advisory lock
  staged,     \* per namespace, the requests whose COMMIT is on its way
  \* history
  applied,    \* per request, how often its change took effect
  earlier     \* per request, the requests of its namespace that came before it

callers == <<call, queues, ready, delayed, loop, cancels>>
database == <<lock, staged, applied>>
batcherVars == <<callers, attempt, database, earlier>>

NoAttempt == [stage |-> "none", ns |-> "none", jobs |-> << >>, results |-> {}, broken |-> FALSE]

BatcherInit ==
  /\ call = [r \in Requests |-> "idle"]
  /\ queues = [n \in Namespaces |-> << >>]
  /\ ready = << >> /\ delayed = {} /\ loop = "idle"
  /\ attempt = NoAttempt /\ cancels = 0
  /\ lock = [n \in Namespaces |-> "free"]
  /\ staged = [n \in Namespaces |-> {}]
  /\ applied = [r \in Requests |-> 0]
  /\ earlier = [r \in Requests |-> {}]

Outstanding == {r \in Requests : call[r] \in {"queued", "active"}}
Jobs == ToSet(attempt.jobs)
Wanted == {r \in Jobs : call[r] = "active"}
Stage(s) == attempt.stage = s

\* What is left of a list: SelectSeq, as a function that can be reasoned about.
Kept(list, S) ==
  LET kept[i \in 0 .. Len(list)] ==
        IF i = 0 THEN << >>
        ELSE IF list[i] \in S THEN Append(kept[i - 1], list[i]) ELSE kept[i - 1]
  IN kept[Len(list)]

\* markReady(), with the queues and delayed namespaces of the next state: a
\* namespace that becomes ready wakes the loop.
MarkReady(list, n) ==
  /\ ready' = IF n \in delayed' \/ n \in ToSet(list) \/ queues'[n] = << >> THEN list ELSE Append(list, n)
  /\ loop' = IF loop = "idle" /\ Len(ready') > Len(list) THEN "scheduled" ELSE loop

\* unready(), when a queue becomes empty.
Unready(list, n) == IF queues'[n] = << >> THEN Kept(list, Namespaces \ {n}) ELSE list

-----------------------------------------------------------------------------
(* Callers.                                                                *)

Submit(r) ==
  /\ call[r] \notin {"queued", "active"}
  /\ r \notin Jobs
  /\ r \notin staged[NamespaceOf[r]]
  /\ IF Cardinality(Outstanding) < MaxOutstanding
     THEN /\ call' = [call EXCEPT ![r] = "queued"]
          /\ queues' = [queues EXCEPT ![NamespaceOf[r]] = Append(@, r)]
          /\ delayed' = delayed
          /\ MarkReady(ready, NamespaceOf[r])
          /\ applied' = [applied EXCEPT ![r] = 0]
          /\ earlier' = [q \in Requests |->
               IF q = r THEN {p \in Outstanding : NamespaceOf[p] = NamespaceOf[r]} ELSE earlier[q] \ {r}]
     ELSE /\ call' = [call EXCEPT ![r] = "failed"]
          /\ applied' = [applied EXCEPT ![r] = 0]
          /\ UNCHANGED <<queues, ready, delayed, loop, earlier>>
  /\ UNCHANGED <<attempt, cancels, lock, staged>>

\* Mutant: once the changes have been run, only the caller is told.
BreaksUntilRun(r) ==
  \/ attempt.stage \in {"precommit", "locked"}
  \/ attempt.stage \in {"acquiring", "commit"} /\ Wanted = {r}

\* cancel(): an open transaction is given up with its caller, a connection
\* and a COMMIT only with their last one.
Breaks(r) ==
  \/ attempt.stage \in {"precommit", "locked", "ran"}
  \/ attempt.stage \in {"acquiring", "commit"} /\ Wanted = {r}

Cancel(r) ==
  /\ r \in Outstanding /\ cancels < MaxCancels
  /\ cancels' = cancels + 1
  /\ call' = [call EXCEPT ![r] = "failed"]
  /\ IF call[r] = "queued"
     THEN /\ queues' = [queues EXCEPT ![NamespaceOf[r]] = Kept(@, Requests \ {r})]
          /\ ready' = Unready(ready, NamespaceOf[r])
          /\ attempt' = attempt
     ELSE /\ attempt' = IF Breaks(r) THEN [attempt EXCEPT !.broken = TRUE] ELSE attempt
          /\ UNCHANGED <<queues, ready>>
  /\ UNCHANGED <<delayed, loop, database, earlier>>

\* The delay of a namespace whose lock was busy is over.
TimerFires(n) ==
  /\ n \in delayed
  /\ delayed' = delayed \ {n}
  /\ queues' = queues
  /\ MarkReady(ready, n)
  /\ UNCHANGED <<call, cancels, attempt, database, earlier>>

-----------------------------------------------------------------------------
(* The loop.                                                               *)

Activated(n, rs) == [r \in Requests |-> IF r \in ToSet(rs) THEN "active" ELSE call[r]]

\* next(): the batch of the first namespace, which goes to the end of the
\* list if its queue holds more.
Take ==
  /\ loop # "idle" /\ Stage("none")
  /\ IF ready = << >>
     THEN loop' = "idle" /\ UNCHANGED <<call, queues, ready, delayed, attempt>>
     ELSE LET n == Head(ready)
              size == IF Len(queues[n]) < MaxBatch THEN Len(queues[n]) ELSE MaxBatch
              jobs == SubSeq(queues[n], 1, size)
          IN /\ queues' = [queues EXCEPT ![n] = SubSeq(@, size + 1, Len(@))]
             /\ ready' = IF queues'[n] # << >> THEN Append(Tail(ready), n) ELSE Tail(ready)
             /\ attempt' = [stage |-> "acquiring", ns |-> n, jobs |-> jobs, results |-> {}, broken |-> FALSE]
             /\ call' = Activated(n, jobs)
             /\ loop' = "running" /\ delayed' = delayed
  /\ UNCHANGED <<cancels, database, earlier>>

\* The end of execute(): callers are answered, or run again.
Ends(answer) ==
  /\ attempt' = NoAttempt
  /\ call' = [r \in Requests |-> IF r \in Wanted THEN answer ELSE call[r]]
  /\ UNCHANGED <<queues, ready, delayed, loop, cancels>>

Fails == Ends("failed")

\* Mutant: the survivors go to the end of the queue.
RequeuedLast(n) ==
  [queues EXCEPT ![n] = @ \o Kept(attempt.jobs, Wanted)]

\* requeue(): the survivors go first.
Requeued(n) ==
  [queues EXCEPT ![n] = Kept(attempt.jobs, Wanted) \o @]

SentBack == [r \in Requests |-> IF r \in Wanted THEN "queued" ELSE call[r]]

\* Mutant: nobody thinks of the namespace again once its lock was busy.
TriesAgainOnce(later) ==
  LET n == attempt.ns IN
  /\ attempt' = NoAttempt /\ call' = SentBack /\ UNCHANGED <<cancels, delayed>>
  /\ IF Wanted = {} THEN UNCHANGED <<queues, ready, loop>>
     ELSE /\ queues' = Requeued(n)
          /\ IF later THEN ready' = Kept(ready, Namespaces \ {n}) /\ loop' = loop
             ELSE MarkReady(ready, n)

\* A retry at once, or after RETRY_MS.
TriesAgain(later) ==
  LET n == attempt.ns IN
  /\ attempt' = NoAttempt /\ call' = SentBack /\ UNCHANGED cancels
  /\ IF Wanted = {} THEN UNCHANGED <<queues, ready, delayed, loop>>
     ELSE /\ queues' = Requeued(n)
          /\ IF later
             THEN /\ delayed' = delayed \cup {n}
                  /\ ready' = Kept(ready, Namespaces \ {n}) /\ loop' = loop
             ELSE delayed' = delayed /\ MarkReady(ready, n)

\* absorb(): whoever came while the connection was awaited joins the batch.
Connect ==
  /\ Stage("acquiring") /\ ~attempt.broken
  /\ LET n == attempt.ns
         space == MaxBatch - Len(attempt.jobs)
         size == IF Len(queues[n]) < space THEN Len(queues[n]) ELSE space
         more == SubSeq(queues[n], 1, size)
     IN /\ attempt' = [attempt EXCEPT !.stage = "precommit", !.jobs = @ \o more]
        /\ call' = Activated(n, more)
        /\ queues' = [queues EXCEPT ![n] = SubSeq(@, size + 1, Len(@))]
        /\ ready' = Unready(ready, n)
  /\ UNCHANGED <<delayed, loop, cancels, database, earlier>>

ConnectFails ==
  /\ Stage("acquiring")
  /\ Fails
  /\ UNCHANGED <<database, earlier>>

\* pg_try_advisory_xact_lock(): the changes run on what is locked, or later.
Lock ==
  /\ Stage("precommit") /\ ~attempt.broken
  /\ IF lock[attempt.ns] = "free"
     THEN /\ lock' = [lock EXCEPT ![attempt.ns] = "held"]
          /\ attempt' = [attempt EXCEPT !.stage = "locked"]
          /\ UNCHANGED callers
     ELSE TriesAgain(TRUE) /\ UNCHANGED lock
  /\ UNCHANGED <<staged, applied, earlier>>

\* Every caller that still waits has its change run; one that throws is
\* answered at once and the others go on without it.
Run ==
  /\ Stage("locked") /\ ~attempt.broken
  /\ \E results \in SUBSET Wanted :
       IF results = {} THEN Fails /\ lock' = [lock EXCEPT ![attempt.ns] = "free"]
       ELSE /\ attempt' = [attempt EXCEPT !.stage = "ran", !.results = results]
            /\ call' = [r \in Requests |-> IF r \in Wanted \ results THEN "failed" ELSE call[r]]
            /\ UNCHANGED <<queues, ready, delayed, loop, cancels, lock>>
  /\ UNCHANGED <<staged, applied, earlier>>

SendCommit ==
  /\ Stage("ran") /\ ~attempt.broken
  /\ attempt' = [attempt EXCEPT !.stage = "commit"]
  /\ lock' = [lock EXCEPT ![attempt.ns] = "committing"]
  /\ staged' = [staged EXCEPT ![attempt.ns] = attempt.results]
  /\ UNCHANGED <<callers, applied, earlier>>

Committed == Stage("commit") /\ staged[attempt.ns] = {} /\ \A r \in attempt.results : applied[r] > 0

Succeed ==
  /\ Committed /\ ~attempt.broken
  /\ Ends("done")
  /\ UNCHANGED <<database, earlier>>

\* The answer to the COMMIT is lost, or nobody waits for it any more.
CommitFails ==
  /\ Stage("commit")
  /\ Fails
  /\ UNCHANGED <<database, earlier>>

\* What a transaction that ends before its COMMIT leaves: rolled back, or cut
\* off, to be noticed by the server.
RolledBack(left) == lock' = [lock EXCEPT ![attempt.ns] = IF @ = "held" THEN left ELSE @]

QueryFails ==
  /\ attempt.stage \in {"precommit", "locked", "ran"} /\ ~attempt.broken
  /\ \/ Fails
     \/ Stage("ran") /\ TriesAgain(TRUE)   \* 55P03, rows locked for too long
  /\ \E left \in {"free", "severed"} : RolledBack(left)
  /\ UNCHANGED <<staged, applied, earlier>>

\* A transaction that lost one of its callers is run again for the others.
Unwind ==
  /\ attempt.stage \in {"precommit", "locked", "ran"} /\ attempt.broken
  /\ TriesAgain(FALSE)
  /\ RolledBack("severed")
  /\ UNCHANGED <<staged, applied, earlier>>

-----------------------------------------------------------------------------
(* The database and other processes.                                       *)

\* A COMMIT arrives, whoever still waits for it, or its connection is gone.
Land(n) ==
  /\ lock[n] = "committing"
  /\ lock' = [lock EXCEPT ![n] = "free"]
  /\ staged' = [staged EXCEPT ![n] = {}]
  /\ applied' = [r \in Requests |-> IF r \in staged[n] THEN applied[r] + 1 ELSE applied[r]]
  /\ UNCHANGED <<callers, attempt, earlier>>

Vanish(n) ==
  /\ lock[n] = "committing"
  /\ lock' = [lock EXCEPT ![n] = "free"]
  /\ staged' = [staged EXCEPT ![n] = {}]
  /\ UNCHANGED <<callers, attempt, applied, earlier>>

\* The server notices that a connection was closed.
Notice(n) ==
  /\ lock[n] = "severed"
  /\ lock' = [lock EXCEPT ![n] = "free"]
  /\ UNCHANGED <<callers, attempt, staged, applied, earlier>>

OtherTakes(n) ==
  /\ lock[n] = "free"
  /\ lock' = [lock EXCEPT ![n] = "other"]
  /\ UNCHANGED <<callers, attempt, staged, applied, earlier>>

OtherLeaves(n) ==
  /\ lock[n] = "other"
  /\ lock' = [lock EXCEPT ![n] = "free"]
  /\ UNCHANGED <<callers, attempt, staged, applied, earlier>>

-----------------------------------------------------------------------------
BatcherNext ==
  \/ \E r \in Requests : Submit(r) \/ Cancel(r)
  \/ Take \/ Connect \/ ConnectFails \/ Lock \/ Run \/ SendCommit \/ Succeed
  \/ CommitFails \/ QueryFails \/ Unwind
  \/ \E n \in Namespaces :
       TimerFires(n) \/ Land(n) \/ Vanish(n) \/ Notice(n) \/ OtherTakes(n) \/ OtherLeaves(n)

\* The loop goes on: statements have time limits (statement_timeout 2 s, and the
\* deadlines of the callers).
Works ==
  \/ Take \/ Connect \/ ConnectFails \/ Lock \/ Run \/ SendCommit \/ Succeed
  \/ CommitFails \/ Unwind

Tries(n) == Stage("precommit") /\ attempt.ns = n
Gets(n) == Lock /\ lock'[n] # lock[n]

\* Timers fire, transactions of other processes end, connections close; of the
\* attempts at a lock not all meet another process, and of the transactions not
\* all are held up by row locks.
BatcherFairness ==
  /\ WF_batcherVars(Works)
  /\ \A n \in Namespaces :
       /\ WF_batcherVars(TimerFires(n))
       /\ WF_batcherVars(Land(n) \/ Vanish(n) \/ Notice(n) \/ OtherLeaves(n))
       /\ SF_batcherVars(SendCommit /\ attempt.ns = n)
       /\ []<>(Tries(n)) => []<><<Gets(n)>>_batcherVars

BatcherSpec == BatcherInit /\ [][BatcherNext]_batcherVars /\ BatcherFairness

-----------------------------------------------------------------------------
(* Properties.                                                             *)

Without == [idle |-> "none", queued |-> "asked", active |-> "asked", done |-> "wrong", failed |-> "failed"]
With == [idle |-> "none", queued |-> "applied", active |-> "applied", done |-> "done", failed |-> "late"]

Status(r) ==
  IF call[r] = "failed" /\ r \in staged[NamespaceOf[r]] THEN "orphan"
  ELSE IF applied[r] = 0 THEN Without[call[r]]
  ELSE IF applied[r] = 1 THEN With[call[r]]
  ELSE "wrong"

Store == INSTANCE PermitStore WITH change <- [r \in Requests |-> Status(r)]

\* Batching keeps the contract that CapacityPermits relies on: whatever is cancelled,
\* cut off or retried, a change takes effect at most once, success is reported only
\* of what was committed, and a change given up before its COMMIT was sent has no
\* effect (the phases of cancel() and the retries of execute()).
ImplementsStore == Store!Spec

Line(n) == (IF attempt.ns = n THEN attempt.jobs ELSE << >>) \o queues[n]

\* The changes of a namespace are run in the order in which their callers came,
\* although batches are broken up, retried and filled up (requeue(), absorb()): the
\* turns of waiters in permits.ts, which go by the order numbers handed out in these
\* changes, rest on it.
ServedInOrder ==
  \A n \in Namespaces : \A i, j \in 1..Len(Line(n)) :
    i < j /\ {Line(n)[i], Line(n)[j]} \subseteq Outstanding => Line(n)[j] \notin earlier[Line(n)[i]]

\* Every caller is answered, without its deadline, if locks of other processes and
\* row locks do not get in the way for ever: a namespace whose lock was busy comes
\* back, and a batch that loses a caller is not lost with it (delayed, ready).
EveryChangeAnswered ==
  \A r \in Requests : []<>(call[r] \notin {"queued", "active"})
=============================================================================
