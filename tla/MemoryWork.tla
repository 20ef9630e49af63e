----------------------------- MODULE MemoryWork -----------------------------
(***************************************************************************)
(* server/src/persistence/memory-work.ts and agent/memory-maintenance.ts:  *)
(* facts about a user are extracted from the messages of the user's        *)
(* projects.  A message and the request to read it are written in one      *)
(* transaction; workers of all servers claim requests, ask a model, and    *)
(* write facts and cursor in one transaction.  In between the user writes, *)
(* edits and withdraws messages, and forgets or switches off the memory.   *)
(*                                                                         *)
(* One user.  A lease_id is the worker that holds it: a worker is done     *)
(* with a claim before it makes the next.                                  *)
(***************************************************************************)
EXTENDS Integers, FiniteSets

CONSTANTS
  Messages, MemoryProjects,
  ProjectOf,         \* the project of each message
  Readers,           \* the processes that run MemoryMaintenance
  BatchSize,         \* messages per extraction
  MemoryBudgets      \* bounds, one of which a behaviour keeps to: texts written,
                     \* other changes by the user, deaths and missed leases

NoReader == "nobody"

ASSUME MemoryAssumption ==
  /\ ProjectOf \in [Messages -> MemoryProjects]
  /\ BatchSize \in Nat \ {0}
  /\ MemoryBudgets \subseteq [texts : Nat, changes : Nat, misses : Nat]
  /\ NoReader \notin Readers

VARIABLES
  version,     \* per message, its text; 0 before it is written
  withdrawn,   \* the messages that left the context, and do not return
  \* learner_profiles
  enabled, revision,
  forgotten,   \* the messages created before memory_cutoff_at
  facts,       \* what was extracted: <<message, version>>
  \* memory_work, a row per project
  row,
  reader,      \* per process, the work in hand
  left,        \* of the budget
  readings     \* history: per message, the extractions of its present version

profile == <<enabled, revision, forgotten>>
memoryVars == <<version, withdrawn, profile, facts, row, reader, left, readings>>

Resting == [stage |-> "resting"]

MemoryInit ==
  /\ version = [m \in Messages |-> 0]
  /\ withdrawn = {} /\ enabled = TRUE /\ revision = 0 /\ forgotten = {} /\ facts = {}
  /\ row = [p \in MemoryProjects |->
       [requested |-> 0, completed |-> 0, processed |-> [m \in Messages |-> 0], lease |-> NoReader, term |-> "open"]]
  /\ reader = [w \in Readers |-> Resting]
  /\ left \in MemoryBudgets /\ readings = [m \in Messages |-> 0]

Spend(what) == left[what] > 0 /\ left' = [left EXCEPT ![what] = @ - 1]

Of(p) == {m \in Messages : ProjectOf[m] = p}

-----------------------------------------------------------------------------
(* The user.                                                               *)

\* saveProjectWithClient(): the request commits with the message.
Write(m) ==
  /\ Spend("texts") /\ m \notin withdrawn
  /\ version' = [version EXCEPT ![m] = @ + 1]
  /\ row' = [row EXCEPT ![ProjectOf[m]].requested = @ + 1]
  /\ forgotten' = forgotten \ {m}   \* an edited message is created anew
  /\ readings' = [readings EXCEPT ![m] = 0]
  /\ UNCHANGED <<withdrawn, enabled, revision, facts, reader>>

Withdraw(m) ==
  /\ version[m] > 0 /\ m \notin withdrawn
  /\ Spend("changes")
  /\ withdrawn' = withdrawn \cup {m}
  /\ UNCHANGED <<version, profile, facts, row, reader, readings>>

Written == {m \in Messages : version[m] > 0}

Changed ==
  /\ Spend("changes")
  /\ revision' = revision + 1
  /\ UNCHANGED <<version, withdrawn, row, reader, readings>>

\* DELETE /api/profile/inferred
Forget == Changed /\ facts' = {} /\ forgotten' = Written /\ UNCHANGED enabled

\* PUT /api/profile, which forgets the past if it switches the memory on or off.
Switch == Changed /\ enabled' = ~enabled /\ forgotten' = Written /\ UNCHANGED facts
Revise == Changed /\ UNCHANGED <<enabled, forgotten, facts>>

-----------------------------------------------------------------------------
(* The workers.                                                            *)

Eligible(m) == version[m] > 0 /\ m \notin withdrawn \cup forgotten

Put(w, r) == reader' = [reader EXCEPT ![w] = r]
Rests(w) == Put(w, Resting)
Texts(ms) == [m \in ms |-> version[m]]

\* What the user's requests change.
theirs == <<version, withdrawn, enabled, forgotten>>

\* Mutant: a lease that was not given back is not taken over.
ClaimableFree(p) == row[p].requested > row[p].completed /\ row[p].lease = NoReader

Claimable(p) == row[p].requested > row[p].completed /\ (row[p].lease = NoReader \/ row[p].term = "over")

\* claim()
Claim(w, p) ==
  /\ reader[w] = Resting /\ Claimable(p)
  /\ row' = [row EXCEPT ![p].lease = w, ![p].term = "open"]
  /\ Put(w, [stage |-> "claimed", p |-> p, requested |-> row[p].requested, processed |-> row[p].processed])
  /\ UNCHANGED <<theirs, revision, facts, left, readings>>

\* The beginning of run(): what is new since the cursor goes to the model, as much
\* as fits; if there is nothing, or the memory is off, the request is closed.
Load(w) ==
  LET r == reader[w]
      eligible == {m \in Of(r.p) : Eligible(m)}
      pending == {m \in eligible : r.processed[m] # version[m]}
      cursor == [m \in Messages |-> IF m \in eligible \ pending THEN version[m] ELSE 0]
  IN /\ r.stage = "claimed"
     /\ IF ~enabled \/ pending = {}
        THEN Put(w, [stage |-> "closing", p |-> r.p, requested |-> r.requested, cursor |-> cursor])
        ELSE \E batch \in SUBSET pending :
               /\ Cardinality(batch) = IF Cardinality(pending) < BatchSize THEN Cardinality(pending) ELSE BatchSize
               /\ Put(w, [stage |-> "reading", p |-> r.p, requested |-> r.requested,
                          processed |-> r.processed, cursor |-> cursor, texts |-> Texts(batch),
                          revision |-> revision, rest |-> IF batch = pending THEN "none" ELSE "some"])
     /\ UNCHANGED <<theirs, revision, facts, row, left, readings>>

\* owns(), and the guard of finish().
Owns(w, p) == row[p].lease = w /\ row[p].term = "open"

\* Mutant: the request that came in the meantime is closed as well.
CoveredNow(r) == row[r.p].requested

Covered(r) == r.requested

\* finish()
Finished(r, cursor, complete) ==
  LET completed == IF complete THEN Covered(r) ELSE row[r.p].completed IN
  row' = [row EXCEPT ![r.p] = [@ EXCEPT !.processed = cursor, !.completed = completed,
                                        !.lease = NoReader, !.term = "open"]]

\* fail(); a claim that was lost in the meantime is left alone.
Fail(w) ==
  /\ reader[w].stage \in {"closing", "reading"}
  /\ reader[w].stage = "closing" => ~Owns(w, reader[w].p)
  /\ row' = IF row[reader[w].p].lease = w THEN [row EXCEPT ![reader[w].p].lease = NoReader, ![reader[w].p].term = "open"] ELSE row
  /\ Rests(w)
  /\ UNCHANGED <<theirs, revision, facts, left, readings>>

Close(w) ==
  /\ reader[w].stage = "closing" /\ Owns(w, reader[w].p)
  /\ Finished(reader[w], reader[w].cursor, TRUE)
  /\ Rests(w)
  /\ UNCHANGED <<theirs, revision, facts, left, readings>>

Batch(r) == DOMAIN r.texts

\* Mutant: the texts are not compared again.
SameTextsAssumed(r) == TRUE

\* The sources are the same, and locked until the facts are written.
SameTexts(r) == \A m \in Batch(r) : m \notin withdrawn /\ version[m] = r.texts[m]

\* applyMemoryOutput(): profile, facts and cursor in one transaction.
Apply(w) ==
  LET r == reader[w] IN
  /\ r.stage = "reading" /\ Owns(w, r.p) /\ SameTexts(r)
  /\ enabled /\ revision = r.revision
  /\ facts' = facts \cup {<<m, r.texts[m]>> : m \in Batch(r)}
  /\ revision' = revision + 1
  /\ Finished(r, [m \in Messages |-> IF m \in Batch(r) THEN r.texts[m] ELSE r.cursor[m]], r.rest = "none")
  /\ readings' = [m \in Messages |-> IF m \in Batch(r) THEN readings[m] + 1 ELSE readings[m]]
  /\ Rests(w)
  /\ UNCHANGED <<theirs, left>>

\* The user has changed the profile: everything is read again.
Discard(w) ==
  LET r == reader[w] IN
  /\ r.stage = "reading" /\ Owns(w, r.p)
  /\ ~enabled \/ revision # r.revision
  /\ Finished(r, r.processed, FALSE)
  /\ Rests(w)
  /\ UNCHANGED <<theirs, revision, facts, left, readings>>

-----------------------------------------------------------------------------
(* Faults.                                                                 *)

Die(w) ==
  /\ reader[w] # Resting /\ Spend("misses")
  /\ Rests(w)
  /\ UNCHANGED <<theirs, revision, facts, row, readings>>

Busy(w, p) == w # NoReader /\ reader[w] # Resting /\ reader[w].p = p

\* 180 seconds are over, after a death or while the worker is still at it.
Lapse(p) ==
  /\ row[p].lease # NoReader /\ row[p].term = "open"
  /\ IF Busy(row[p].lease, p) THEN Spend("misses") ELSE UNCHANGED left
  /\ row' = [row EXCEPT ![p].term = "over"]
  /\ UNCHANGED <<theirs, revision, facts, reader, readings>>

-----------------------------------------------------------------------------
MemoryNext ==
  \/ \E m \in Messages : Write(m) \/ Withdraw(m)
  \/ Forget \/ Switch \/ Revise
  \/ \E w \in Readers : Load(w) \/ Fail(w) \/ Close(w) \/ Apply(w) \/ Discard(w) \/ Die(w)
  \/ \E w \in Readers, p \in MemoryProjects : Claim(w, p)
  \/ \E p \in MemoryProjects : Lapse(p)

\* Some worker comes to every request (ORDER BY available_at), leases of the dead
\* run out, and the model does not fail for one project for ever.
MemoryFairness ==
  /\ \A w \in Readers : WF_memoryVars(Load(w) \/ Fail(w) \/ Close(w) \/ Apply(w) \/ Discard(w))
  /\ \A p \in MemoryProjects :
       /\ SF_memoryVars(\E w \in Readers : Claim(w, p))
       /\ SF_memoryVars(\E w \in Readers : Busy(w, p) /\ Apply(w))
       /\ WF_memoryVars(~Busy(row[p].lease, p) /\ Lapse(p))

MemorySpec == MemoryInit /\ [][MemoryNext]_memoryVars /\ MemoryFairness

-----------------------------------------------------------------------------
(* Properties.                                                             *)

\* A project without an open request has been read completely, up to the present
\* text of every message that may be read: a message written while the model was
\* at work keeps the request open (requested, completed).
NothingOverlooked ==
  \A m \in Messages :
    enabled /\ Eligible(m) /\ row[ProjectOf[m]].requested = row[ProjectOf[m]].completed =>
      row[ProjectOf[m]].processed[m] = version[m]

\* Facts come from what the user says now: nothing is written that was taken from
\* a text since edited or withdrawn, from before the user forgot, or while the memory
\* is off, however long the model took.
FactsFromPresentTexts ==
  [][\A fact \in facts' \ facts :
       enabled /\ fact[2] = version[fact[1]] /\ fact[1] \notin withdrawn \cup forgotten]_memoryVars

\* No text is read into the facts twice, although leases run out and two workers may
\* be at the same project: cursor and facts are written together, by the one who
\* still holds the lease.
ReadOnce == \A m \in Messages : readings[m] <= 1

\* Nothing is overlooked and nothing is read twice.
ReadExactlyOnce == NothingOverlooked /\ ReadOnce

\* Every message is read in the end, unless it changes, is withdrawn or forgotten, or the
\* memory is switched off: through deaths, lapsed leases, rejected extractions and the
\* changes of other projects.
EveryMessageRead ==
  \A m \in Messages :
    []<>(~enabled \/ ~Eligible(m) \/ readings[m] > 0)
=============================================================================
