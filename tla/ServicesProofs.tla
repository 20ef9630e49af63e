--------------------------- MODULE ServicesProofs ---------------------------
(***************************************************************************)
(* Theorems about three services that share nothing but the database, each *)
(* in a part of its own:                                                   *)
(*   MemoryWork, for any number of messages, projects and readers, any     *)
(*     batch size and any bounds: type correctness, that nothing is        *)
(*     overlooked or read twice, and where facts come from;                *)
(*   ProviderBudget, for any number of calls, estimates, costs, attempts   *)
(*     and faults: type correctness, that the books tell the truth, and    *)
(*     that the calls admitted never exceed a limit;                       *)
(*   SnapshotRetention, for any number of versions, readers and mishaps,   *)
(*     of a repository that never returns to an older commit: type         *)
(*     correctness, what readers were promised stays readable, and         *)
(*     uploads are there when their row is saved.                          *)
(***************************************************************************)
EXTENDS MemoryWork, ProviderBudget, SnapshotRetention,
        FiniteSetTheorems, TLAPS

-----------------------------------------------------------------------------
(***************************************************************************)
(* MemoryWork.                                                             *)
(***************************************************************************)

Rows == [requested : Nat, completed : Nat, processed : [Messages -> Nat],
         lease : Readers \cup {NoReader}, term : {"open", "over"}]

Claims == [stage : {"claimed"}, p : MemoryProjects, requested : Nat,
           processed : [Messages -> Nat]]
Closings == [stage : {"closing"}, p : MemoryProjects, requested : Nat,
             cursor : [Messages -> Nat]]
Readings == [stage : {"reading"}, p : MemoryProjects, requested : Nat,
             processed : [Messages -> Nat], cursor : [Messages -> Nat],
             texts : UNION {[ms -> Nat] : ms \in SUBSET Messages}, revision : Nat,
             rest : {"none", "some"}]

UserTypeOK ==
  /\ version \in [Messages -> Nat] /\ withdrawn \subseteq Messages
  /\ enabled \in BOOLEAN /\ revision \in Nat /\ forgotten \subseteq Messages
  /\ readings \in [Messages -> Nat] /\ left \in [texts : Nat, changes : Nat, misses : Nat]

\* Every variable keeps its type.
MemoryTypeOK ==
  /\ UserTypeOK
  /\ facts \subseteq Messages \X Nat
  /\ row \in [MemoryProjects -> Rows]
  /\ reader \in [Readers -> {Resting} \cup Claims \cup Closings \cup Readings]

-----------------------------------------------------------------------------
(* The inductive invariant.                                                *)

\* No more requests are closed than were made.
RequestsCounted == \A p \in MemoryProjects : row[p].completed <= row[p].requested

\* The cursor in the database has passed every message that was read.
CursorPassed ==
  \A m \in Messages :
    Eligible(m) /\ readings[m] > 0 => row[ProjectOf[m]].processed[m] = version[m]

\* What a reader read belongs to its project, and has not been forgotten unless
\* the profile has changed since.
BatchKnown(w) ==
  LET r == reader[w] IN
  r.stage = "reading" =>
    /\ \A m \in Batch(r) : m \in Of(r.p) /\ r.texts[m] > 0
    /\ r.revision <= revision
    /\ r.revision = revision => \A m \in Batch(r) : m \notin forgotten

\* The rest holds as long as the reader has its lease: its request is open and ...
RequestOpen(w) ==
  LET r == reader[w] IN
  /\ r.requested <= row[r.p].requested /\ row[r.p].completed < r.requested
  /\ r.stage \in {"claimed", "reading"} => r.processed = row[r.p].processed

\* ... a cursor to be written loses no message that was read, and none at all if
\* nobody has asked since.
ClosingKeeps(w) ==
  LET r == reader[w] IN
  r.stage = "closing" =>
    \A m \in Of(r.p) : Eligible(m) =>
      /\ readings[m] > 0 => r.cursor[m] = version[m]
      /\ enabled /\ r.requested = row[r.p].requested => r.cursor[m] = version[m]

\* ... and what is being read was not read before.
ReadingKeeps(w) ==
  LET r == reader[w] IN
  r.stage = "reading" =>
    \A m \in Of(r.p) : Eligible(m) =>
      /\ m \notin Batch(r) /\ readings[m] > 0 => r.cursor[m] = version[m]
      /\ m \in Batch(r) /\ r.texts[m] = version[m] => readings[m] = 0
      /\ r.rest = "none" /\ r.requested = row[r.p].requested =>
           IF m \in Batch(r) THEN r.texts[m] = version[m] ELSE r.cursor[m] = version[m]

ReaderInv(w) ==
  reader[w] # Resting =>
    /\ BatchKnown(w)
    /\ Owns(w, reader[w].p) => RequestOpen(w) /\ ClosingKeeps(w) /\ ReadingKeeps(w)

MemoryInv ==
  /\ MemoryTypeOK /\ RequestsCounted /\ CursorPassed /\ ReadExactlyOnce
  /\ \A w \in Readers : ReaderInv(w)

-----------------------------------------------------------------------------
(* Types.                                                                  *)

\* A reader at work is in one of three stages, each with a record of its own.
LEMMA ReaderKinds ==
  ASSUME MemoryTypeOK, NEW w \in Readers
  PROVE  /\ reader[w].stage = "resting" <=> reader[w] = Resting
         /\ reader[w] # Resting => reader[w].p \in MemoryProjects /\ reader[w].requested \in Nat
         /\ reader[w].stage = "claimed" => reader[w] \in Claims
         /\ reader[w].stage = "closing" => reader[w] \in Closings
         /\ reader[w].stage = "reading" => reader[w] \in Readings
         /\ reader[w] # Resting => reader[w].stage \in {"claimed", "closing", "reading"}
<1>1. reader[w] \in {Resting} \cup Claims \cup Closings \cup Readings
  BY DEF MemoryTypeOK
<1>2. CASE reader[w] = Resting
  BY <1>2 DEF Resting
<1>3. CASE reader[w] \in Claims
  BY <1>3 DEF Resting, Claims
<1>4. CASE reader[w] \in Closings
  BY <1>4 DEF Resting, Closings
<1>5. CASE reader[w] \in Readings
  BY <1>5 DEF Resting, Readings
<1> QED BY <1>1, <1>2, <1>3, <1>4, <1>5

LEMMA TextsType ==
  ASSUME MemoryTypeOK, NEW w \in Readers, reader[w].stage = "reading"
  PROVE  /\ Batch(reader[w]) \subseteq Messages
         /\ \A m \in Batch(reader[w]) : reader[w].texts[m] \in Nat
         /\ reader[w].cursor \in [Messages -> Nat] /\ reader[w].processed \in [Messages -> Nat]
         /\ reader[w].revision \in Nat /\ reader[w].rest \in {"none", "some"}
<1>1. reader[w] \in Readings
  BY ReaderKinds
<1>2. reader[w].texts \in UNION {[ms -> Nat] : ms \in SUBSET Messages}
  BY <1>1 DEF Readings
<1>3. PICK ms \in SUBSET Messages : reader[w].texts \in [ms -> Nat]
  BY <1>2
<1> QED BY <1>1, <1>3 DEF Readings, Batch

LEMMA MemoryInitially == MemoryInit => MemoryInv
<1> SUFFICES ASSUME MemoryInit PROVE MemoryInv
  OBVIOUS
<1>1. left \in [texts : Nat, changes : Nat, misses : Nat]
  BY MemoryAssumption DEF MemoryInit
<1>2. \A p \in MemoryProjects :
        row[p] = [requested |-> 0, completed |-> 0, processed |-> [m \in Messages |-> 0],
                  lease |-> NoReader, term |-> "open"]
  BY DEF MemoryInit
<1>3. row \in [MemoryProjects -> Rows]
  BY DEF MemoryInit, Rows
<1>4. MemoryTypeOK
  BY <1>1, <1>3 DEF MemoryInit, MemoryTypeOK, UserTypeOK
<1>5. \A m \in Messages : ~Eligible(m) /\ readings[m] = 0
  BY DEF MemoryInit, Eligible
<1>6. RequestsCounted
  BY <1>2 DEF RequestsCounted
<1>7. CursorPassed /\ ReadExactlyOnce
  BY <1>5 DEF CursorPassed, ReadExactlyOnce, NothingOverlooked, ReadOnce
<1>8. \A w \in Readers : ReaderInv(w)
  BY DEF MemoryInit, ReaderInv
<1> QED BY <1>4, <1>6, <1>7, <1>8 DEF MemoryInv

-----------------------------------------------------------------------------
(* A step of somebody else.                                                *)

\* A reader is not disturbed by a step that leaves the user's texts alone and, if the
\* reader still has its lease, the row and the messages of its project.
LEMMA Undisturbed ==
  ASSUME MemoryTypeOK, NEW w \in Readers, ReaderInv(w), reader'[w] = reader[w],
         UNCHANGED theirs, revision' \in Nat, revision <= revision',
         reader[w] # Resting =>
           /\ Owns(w, reader[w].p)' =>
                /\ Owns(w, reader[w].p)
                /\ row'[reader[w].p].requested = row[reader[w].p].requested
                /\ row'[reader[w].p].completed = row[reader[w].p].completed
                /\ row'[reader[w].p].processed = row[reader[w].p].processed
           /\ \A m \in Of(reader[w].p) : readings'[m] = readings[m]
  PROVE  ReaderInv(w)'
<1> SUFFICES ASSUME reader[w] # Resting PROVE ReaderInv(w)'
  BY DEF ReaderInv
<1>1. BatchKnown(w)'
  <2> SUFFICES ASSUME reader[w].stage = "reading" PROVE BatchKnown(w)'
    BY DEF BatchKnown
  <2>1. reader[w].revision \in Nat /\ revision \in Nat
    BY TextsType DEF MemoryTypeOK, UserTypeOK
  <2> QED BY <2>1 DEF ReaderInv, BatchKnown, theirs, Batch, Of
<1>2. ASSUME Owns(w, reader[w].p)'
      PROVE  RequestOpen(w)' /\ ClosingKeeps(w)' /\ ReadingKeeps(w)'
  <2>1. RequestOpen(w) /\ ClosingKeeps(w) /\ ReadingKeeps(w)
    BY <1>2 DEF ReaderInv
  <2>2. RequestOpen(w)'
    BY <1>2, <2>1 DEF RequestOpen
  <2>3. \A m : Eligible(m)' <=> Eligible(m)
    BY DEF Eligible, theirs
  <2>4. \A m \in Of(reader[w].p) : readings'[m] = readings[m] /\ version'[m] = version[m]
    BY DEF theirs
  <2>5. ClosingKeeps(w)'
    BY <1>2, <2>1, <2>3, <2>4 DEF ClosingKeeps, theirs, Of
  <2>6. ReadingKeeps(w)'
    BY <1>2, <2>1, <2>3, <2>4 DEF ReadingKeeps, theirs, Batch, Of
  <2> QED BY <2>2, <2>5, <2>6
<1>3. reader'[w].p = reader[w].p
  OBVIOUS
<1> QED BY <1>1, <1>2, <1>3 DEF ReaderInv, Owns

\* Nothing is claimed of messages and rows that the step leaves alone.
LEMMA RowsKept ==
  ASSUME MemoryInv, UNCHANGED <<theirs, readings>>,
         \A p \in MemoryProjects :
           /\ row'[p].requested = row[p].requested /\ row'[p].completed = row[p].completed
           /\ row'[p].processed = row[p].processed
  PROVE  RequestsCounted' /\ CursorPassed' /\ ReadExactlyOnce'
<1>1. \A m : Eligible(m)' <=> Eligible(m)
  BY DEF Eligible, theirs
<1>2. \A m \in Messages : ProjectOf[m] \in MemoryProjects
  BY MemoryAssumption
<1>3. RequestsCounted'
  BY DEF MemoryInv, RequestsCounted
<1>4. CursorPassed'
  BY <1>1, <1>2 DEF MemoryInv, CursorPassed, theirs
<1>5. NothingOverlooked'
  BY <1>1, <1>2 DEF MemoryInv, ReadExactlyOnce, NothingOverlooked, theirs
<1>6. ReadOnce'
  BY DEF MemoryInv, ReadExactlyOnce, ReadOnce
<1> QED BY <1>3, <1>4, <1>5, <1>6 DEF ReadExactlyOnce

-----------------------------------------------------------------------------
(* The workers.                                                            *)

LEMMA PutReader ==
  ASSUME MemoryTypeOK, NEW w \in Readers, NEW r, Put(w, r)
  PROVE  reader'[w] = r /\ \A v \in Readers : v # w => reader'[v] = reader[v]
BY DEF Put, MemoryTypeOK

\* The record of a row that is claimed.
LEMMA ClaimedRow ==
  ASSUME NEW x \in Rows, NEW w \in Readers, NEW y, y = [x EXCEPT !.lease = w, !.term = "open"]
  PROVE  /\ y.lease = w /\ y.term = "open" /\ y.requested = x.requested
         /\ y.completed = x.completed /\ y.processed = x.processed /\ y \in Rows
BY DEF Rows

LEMMA ClaimStep ==
  ASSUME MemoryInv, NEW w \in Readers, NEW p \in MemoryProjects, Claim(w, p)
  PROVE  MemoryInv'
<1> DEFINE r == [stage |-> "claimed", p |-> p, requested |-> row[p].requested,
                 processed |-> row[p].processed]
<1>1. /\ MemoryTypeOK /\ row[p] \in Rows
      /\ row' = [row EXCEPT ![p].lease = w, ![p].term = "open"]
      /\ UNCHANGED <<theirs, revision, facts, left, readings>>
  BY DEF Claim, MemoryInv, MemoryTypeOK
<1>2. /\ row'[p] = [row[p] EXCEPT !.lease = w, !.term = "open"]
      /\ \A q \in MemoryProjects : q # p => row'[q] = row[q]
  BY <1>1 DEF MemoryTypeOK
<1>3. /\ row'[p].lease = w /\ row'[p].term = "open" /\ row'[p].requested = row[p].requested
      /\ row'[p].completed = row[p].completed /\ row'[p].processed = row[p].processed
      /\ row'[p] \in Rows
  BY <1>1, <1>2, ClaimedRow
<1>4. Put(w, r)
  BY DEF Claim
<1>5. reader'[w] = r /\ \A v \in Readers : v # w => reader'[v] = reader[v]
  BY <1>1, <1>4, PutReader
<1>6. r \in Claims
  BY <1>1 DEF Rows, Claims
<1>7. MemoryTypeOK'
  <2>1. row' \in [MemoryProjects -> Rows]
    BY <1>1, <1>3 DEF MemoryTypeOK, Rows
  <2>2. reader' \in [Readers -> {Resting} \cup Claims \cup Closings \cup Readings]
    BY <1>1, <1>4, <1>6 DEF Put, MemoryTypeOK
  <2> QED BY <1>1, <2>1, <2>2 DEF MemoryTypeOK, UserTypeOK, theirs
<1>8. RequestsCounted' /\ CursorPassed' /\ ReadExactlyOnce'
  BY <1>1, <1>2, <1>3, RowsKept
<1>9. ASSUME NEW v \in Readers PROVE ReaderInv(v)'
  <2>1. CASE v = w
    <3>1. r.stage = "claimed" /\ r.p = p /\ r.requested = row[p].requested
          /\ r.processed = row[p].processed
      OBVIOUS
    <3>2. Claimable(p)
      BY DEF Claim
    <3>3. row[p].completed < row[p].requested /\ row[p].requested <= row[p].requested
      BY <1>1, <3>2 DEF Claimable, Rows
    <3>4. RequestOpen(w)'
      BY <1>3, <1>5, <3>1, <3>3 DEF RequestOpen
    <3> QED BY <2>1, <1>5, <3>1, <3>4 DEF ReaderInv, BatchKnown, ClosingKeeps, ReadingKeeps
  <2>2. CASE v # w
    <3>1. reader'[v] = reader[v] /\ (reader[v] # Resting => reader[v].p \in MemoryProjects)
      BY <2>2, <1>1, <1>5, ReaderKinds
    <3>2. ASSUME reader[v] # Resting, Owns(v, reader[v].p)'
          PROVE  reader[v].p # p /\ Owns(v, reader[v].p)
      <4>1. row'[reader[v].p].lease = v /\ row'[reader[v].p].term = "open"
        BY <3>1, <3>2 DEF Owns
      <4>2. reader[v].p # p
        BY <2>2, <1>3, <4>1
      <4> QED BY <1>2, <3>1, <3>2, <4>1, <4>2 DEF Owns
    <3>3. revision' = revision /\ revision \in Nat
      BY <1>1 DEF MemoryTypeOK, UserTypeOK
    <3>4. ReaderInv(v) /\ revision <= revision' /\ revision' \in Nat
      BY <3>3 DEF MemoryInv
    <3>5. reader[v] # Resting /\ Owns(v, reader[v].p)' => row'[reader[v].p] = row[reader[v].p]
      BY <1>2, <3>1, <3>2
    <3>6. \A m : readings'[m] = readings[m]
      BY <1>1
    <3> QED BY <1>1, <3>1, <3>2, <3>4, <3>5, <3>6, Undisturbed
  <2> QED BY <2>1, <2>2
<1> QED BY <1>7, <1>8, <1>9 DEF MemoryInv

\* What a worker finds when it loads: messages to be read, and a cursor.
LEMMA LoadStep ==
  ASSUME MemoryInv, NEW w \in Readers, Load(w)
  PROVE  MemoryInv'
<1> DEFINE r == reader[w]
           eligible == {m \in Of(r.p) : Eligible(m)}
           pending == {m \in eligible : r.processed[m] # version[m]}
           cursor == [m \in Messages |-> IF m \in eligible \ pending THEN version[m] ELSE 0]
           closing == [stage |-> "closing", p |-> r.p, requested |-> r.requested, cursor |-> cursor]
           reading(batch) ==
             [stage |-> "reading", p |-> r.p, requested |-> r.requested,
              processed |-> r.processed, cursor |-> cursor, texts |-> Texts(batch),
              revision |-> revision, rest |-> IF batch = pending THEN "none" ELSE "some"]
<1>1. /\ MemoryTypeOK /\ r \in Claims /\ r # Resting /\ r.stage = "claimed"
      /\ UNCHANGED <<theirs, revision, facts, row, left, readings>>
  BY ReaderKinds DEF Load, MemoryInv, Claims, Resting
<1>2. /\ r.p \in MemoryProjects /\ r.requested \in Nat /\ r.processed \in [Messages -> Nat]
      /\ cursor \in [Messages -> Nat] /\ pending \subseteq Messages /\ revision \in Nat
  BY <1>1 DEF Claims, MemoryTypeOK, UserTypeOK, Of
<1>3. \/ (~enabled \/ pending = {}) /\ Put(w, closing)
      \/ \E batch \in SUBSET pending : Put(w, reading(batch))
  BY DEF Load
<1>4. RequestsCounted' /\ CursorPassed' /\ ReadExactlyOnce'
  BY <1>1, RowsKept
<1>5. \A v \in Readers : v # w => reader'[v] = reader[v]
  BY <1>1, <1>3, PutReader
<1>6. \A v \in Readers : v # w => ReaderInv(v)'
  BY <1>1, <1>2, <1>5, Undisturbed DEF MemoryInv, Owns
<1>7. Owns(w, r.p) => RequestOpen(w)
  BY <1>1 DEF MemoryInv, ReaderInv
\* What was read is behind the cursor.
<1>8. ASSUME Owns(w, r.p), NEW m \in Of(r.p), Eligible(m)
      PROVE  /\ m \in Messages /\ (readings[m] > 0 => m \notin pending)
             /\ (m \notin pending => cursor[m] = version[m])
             /\ readings[m] \in Nat
  <2>1. m \in Messages /\ ProjectOf[m] = r.p
    BY <1>8 DEF Of
  <2>2. readings[m] > 0 => row[r.p].processed[m] = version[m]
    BY <1>8, <2>1 DEF MemoryInv, CursorPassed
  <2>3. r.processed = row[r.p].processed
    BY <1>1, <1>7, <1>8 DEF RequestOpen
  <2> QED BY <1>1, <1>8, <2>1, <2>2, <2>3 DEF MemoryTypeOK, UserTypeOK
<1>9. CASE (~enabled \/ pending = {}) /\ Put(w, closing)
  <2>1. reader'[w] = closing /\ closing \in Closings
    BY <1>1, <1>2, <1>9, PutReader DEF Closings
  <2>2. MemoryTypeOK'
    BY <1>1, <1>9, <2>1 DEF Put, MemoryTypeOK, UserTypeOK, theirs
  <2>3. closing.stage = "closing" /\ closing.p = r.p /\ closing.requested = r.requested
        /\ closing.cursor = cursor
    OBVIOUS
  <2>4. ASSUME Owns(w, reader[w].p)' PROVE RequestOpen(w)' /\ ClosingKeeps(w)'
    <3>1. Owns(w, r.p)
      BY <1>1, <2>1, <2>3, <2>4 DEF Owns
    <3>2. RequestOpen(w)'
      BY <1>1, <1>7, <2>1, <2>3, <3>1 DEF RequestOpen
    <3>3. \A m \in Of(r.p) : Eligible(m)' <=> Eligible(m)
      BY <1>1 DEF Eligible, theirs
    <3>4. ClosingKeeps(w)'
      BY <1>1, <1>8, <1>9, <2>1, <2>3, <3>1, <3>3 DEF ClosingKeeps, theirs, Of
    <3> QED BY <3>2, <3>4
  <2>5. ReaderInv(w)'
    BY <2>1, <2>3, <2>4 DEF ReaderInv, BatchKnown, ReadingKeeps
  <2> QED BY <1>4, <1>6, <2>2, <2>5 DEF MemoryInv
<1>10. ASSUME NEW batch \in SUBSET pending, Put(w, reading(batch)) PROVE MemoryInv'
  <2> DEFINE n == reading(batch)
  <2>1. /\ n.stage = "reading" /\ n.p = r.p /\ n.requested = r.requested
        /\ n.processed = r.processed /\ n.cursor = cursor /\ n.texts = Texts(batch)
        /\ n.revision = revision /\ n.rest = IF batch = pending THEN "none" ELSE "some"
    OBVIOUS
  <2>2. Texts(batch) \in [batch -> Nat] /\ Batch(n) = batch
        /\ \A m \in batch : n.texts[m] = version[m]
    BY <1>1, <1>2, <2>1 DEF Texts, Batch, MemoryTypeOK, UserTypeOK
  <2>3. Texts(batch) \in UNION {[ms -> Nat] : ms \in SUBSET Messages}
    BY <1>2, <2>2
  <2>4. n \in Readings
    BY <1>2, <2>3 DEF Readings
  <2>5. reader'[w] = n
    BY <1>1, <1>10, PutReader
  <2>6. MemoryTypeOK'
    BY <1>1, <1>10, <2>4 DEF Put, MemoryTypeOK, UserTypeOK, theirs
  <2>7. BatchKnown(w)'
    <3>1. \A m \in batch : m \in Of(r.p) /\ Eligible(m) /\ version[m] > 0 /\ m \notin forgotten
      BY DEF Eligible
    <3> QED BY <1>1, <1>2, <2>1, <2>2, <2>5, <3>1 DEF BatchKnown, Of, Batch, theirs
  <2>8. ASSUME Owns(w, reader[w].p)' PROVE RequestOpen(w)' /\ ReadingKeeps(w)'
    <3>1. Owns(w, r.p)
      BY <1>1, <2>1, <2>5, <2>8 DEF Owns
    <3>2. RequestOpen(w)'
      BY <1>1, <1>7, <2>1, <2>5, <3>1 DEF RequestOpen
    <3>3. \A m \in Of(r.p) : Eligible(m)' <=> Eligible(m)
      BY <1>1 DEF Eligible, theirs
    <3>4. ASSUME NEW m \in Of(r.p), Eligible(m)
          PROVE  /\ m \notin batch /\ readings[m] > 0 => cursor[m] = version[m]
                 /\ m \in batch => readings[m] = 0 /\ n.texts[m] = version[m]
                 /\ n.rest = "none" /\ m \notin batch => cursor[m] = version[m]
      <4>1. n.rest = "none" => batch = pending
        BY <2>1
      <4> QED BY <1>8, <2>2, <3>1, <3>4, <4>1
    <3>5. ReadingKeeps(w)'
      BY <1>1, <2>1, <2>2, <2>5, <3>3, <3>4 DEF ReadingKeeps, Of, Batch, theirs
    <3> QED BY <3>2, <3>5
  <2>9. ReaderInv(w)'
    BY <2>1, <2>5, <2>7, <2>8 DEF ReaderInv, ClosingKeeps
  <2> QED BY <1>4, <1>6, <2>6, <2>9 DEF MemoryInv
<1> QED BY <1>3, <1>9, <1>10

\* A worker that rests, and rows in which leases only end, disturb nobody.
LEMMA LeasesEnd ==
  ASSUME MemoryInv, UNCHANGED <<theirs, revision, facts, readings>>, UserTypeOK',
         row' \in [MemoryProjects -> Rows],
         \A p \in MemoryProjects :
           /\ row'[p].requested = row[p].requested /\ row'[p].completed = row[p].completed
           /\ row'[p].processed = row[p].processed
           /\ \A v \in Readers : Owns(v, p)' => Owns(v, p),
         UNCHANGED reader \/ \E w \in Readers : Rests(w)
  PROVE  MemoryInv'
<1>1. MemoryTypeOK
  BY DEF MemoryInv
<1>2. reader' \in [Readers -> {Resting} \cup Claims \cup Closings \cup Readings]
  BY <1>1 DEF MemoryTypeOK, Rests, Put
<1>3. MemoryTypeOK'
  BY <1>1, <1>2 DEF MemoryTypeOK
<1>4. RequestsCounted' /\ CursorPassed' /\ ReadExactlyOnce'
  BY RowsKept
<1>5. ASSUME NEW v \in Readers PROVE ReaderInv(v)'
  <2>1. reader'[v] = Resting \/ reader'[v] = reader[v]
    BY <1>1 DEF Rests, Put, MemoryTypeOK
  <2>2. CASE reader'[v] = Resting
    BY <2>2 DEF ReaderInv
  <2>3. CASE reader'[v] = reader[v]
    <3>1. reader[v] # Resting => reader[v].p \in MemoryProjects
      BY <1>1, ReaderKinds
    <3>2. ReaderInv(v) /\ revision <= revision' /\ revision' \in Nat
      BY DEF MemoryInv, MemoryTypeOK, UserTypeOK
    <3>3. reader[v] # Resting /\ Owns(v, reader[v].p)' => Owns(v, reader[v].p)
      BY <2>3, <3>1 DEF Owns
    <3> QED BY <1>1, <2>3, <3>1, <3>2, <3>3, Undisturbed
  <2> QED BY <2>1, <2>2, <2>3
<1> QED BY <1>3, <1>4, <1>5 DEF MemoryInv

LEMMA DieStep ==
  ASSUME MemoryInv, NEW w \in Readers, Die(w) PROVE MemoryInv'
<1>1. /\ UNCHANGED <<theirs, revision, facts, row, readings>> /\ Rests(w)
      /\ left["misses"] > 0 /\ left' = [left EXCEPT !["misses"] = @ - 1]
  BY DEF Die, Spend
<1>2. left' \in [texts : Nat, changes : Nat, misses : Nat]
  BY <1>1 DEF MemoryInv, MemoryTypeOK, UserTypeOK
<1>3. UserTypeOK'
  BY <1>1, <1>2 DEF MemoryInv, MemoryTypeOK, UserTypeOK, theirs
<1>4. row' \in [MemoryProjects -> Rows]
  BY <1>1 DEF MemoryInv, MemoryTypeOK
<1> QED BY <1>1, <1>3, <1>4, LeasesEnd DEF Owns

\* The record of a row whose lease is over, or was given back.
LEMMA EndedRow ==
  ASSUME NEW x \in Rows, NEW y,
         y = [x EXCEPT !.term = "over"] \/ y = [x EXCEPT !.lease = NoReader, !.term = "open"]
  PROVE  /\ y.requested = x.requested /\ y.completed = x.completed
         /\ y.processed = x.processed /\ y \in Rows
         /\ y.term = "over" \/ y.lease = NoReader
BY DEF Rows

LEMMA LapseStep ==
  ASSUME MemoryInv, NEW p \in MemoryProjects, Lapse(p) PROVE MemoryInv'
<1>1. /\ UNCHANGED <<theirs, revision, facts, reader, readings>>
      /\ row' = [row EXCEPT ![p].term = "over"]
      /\ UNCHANGED left \/ (left["misses"] > 0 /\ left' = [left EXCEPT !["misses"] = @ - 1])
  BY DEF Lapse, Spend
<1>2. UserTypeOK'
  <2>1. left' \in [texts : Nat, changes : Nat, misses : Nat]
    BY <1>1 DEF MemoryInv, MemoryTypeOK, UserTypeOK
  <2> QED BY <1>1, <2>1 DEF MemoryInv, MemoryTypeOK, UserTypeOK, theirs
<1>3. /\ row'[p] = [row[p] EXCEPT !.term = "over"] /\ row[p] \in Rows
      /\ \A q \in MemoryProjects : q # p => row'[q] = row[q]
      /\ row' = [row EXCEPT ![p] = row'[p]]
  BY <1>1 DEF MemoryInv, MemoryTypeOK
<1>4. /\ row'[p].requested = row[p].requested /\ row'[p].completed = row[p].completed
      /\ row'[p].processed = row[p].processed /\ row'[p] \in Rows
      /\ row'[p].term = "over" \/ row'[p].lease = NoReader
  BY <1>3, EndedRow
<1>5. row' \in [MemoryProjects -> Rows]
  BY <1>3, <1>4 DEF MemoryInv, MemoryTypeOK
<1>6. \A q \in MemoryProjects, v \in Readers : Owns(v, q)' => Owns(v, q)
  <2> SUFFICES ASSUME NEW q \in MemoryProjects, NEW v \in Readers, Owns(v, q)'
               PROVE  Owns(v, q)
    OBVIOUS
  <2>1. row'[q].lease = v /\ row'[q].term = "open" /\ v # NoReader
    BY MemoryAssumption DEF Owns
  <2>2. row'[q] = row[q]
    BY <1>3, <1>4, <2>1
  <2> QED BY <2>1, <2>2 DEF Owns
<1>7. \A q \in MemoryProjects :
        /\ row'[q].requested = row[q].requested /\ row'[q].completed = row[q].completed
        /\ row'[q].processed = row[q].processed
  BY <1>3, <1>4
<1> QED BY <1>1, <1>2, <1>5, <1>6, <1>7, LeasesEnd

LEMMA FailStep ==
  ASSUME MemoryInv, NEW w \in Readers, Fail(w) PROVE MemoryInv'
<1> DEFINE p == reader[w].p
<1>1. /\ UNCHANGED <<theirs, revision, facts, left, readings>> /\ Rests(w)
      /\ row' = row \/ row' = [row EXCEPT ![p].lease = NoReader, ![p].term = "open"]
  BY DEF Fail
<1>2. UserTypeOK'
  BY <1>1 DEF MemoryInv, MemoryTypeOK, UserTypeOK, theirs
<1>3. CASE row' = row
  BY <1>1, <1>2, <1>3, LeasesEnd DEF Owns, MemoryInv, MemoryTypeOK
<1>4. CASE row' = [row EXCEPT ![p].lease = NoReader, ![p].term = "open"]
  <2>0. p \in MemoryProjects
    BY ReaderKinds DEF Fail, MemoryInv, Resting
  <2>1. /\ row'[p] = [row[p] EXCEPT !.lease = NoReader, !.term = "open"] /\ row[p] \in Rows
        /\ \A q \in MemoryProjects : q # p => row'[q] = row[q]
        /\ row' = [row EXCEPT ![p] = row'[p]]
    BY <1>4, <2>0 DEF MemoryInv, MemoryTypeOK
  <2>2. /\ row'[p].requested = row[p].requested /\ row'[p].completed = row[p].completed
        /\ row'[p].processed = row[p].processed /\ row'[p] \in Rows
        /\ row'[p].term = "over" \/ row'[p].lease = NoReader
    BY <2>1, EndedRow
  <2>3. row' \in [MemoryProjects -> Rows]
    BY <2>1, <2>2 DEF MemoryInv, MemoryTypeOK
  <2>4. \A q \in MemoryProjects, v \in Readers : Owns(v, q)' => Owns(v, q)
    <3> SUFFICES ASSUME NEW q \in MemoryProjects, NEW v \in Readers, Owns(v, q)'
                 PROVE  Owns(v, q)
      OBVIOUS
    <3>1. row'[q].lease = v /\ row'[q].term = "open" /\ v # NoReader
      BY MemoryAssumption DEF Owns
    <3>2. row'[q] = row[q]
      BY <2>1, <2>2, <3>1
    <3> QED BY <3>1, <3>2 DEF Owns
  <2>5. \A q \in MemoryProjects :
          /\ row'[q].requested = row[q].requested /\ row'[q].completed = row[q].completed
          /\ row'[q].processed = row[q].processed
    BY <2>1, <2>2
  <2> QED BY <1>1, <1>2, <2>3, <2>4, <2>5, LeasesEnd
<1> QED BY <1>1, <1>3, <1>4

\* finish(): what the row becomes.
LEMMA FinishedRow ==
  ASSUME MemoryTypeOK, NEW r, r.p \in MemoryProjects, r.requested \in Nat,
         NEW cursor \in [Messages -> Nat], NEW complete \in BOOLEAN, Finished(r, cursor, complete)
  PROVE  /\ row' \in [MemoryProjects -> Rows]
         /\ \A q \in MemoryProjects : q # r.p => row'[q] = row[q]
         /\ row'[r.p].requested = row[r.p].requested /\ row'[r.p].processed = cursor
         /\ row'[r.p].lease = NoReader
         /\ complete => row'[r.p].completed = r.requested
         /\ ~complete => row'[r.p].completed = row[r.p].completed
<1> DEFINE p == r.p
<1>1. /\ row[p] \in Rows /\ row \in [MemoryProjects -> Rows]
      /\ \A q \in MemoryProjects : q # p => row'[q] = row[q]
  BY DEF MemoryTypeOK, Finished
<1> DEFINE done == IF complete THEN r.requested ELSE row[p].completed
<1>2. done \in Nat
  BY <1>1 DEF Rows
<1>3. row'[p] = [row[p] EXCEPT !.processed = cursor, !.completed = done,
                               !.lease = NoReader, !.term = "open"]
  <2>1. CASE complete
    BY <1>1, <2>1 DEF Finished, Covered
  <2>2. CASE ~complete
    BY <1>1, <2>2 DEF Finished, Covered
  <2> QED BY <2>1, <2>2
<1>4. /\ row'[p].requested = row[p].requested /\ row'[p].processed = cursor
      /\ row'[p].lease = NoReader /\ row'[p].completed = done /\ row'[p] \in Rows
  BY <1>1, <1>2, <1>3 DEF Rows
<1>5. row' \in [MemoryProjects -> Rows]
  <2>1. row' = [row EXCEPT ![p] = row'[p]]
    BY <1>1, <1>3 DEF Finished
  <2> QED BY <1>1, <1>4, <2>1
<1> QED BY <1>1, <1>4, <1>5

\* finish() by the worker that holds the lease: what matters is the cursor, and the
\* number of requests that count as done.
LEMMA FinishStep ==
  ASSUME MemoryInv, NEW w \in Readers, NEW p \in MemoryProjects,
         reader[w] # Resting, reader[w].p = p, Owns(w, p),
         row' \in [MemoryProjects -> Rows],
         \A q \in MemoryProjects : q # p => row'[q] = row[q],
         row'[p].requested = row[p].requested, row'[p].completed <= row[p].requested,
         row'[p].lease = NoReader,
         Rests(w), UNCHANGED <<theirs, left>>,
         facts' \subseteq Messages \X Nat, revision' \in Nat, revision <= revision',
         readings' \in [Messages -> Nat],
         \A m \in Messages \ Of(p) : readings'[m] = readings[m],
         \A m \in Of(p) :
           /\ readings'[m] <= 1
           /\ Eligible(m) /\ readings'[m] > 0 => row'[p].processed[m] = version[m]
           /\ enabled /\ Eligible(m) /\ row[p].requested = row'[p].completed =>
                row'[p].processed[m] = version[m]
  PROVE  MemoryInv'
<1>1. MemoryTypeOK
  BY DEF MemoryInv
<1>4. MemoryTypeOK'
  <2>1. reader' \in [Readers -> {Resting} \cup Claims \cup Closings \cup Readings]
    BY <1>1 DEF MemoryTypeOK, Rests, Put
  <2> QED BY <1>1, <2>1 DEF MemoryTypeOK, UserTypeOK, theirs
<1>5. \A m : Eligible(m)' <=> Eligible(m)
  BY DEF Eligible, theirs
<1>6. RequestsCounted'
  BY DEF MemoryInv, RequestsCounted
<1>7. ASSUME NEW m \in Messages
      PROVE  /\ readings'[m] <= 1
             /\ Eligible(m)' /\ readings'[m] > 0 => row'[ProjectOf[m]].processed[m] = version'[m]
             /\ enabled' /\ Eligible(m)' /\ row'[ProjectOf[m]].requested = row'[ProjectOf[m]].completed =>
                  row'[ProjectOf[m]].processed[m] = version'[m]
  <2>1. ProjectOf[m] \in MemoryProjects
    BY MemoryAssumption
  <2>2. CASE ProjectOf[m] = p
    <3>1. m \in Of(p)
      BY <2>2 DEF Of
    <3> QED BY <1>5, <2>2, <3>1 DEF theirs
  <2>3. CASE ProjectOf[m] # p
    <3>1. readings'[m] = readings[m]
      BY <2>3 DEF Of
    <3>2. row'[ProjectOf[m]] = row[ProjectOf[m]]
      BY <2>1, <2>3
    <3> QED BY <1>5, <3>1, <3>2 DEF theirs, MemoryInv, CursorPassed, ReadExactlyOnce,
                                    NothingOverlooked, ReadOnce
  <2> QED BY <2>2, <2>3
<1>8. CursorPassed' /\ ReadExactlyOnce'
  BY <1>7 DEF CursorPassed, ReadExactlyOnce, NothingOverlooked, ReadOnce
<1>9. ASSUME NEW v \in Readers PROVE ReaderInv(v)'
  <2>1. reader'[w] = Resting /\ (v # w => reader'[v] = reader[v])
    BY <1>1, PutReader DEF Rests
  <2>2. CASE v = w
    BY <2>1, <2>2 DEF ReaderInv
  <2>3. CASE v # w
    <3>1. reader'[v] = reader[v] /\ (reader[v] # Resting => reader[v].p \in MemoryProjects)
      BY <2>1, <2>3, <1>1, ReaderKinds
    <3>2. reader[v] # Resting /\ Owns(v, reader[v].p)' =>
            reader[v].p # p /\ row'[reader[v].p] = row[reader[v].p] /\ Owns(v, reader[v].p)
      BY <3>1, MemoryAssumption DEF Owns
    <3>3. CASE reader[v] # Resting /\ reader[v].p = p
      <4>1. ~Owns(v, p)'
        BY MemoryAssumption DEF Owns
      <4>2. BatchKnown(v)
        BY <3>3 DEF MemoryInv, ReaderInv
      <4>3. BatchKnown(v)'
        <5> SUFFICES ASSUME reader[v].stage = "reading" PROVE BatchKnown(v)'
          BY <3>1 DEF BatchKnown
        <5>1. reader[v].revision \in Nat /\ revision \in Nat
          BY <1>1, TextsType DEF MemoryTypeOK, UserTypeOK
        <5> QED BY <3>1, <4>2, <5>1 DEF BatchKnown, theirs, Batch, Of
      <4> QED BY <3>1, <3>3, <4>1, <4>3 DEF ReaderInv, Owns
    <3>4. CASE reader[v] # Resting /\ reader[v].p # p
      <4>1. \A m \in Of(reader[v].p) : readings'[m] = readings[m]
        BY <3>4 DEF Of
      <4>2. ReaderInv(v)
        BY DEF MemoryInv
      <4> QED BY <1>1, <3>1, <3>2, <4>1, <4>2, Undisturbed
    <3>5. CASE reader[v] = Resting
      BY <3>1, <3>5 DEF ReaderInv
    <3> QED BY <3>3, <3>4, <3>5
  <2> QED BY <2>2, <2>3
<1> QED BY <1>4, <1>6, <1>8, <1>9 DEF MemoryInv

LEMMA CloseStep ==
  ASSUME MemoryInv, NEW w \in Readers, Close(w) PROVE MemoryInv'
<1> DEFINE r == reader[w]
<1>1. /\ MemoryTypeOK /\ r \in Closings /\ r # Resting /\ r.stage = "closing" /\ Owns(w, r.p)
      /\ Finished(r, r.cursor, TRUE) /\ Rests(w)
      /\ UNCHANGED <<theirs, revision, facts, left, readings>>
  BY ReaderKinds DEF Close, MemoryInv, Closings, Resting
<1>2. /\ r.p \in MemoryProjects /\ r.requested \in Nat /\ r.cursor \in [Messages -> Nat]
  BY <1>1 DEF Closings
<1>3. /\ row' \in [MemoryProjects -> Rows] /\ \A q \in MemoryProjects : q # r.p => row'[q] = row[q]
      /\ row'[r.p].requested = row[r.p].requested /\ row'[r.p].processed = r.cursor
      /\ row'[r.p].lease = NoReader /\ row'[r.p].completed = r.requested
  BY <1>1, <1>2, FinishedRow
<1>4. RequestOpen(w) /\ ClosingKeeps(w)
  BY <1>1 DEF MemoryInv, ReaderInv
<1>5. \A m \in Of(r.p) :
        /\ readings'[m] <= 1
        /\ Eligible(m) /\ readings'[m] > 0 => r.cursor[m] = version[m]
        /\ enabled /\ Eligible(m) /\ row[r.p].requested = r.requested => r.cursor[m] = version[m]
  BY <1>1, <1>4 DEF ClosingKeeps, MemoryInv, ReadExactlyOnce, ReadOnce, Of
<1>6. r.requested <= row[r.p].requested
  BY <1>4 DEF RequestOpen
<1>7. /\ facts' \subseteq Messages \X Nat /\ revision' \in Nat /\ revision <= revision'
      /\ readings' \in [Messages -> Nat] /\ \A m \in Messages \ Of(r.p) : readings'[m] = readings[m]
  BY <1>1 DEF MemoryTypeOK, UserTypeOK
<1> QED BY <1>1, <1>2, <1>3, <1>5, <1>6, <1>7, FinishStep

LEMMA DiscardStep ==
  ASSUME MemoryInv, NEW w \in Readers, Discard(w) PROVE MemoryInv'
<1> DEFINE r == reader[w]
<1>1. /\ MemoryTypeOK /\ r # Resting /\ r.stage = "reading" /\ Owns(w, r.p)
      /\ Finished(r, r.processed, FALSE) /\ Rests(w)
      /\ UNCHANGED <<theirs, revision, facts, left, readings>>
  <2>1. MemoryTypeOK /\ r.stage = "reading" /\ Owns(w, r.p)
    BY DEF Discard, MemoryInv
  <2>2. r # Resting
    BY <2>1 DEF Resting
  <2>3. Finished(r, r.processed, FALSE) /\ Rests(w)
    BY DEF Discard
  <2>4. UNCHANGED <<theirs, revision, facts, left, readings>>
    BY DEF Discard
  <2> QED BY <2>1, <2>2, <2>3, <2>4
<1>2. /\ r.p \in MemoryProjects /\ r.requested \in Nat /\ r.processed \in [Messages -> Nat]
      /\ row[r.p] \in Rows
  BY <1>1, ReaderKinds, TextsType DEF MemoryTypeOK
<1>3. /\ row' \in [MemoryProjects -> Rows] /\ \A q \in MemoryProjects : q # r.p => row'[q] = row[q]
      /\ row'[r.p].requested = row[r.p].requested /\ row'[r.p].processed = r.processed
      /\ row'[r.p].lease = NoReader /\ row'[r.p].completed = row[r.p].completed
  BY <1>1, <1>2, FinishedRow
<1>4. RequestOpen(w)
  BY <1>1 DEF MemoryInv, ReaderInv
<1>5. row[r.p].completed \in Nat /\ row[r.p].completed < row[r.p].requested
      /\ row[r.p].requested \in Nat /\ r.processed = row[r.p].processed
  BY <1>1, <1>2, <1>4 DEF RequestOpen, Rows
<1>6. \A m \in Of(r.p) :
        /\ readings'[m] <= 1
        /\ Eligible(m) /\ readings'[m] > 0 => r.processed[m] = version[m]
  BY <1>1, <1>5 DEF MemoryInv, CursorPassed, ReadExactlyOnce, ReadOnce, Of
<1>7. /\ facts' \subseteq Messages \X Nat /\ revision' \in Nat /\ revision <= revision'
      /\ readings' \in [Messages -> Nat] /\ \A m \in Messages \ Of(r.p) : readings'[m] = readings[m]
  BY <1>1 DEF MemoryTypeOK, UserTypeOK
<1>8. row[r.p].completed <= row[r.p].requested /\ row[r.p].requested # row[r.p].completed
  BY <1>5
<1> QED BY <1>1, <1>2, <1>3, <1>5, <1>6, <1>7, <1>8, FinishStep

\* What goes into the facts is what the user says now, and is read for the first time.
LEMMA AppliedTexts ==
  ASSUME MemoryInv, NEW w \in Readers, Apply(w), NEW m \in Batch(reader[w])
  PROVE  /\ m \in Messages /\ m \in Of(reader[w].p) /\ reader[w].texts[m] = version[m]
         /\ m \notin withdrawn \cup forgotten /\ Eligible(m) /\ readings[m] = 0 /\ enabled
<1> DEFINE r == reader[w]
<1>1. /\ r.stage = "reading" /\ r # Resting /\ Owns(w, r.p) /\ SameTexts(r)
      /\ enabled /\ revision = r.revision
  BY DEF Apply, Resting
<1>2. BatchKnown(w) /\ ReadingKeeps(w)
  BY <1>1 DEF MemoryInv, ReaderInv
<1>3. m \in Of(r.p) /\ r.texts[m] > 0 /\ m \notin forgotten
  BY <1>1, <1>2 DEF BatchKnown
<1>4. m \notin withdrawn /\ version[m] = r.texts[m]
  BY <1>1 DEF SameTexts
<1>5. Eligible(m)
  BY <1>3, <1>4 DEF Eligible
<1>6. readings[m] = 0
  BY <1>1, <1>2, <1>3, <1>4, <1>5 DEF ReadingKeeps
<1> QED BY <1>1, <1>3, <1>4, <1>5, <1>6 DEF Of

LEMMA ApplyStep ==
  ASSUME MemoryInv, NEW w \in Readers, Apply(w) PROVE MemoryInv'
<1> DEFINE r == reader[w]
           cursor == [m \in Messages |-> IF m \in Batch(r) THEN r.texts[m] ELSE r.cursor[m]]
           done == IF r.rest = "none" THEN r.requested ELSE row[r.p].completed
<1>1. /\ MemoryTypeOK /\ r # Resting /\ r.stage = "reading" /\ Owns(w, r.p)
      /\ Finished(r, cursor, r.rest = "none") /\ Rests(w)
      /\ revision' = revision + 1 /\ facts' = facts \cup {<<m, r.texts[m]>> : m \in Batch(r)}
      /\ readings' = [m \in Messages |-> IF m \in Batch(r) THEN readings[m] + 1 ELSE readings[m]]
      /\ UNCHANGED <<theirs, left>>
  BY DEF Apply, MemoryInv, Resting
<1>2. /\ r.p \in MemoryProjects /\ r.requested \in Nat /\ row[r.p] \in Rows
      /\ Batch(r) \subseteq Messages /\ \A m \in Batch(r) : r.texts[m] \in Nat
      /\ r.cursor \in [Messages -> Nat] /\ r.rest \in {"none", "some"}
  BY <1>1, ReaderKinds, TextsType DEF MemoryTypeOK
<1>3. cursor \in [Messages -> Nat]
  BY <1>2
<1>4. /\ row' \in [MemoryProjects -> Rows] /\ \A q \in MemoryProjects : q # r.p => row'[q] = row[q]
      /\ row'[r.p].requested = row[r.p].requested /\ row'[r.p].processed = cursor
      /\ row'[r.p].lease = NoReader /\ row'[r.p].completed = done
  BY <1>1, <1>2, <1>3, FinishedRow
<1>5. RequestOpen(w) /\ ReadingKeeps(w)
  BY <1>1 DEF MemoryInv, ReaderInv
<1>6. /\ row[r.p].completed \in Nat /\ row[r.p].requested \in Nat
      /\ r.requested <= row[r.p].requested /\ row[r.p].completed < r.requested
  BY <1>2, <1>5 DEF RequestOpen, Rows
<1>7. /\ done \in Nat /\ done <= row[r.p].requested
      /\ row[r.p].requested = done => r.rest = "none" /\ row[r.p].requested = r.requested
  BY <1>2, <1>6
<1>8. ASSUME NEW m \in Of(r.p)
      PROVE  /\ readings'[m] <= 1
             /\ Eligible(m) /\ readings'[m] > 0 => cursor[m] = version[m]
             /\ enabled /\ Eligible(m) /\ row[r.p].requested = done => cursor[m] = version[m]
  <2>1. m \in Messages /\ readings[m] \in Nat /\ readings[m] <= 1
    BY <1>1 DEF Of, MemoryTypeOK, UserTypeOK, MemoryInv, ReadExactlyOnce, ReadOnce
  <2>2. CASE m \in Batch(r)
    <3>1. r.texts[m] = version[m] /\ readings[m] = 0
      BY <2>2, AppliedTexts
    <3>2. readings'[m] = 1 /\ cursor[m] = version[m]
      BY <1>1, <2>1, <2>2, <3>1
    <3> QED BY <3>2
  <2>3. CASE m \notin Batch(r)
    <3>1. readings'[m] = readings[m] /\ cursor[m] = r.cursor[m]
      BY <1>1, <2>1, <2>3
    <3>2. Eligible(m) /\ readings[m] > 0 => r.cursor[m] = version[m]
      BY <1>1, <1>5, <2>3 DEF ReadingKeeps
    <3>3. Eligible(m) /\ row[r.p].requested = done => r.cursor[m] = version[m]
      BY <1>1, <1>5, <1>7, <2>3 DEF ReadingKeeps
    <3> QED BY <2>1, <3>1, <3>2, <3>3
  <2> QED BY <2>2, <2>3
<1>9. /\ facts' \subseteq Messages \X Nat
      /\ revision' \in Nat /\ revision <= revision' /\ readings' \in [Messages -> Nat]
  BY <1>1, <1>2 DEF MemoryTypeOK, UserTypeOK
<1>10. \A m \in Messages \ Of(r.p) : readings'[m] = readings[m]
  <2>1. \A m \in Batch(r) : m \in Of(r.p)
    BY AppliedTexts
  <2> QED BY <1>1, <2>1
<1> HIDE DEF cursor, done
<1> QED BY <1>1, <1>2, <1>3, <1>4, <1>7, <1>8, <1>9, <1>10, FinishStep

-----------------------------------------------------------------------------
(* The user.                                                               *)

\* A text is written: its message is unread, and its project has one request more.
LEMMA WriteStep ==
  ASSUME MemoryInv, NEW x \in Messages, Write(x) PROVE MemoryInv'
<1> DEFINE p == ProjectOf[x]
<1>1. /\ MemoryTypeOK /\ p \in MemoryProjects /\ row[p] \in Rows
      /\ version' = [version EXCEPT ![x] = @ + 1]
      /\ row' = [row EXCEPT ![p].requested = @ + 1]
      /\ forgotten' = forgotten \ {x} /\ readings' = [readings EXCEPT ![x] = 0]
      /\ UNCHANGED <<withdrawn, enabled, revision, facts, reader>>
      /\ left' = [left EXCEPT !["texts"] = @ - 1] /\ left["texts"] > 0
  BY MemoryAssumption DEF Write, Spend, MemoryInv, MemoryTypeOK
<1>2. /\ row'[p] = [row[p] EXCEPT !.requested = @ + 1]
      /\ \A q \in MemoryProjects : q # p => row'[q] = row[q]
  BY <1>1 DEF MemoryTypeOK
<1>3. /\ row'[p].requested = row[p].requested + 1 /\ row'[p].completed = row[p].completed
      /\ row'[p].processed = row[p].processed /\ row'[p].lease = row[p].lease
      /\ row'[p].term = row[p].term /\ row'[p] \in Rows /\ row[p].requested \in Nat
      /\ row[p].completed \in Nat
  BY <1>1, <1>2 DEF Rows
<1>4. row' \in [MemoryProjects -> Rows]
  <2>1. row' = [row EXCEPT ![p] = row'[p]]
    BY <1>1, <1>2 DEF MemoryTypeOK
  <2> QED BY <1>1, <1>3, <2>1 DEF MemoryTypeOK
<1>5. left' \in [texts : Nat, changes : Nat, misses : Nat]
  BY <1>1 DEF MemoryTypeOK, UserTypeOK
<1>6. MemoryTypeOK'
  BY <1>1, <1>4, <1>5 DEF MemoryTypeOK, UserTypeOK
<1>7. \A m \in Messages : m # x =>
        (Eligible(m)' <=> Eligible(m)) /\ version'[m] = version[m] /\ readings'[m] = readings[m]
  BY <1>1 DEF Eligible, MemoryTypeOK, UserTypeOK
<1>8. readings'[x] = 0
  BY <1>1 DEF MemoryTypeOK, UserTypeOK
<1>9. RequestsCounted'
  BY <1>1, <1>2, <1>3 DEF MemoryInv, RequestsCounted
<1>10. \A q \in MemoryProjects : /\ row'[q].processed = row[q].processed
                                 /\ row'[q].completed = row[q].completed
  BY <1>2, <1>3
<1>11. CursorPassed'
  <2>1. \A m \in Messages : ProjectOf[m] \in MemoryProjects
    BY MemoryAssumption
  <2> QED BY <1>7, <1>8, <1>10, <2>1 DEF MemoryInv, CursorPassed
<1>12. NothingOverlooked'
  <2> SUFFICES ASSUME NEW m \in Messages, enabled', Eligible(m)',
                      row'[ProjectOf[m]].requested = row'[ProjectOf[m]].completed
               PROVE  row'[ProjectOf[m]].processed[m] = version'[m]
    BY DEF NothingOverlooked
  <2>1. ProjectOf[m] \in MemoryProjects
    BY MemoryAssumption
  <2>2. ProjectOf[m] # p
    BY <1>1, <1>3 DEF MemoryInv, RequestsCounted
  <2> QED BY <1>1, <1>2, <1>7, <2>1, <2>2 DEF MemoryInv, ReadExactlyOnce, NothingOverlooked
<1>13. ReadOnce'
  BY <1>7, <1>8 DEF MemoryInv, ReadExactlyOnce, ReadOnce
<1>14. ASSUME NEW w \in Readers PROVE ReaderInv(w)'
  <2> DEFINE r == reader[w]
  <2> SUFFICES ASSUME r # Resting PROVE ReaderInv(w)'
    BY <1>1 DEF ReaderInv
  <2>1. /\ reader'[w] = r /\ r.p \in MemoryProjects /\ r.requested \in Nat
        /\ BatchKnown(w) /\ (Owns(w, r.p) => RequestOpen(w) /\ ClosingKeeps(w) /\ ReadingKeeps(w))
    BY <1>1, ReaderKinds DEF MemoryInv, ReaderInv
  <2>2. BatchKnown(w)'
    BY <1>1, <2>1 DEF BatchKnown, Batch, Of
  <2>3. Owns(w, r.p)' => Owns(w, r.p)
    BY <1>1, <1>2, <1>3, <2>1 DEF Owns
  <2>4. ASSUME Owns(w, r.p)' PROVE RequestOpen(w)' /\ ClosingKeeps(w)' /\ ReadingKeeps(w)'
    <3>1. RequestOpen(w) /\ ClosingKeeps(w) /\ ReadingKeeps(w)
      BY <2>1, <2>3, <2>4
    <3>0. /\ r.p = p => row'[r.p].requested = row[r.p].requested + 1 /\ row[r.p].requested \in Nat
          /\ r.p # p => row'[r.p] = row[r.p]
          /\ row'[r.p].completed = row[r.p].completed /\ row'[r.p].processed = row[r.p].processed
      BY <1>2, <1>3, <2>1
    <3>2. RequestOpen(w)'
      <4>1. r.requested <= row[r.p].requested /\ r.requested \in Nat
        BY <2>1, <3>1 DEF RequestOpen
      <4>2. r.requested <= row'[r.p].requested
        BY <3>0, <4>1
      <4> QED BY <2>1, <3>0, <3>1, <4>2 DEF RequestOpen
    \* The message that was written is in the project, and then somebody has asked since.
    <3>3. r.requested = row'[r.p].requested => x \notin Of(r.p) /\ row'[r.p] = row[r.p]
      <4>1. r.requested <= row[r.p].requested /\ r.requested \in Nat
        BY <2>1, <3>1 DEF RequestOpen
      <4>2. r.requested = row'[r.p].requested => r.p # p
        BY <3>0, <4>1
      <4> QED BY <3>0, <4>2 DEF Of
    <3>4. \A m \in Of(r.p) : m \in Messages
      BY DEF Of
    <3>5. ClosingKeeps(w)'
      BY <1>1, <1>7, <1>8, <2>1, <3>1, <3>3, <3>4 DEF ClosingKeeps, Of
    <3>6. ReadingKeeps(w)'
      BY <1>1, <1>7, <1>8, <2>1, <3>1, <3>3, <3>4 DEF ReadingKeeps, Of, Batch
    <3> QED BY <3>2, <3>5, <3>6
  <2> QED BY <1>1, <2>2, <2>4 DEF ReaderInv, Owns
<1> QED BY <1>6, <1>9, <1>11, <1>12, <1>13, <1>14 DEF MemoryInv, ReadExactlyOnce

\* Steps of the user that leave the texts and the requests as they are: messages may
\* no longer be read, or everything is forgotten at once.
LEMMA FewerEligible ==
  ASSUME MemoryInv, UNCHANGED <<version, row, reader, readings>>,
         MemoryTypeOK', revision <= revision',
         forgotten' # forgotten => revision < revision',
         \/ \A m \in Messages : ~Eligible(m)'
         \/ enabled' = enabled /\ \A m \in Messages : Eligible(m)' => Eligible(m)
  PROVE  MemoryInv'
<1>1. MemoryTypeOK /\ \A m \in Messages : ProjectOf[m] \in MemoryProjects
  BY MemoryAssumption DEF MemoryInv
<1>2. RequestsCounted' /\ ReadOnce'
  BY DEF MemoryInv, RequestsCounted, ReadExactlyOnce, ReadOnce
<1>3. CursorPassed'
  BY DEF MemoryInv, CursorPassed
<1>4. NothingOverlooked'
  BY DEF MemoryInv, ReadExactlyOnce, NothingOverlooked
<1>5. ASSUME NEW w \in Readers PROVE ReaderInv(w)'
  <2> DEFINE r == reader[w]
  <2> SUFFICES ASSUME r # Resting PROVE ReaderInv(w)'
    BY DEF ReaderInv
  <2>1. BatchKnown(w) /\ (Owns(w, r.p) => RequestOpen(w) /\ ClosingKeeps(w) /\ ReadingKeeps(w))
    BY DEF MemoryInv, ReaderInv
  <2>2. BatchKnown(w)'
    <3> SUFFICES ASSUME r.stage = "reading" PROVE BatchKnown(w)'
      BY DEF BatchKnown
    <3>1. r.revision \in Nat /\ revision \in Nat /\ revision' \in Nat
      BY <1>1, TextsType DEF MemoryTypeOK, UserTypeOK
    <3> QED BY <2>1, <3>1 DEF BatchKnown, Batch, Of
  <2>3. ASSUME Owns(w, r.p) PROVE RequestOpen(w)' /\ ClosingKeeps(w)' /\ ReadingKeeps(w)'
    <3>1. \A m \in Of(r.p) : m \in Messages
      BY DEF Of
    <3>2. RequestOpen(w)'
      BY <2>1, <2>3 DEF RequestOpen
    <3>3. ClosingKeeps(w)'
      BY <2>1, <2>3, <3>1 DEF ClosingKeeps, Of
    <3>4. ReadingKeeps(w)'
      BY <2>1, <2>3, <3>1 DEF ReadingKeeps, Of, Batch
    <3> QED BY <3>2, <3>3, <3>4
  <2> QED BY <2>2, <2>3 DEF ReaderInv, Owns
<1> QED BY <1>2, <1>3, <1>4, <1>5 DEF MemoryInv, ReadExactlyOnce

LEMMA WithdrawStep ==
  ASSUME MemoryInv, NEW x \in Messages, Withdraw(x) PROVE MemoryInv'
<1>1. /\ withdrawn' = withdrawn \cup {x} /\ UNCHANGED <<version, profile, facts, row, reader, readings>>
      /\ left' = [left EXCEPT !["changes"] = @ - 1] /\ left["changes"] > 0
  BY DEF Withdraw, Spend
<1>2. left' \in [texts : Nat, changes : Nat, misses : Nat]
  BY <1>1 DEF MemoryInv, MemoryTypeOK, UserTypeOK
<1>3. MemoryTypeOK'
  BY <1>1, <1>2 DEF MemoryInv, MemoryTypeOK, UserTypeOK, profile
<1>4. enabled' = enabled /\ \A m \in Messages : Eligible(m)' => Eligible(m)
  BY <1>1 DEF Eligible, profile
<1>5. revision <= revision' /\ forgotten' = forgotten
  BY <1>1 DEF MemoryInv, MemoryTypeOK, UserTypeOK, profile
<1> QED BY <1>1, <1>3, <1>4, <1>5, FewerEligible

LEMMA ProfileStep ==
  ASSUME MemoryInv, Forget \/ Switch \/ Revise PROVE MemoryInv'
<1>1. /\ revision' = revision + 1 /\ UNCHANGED <<version, withdrawn, row, reader, readings>>
      /\ left' = [left EXCEPT !["changes"] = @ - 1] /\ left["changes"] > 0
      /\ facts' \subseteq facts
      /\ forgotten' = Written \/ (forgotten' = forgotten /\ enabled' = enabled)
  BY DEF Forget, Switch, Revise, Changed, Spend
<1>2. left' \in [texts : Nat, changes : Nat, misses : Nat]
  BY <1>1 DEF MemoryInv, MemoryTypeOK, UserTypeOK
<1>3. enabled' \in BOOLEAN
  BY DEF Forget, Switch, Revise, MemoryInv, MemoryTypeOK, UserTypeOK
<1>4. revision \in Nat /\ revision' \in Nat
  BY <1>1 DEF MemoryInv, MemoryTypeOK, UserTypeOK
<1>5. MemoryTypeOK'
  BY <1>1, <1>2, <1>3, <1>4 DEF MemoryInv, MemoryTypeOK, UserTypeOK, Written
<1>6. CASE forgotten' = Written
  <2>1. \A m \in Messages : ~Eligible(m)'
    BY <1>1, <1>6 DEF Eligible, Written, MemoryInv, MemoryTypeOK, UserTypeOK
  <2> QED BY <1>1, <1>4, <1>5, <2>1, FewerEligible
<1>7. CASE forgotten' = forgotten /\ enabled' = enabled
  <2>1. \A m \in Messages : Eligible(m)' => Eligible(m)
    BY <1>1, <1>7 DEF Eligible
  <2> QED BY <1>1, <1>4, <1>5, <1>7, <2>1, FewerEligible
<1> QED BY <1>1, <1>6, <1>7

-----------------------------------------------------------------------------
(* The theorems.                                                           *)

LEMMA MemoryInductive == MemoryInv /\ [MemoryNext]_memoryVars => MemoryInv'
<1> SUFFICES ASSUME MemoryInv, [MemoryNext]_memoryVars PROVE MemoryInv'
  OBVIOUS
<1>1. ASSUME NEW m \in Messages, Write(m) \/ Withdraw(m) PROVE MemoryInv'
  BY <1>1, WriteStep, WithdrawStep
<1>2. CASE Forget \/ Switch \/ Revise
  BY <1>2, ProfileStep
<1>3. ASSUME NEW w \in Readers, Load(w) \/ Fail(w) \/ Close(w) \/ Apply(w) \/ Discard(w) \/ Die(w)
      PROVE  MemoryInv'
  BY <1>3, LoadStep, FailStep, CloseStep, ApplyStep, DiscardStep, DieStep
<1>4. ASSUME NEW w \in Readers, NEW p \in MemoryProjects, Claim(w, p) PROVE MemoryInv'
  BY <1>4, ClaimStep
<1>5. ASSUME NEW p \in MemoryProjects, Lapse(p) PROVE MemoryInv'
  BY <1>5, LapseStep
<1>6. CASE UNCHANGED memoryVars
  <2>1. UserTypeOK' /\ row' \in [MemoryProjects -> Rows]
    BY <1>6 DEF memoryVars, profile, MemoryInv, MemoryTypeOK, UserTypeOK
  <2> QED BY <1>6, <2>1, LeasesEnd DEF memoryVars, profile, theirs, Owns
<1> QED BY <1>1, <1>2, <1>3, <1>4, <1>5, <1>6 DEF MemoryNext

THEOREM MemoryInvariant == MemorySpec => []MemoryInv
<1> QED BY MemoryInitially, MemoryInductive, PTL DEF MemorySpec

\* Every reachable state of the queue of memory work and of its workers is well typed.
THEOREM MemoryTypeCorrect == MemorySpec => []MemoryTypeOK
<1>1. MemoryInv => MemoryTypeOK
  BY DEF MemoryInv
<1> QED BY <1>1, MemoryInvariant, PTL

\* run() of memory-maintenance.ts: a project without an open request has been read up
\* to the present texts, and no text is read into the facts twice, whatever leases
\* run out and whatever the user does while the model is at work.
THEOREM MessagesReadExactlyOnce == MemorySpec => []ReadExactlyOnce
<1>1. MemoryInv => ReadExactlyOnce
  BY DEF MemoryInv
<1> QED BY <1>1, MemoryInvariant, PTL

\* applyMemoryOutput(): facts come from what the user says now.
THEOREM FactsComeFromPresentTexts == MemorySpec => FactsFromPresentTexts
<1> DEFINE Present == \A fact \in facts' \ facts :
             enabled /\ fact[2] = version[fact[1]] /\ fact[1] \notin withdrawn \cup forgotten
<1>1. ASSUME MemoryInv, [MemoryNext]_memoryVars PROVE [Present]_memoryVars
  <2>1. CASE facts' \subseteq facts
    BY <2>1
  <2>2. ASSUME NEW w \in Readers, Apply(w) PROVE Present
    <3>1. facts' = facts \cup {<<m, reader[w].texts[m]>> : m \in Batch(reader[w])}
      BY <2>2 DEF Apply
    <3> SUFFICES ASSUME NEW fact \in facts' \ facts
                 PROVE  enabled /\ fact[2] = version[fact[1]] /\ fact[1] \notin withdrawn \cup forgotten
      OBVIOUS
    <3>2. PICK m \in Batch(reader[w]) : fact = <<m, reader[w].texts[m]>>
      BY <3>1
    <3> QED BY <1>1, <2>2, <3>2, AppliedTexts
  <2>3. CASE UNCHANGED memoryVars
    BY <2>3
  <2>4. MemoryNext => facts' \subseteq facts \/ \E w \in Readers : Apply(w)
    BY DEF MemoryNext, Write, Withdraw, Forget, Switch, Revise, Load, Fail, Close, Discard,
           Die, Claim, Lapse, profile
  <2> QED BY <1>1, <2>1, <2>2, <2>3, <2>4
<1> QED BY <1>1, MemoryInvariant, PTL DEF MemorySpec, FactsFromPresentTexts

-----------------------------------------------------------------------------
(***************************************************************************)
(* ProviderBudget.                                                         *)
(***************************************************************************)

-----------------------------------------------------------------------------
(* The inductive invariant, call by call.                                  *)

\* Before the call nothing is booked, and nothing was reported.
Unbooked(c) ==
  stage[c] \in {"asking", "checked", "exceeded", "busy"} =>
    event[c] = NoEvent /\ tries[c] = 0 /\ report[c] = Unknown

\* While it runs its reservation stands, or was given up by the recovery.
Open(c) ==
  stage[c] = "calling" =>
    report[c] = Unknown /\ tries[c] = 0 /\ event[c].status \in {"reserved", "recovered"}

\* What a row charges follows from its status.
Charged(c) ==
  /\ event[c].status \in {"reserved", "recovered", "unknown"} => event[c].charge = Estimate[c]
  /\ event[c].status = "known" => report[c] # Unknown /\ event[c].charge = report[c]
  /\ event[c].status = "unknown" => report[c] = Unknown

\* Reports are counted, and one that was acknowledged has settled the row.
Counted(c) ==
  /\ stage[c] = "reporting" => event[c].status # "none" /\ tries[c] < Attempts
  /\ stage[c] = "ended" =>
       /\ event[c].status # "none"
       /\ tries[c] < Attempts /\ report[c] # Unknown => event[c].status = "known"

CallInv(c) == Unbooked(c) /\ Open(c) /\ Charged(c) /\ Counted(c)

BudgetInv == BudgetTypeOK /\ \A c \in ModelCalls : CallInv(c)

-----------------------------------------------------------------------------

LEMMA UnknownIsNoCost == \A r \in Costs \cup {0} : r \in Nat /\ r # Unknown
BY BudgetAssumption DEF Unknown

LEMMA BudgetInitially == BudgetInit => BudgetInv
<1> SUFFICES ASSUME BudgetInit PROVE BudgetInv
  OBVIOUS
<1>1. BudgetTypeOK
  BY BudgetAssumption DEF BudgetInit, BudgetTypeOK, Stages, NoEvent, Event
<1>2. ASSUME NEW c \in ModelCalls PROVE CallInv(c)
  BY DEF BudgetInit, CallInv, Unbooked, Open, Charged, Counted, NoEvent, Event
<1> QED BY <1>1, <1>2 DEF BudgetInv

\* A call that takes no step, and whose row nobody touches, keeps its invariant.
LEMMA Untouched ==
  ASSUME NEW c \in ModelCalls, CallInv(c),
         stage'[c] = stage[c], report'[c] = report[c], tries'[c] = tries[c], event'[c] = event[c]
  PROVE  CallInv(c)'
BY DEF CallInv, Unbooked, Open, Charged, Counted

\* A row that is there, with its status and its charge, as a value.
LEMMA RowType ==
  ASSUME BudgetTypeOK, NEW c \in ModelCalls
  PROVE  /\ event[c].status \in {"none", "reserved", "known", "unknown", "recovered"}
         /\ event[c].charge \in Nat
         /\ tries[c] \in 0..Attempts /\ report[c] \in Costs \cup {0, Unknown}
         /\ stage[c] \in Stages
BY DEF BudgetTypeOK

LEMMA CheckStep ==
  ASSUME BudgetInv, NEW c \in ModelCalls, Check(c) PROVE BudgetInv'
<1>1. /\ stage' = [stage EXCEPT ![c] = "checked"] \/ stage' = [stage EXCEPT ![c] = "exceeded"]
      /\ ledgerLock' \in {ledgerLock, c} /\ gated' \in {gated, gated \cup {c}}
      /\ stage[c] = "asking" /\ UNCHANGED <<report, tries, permit, event, faults>>
  BY DEF Check
<1>2. BudgetTypeOK'
  BY <1>1 DEF BudgetInv, BudgetTypeOK, Stages
<1>3. ASSUME NEW d \in ModelCalls PROVE CallInv(d)'
  <2>1. CASE d = c
    BY <1>1, <2>1 DEF BudgetInv, BudgetTypeOK, CallInv, Unbooked, Open, Charged, Counted
  <2>2. CASE d # c
    BY <1>1, <2>2, Untouched DEF BudgetInv, BudgetTypeOK
  <2> QED BY <2>1, <2>2
<1> QED BY <1>2, <1>3 DEF BudgetInv

LEMMA StopWaitingStep ==
  ASSUME BudgetInv, NEW c \in ModelCalls, StopWaiting(c) PROVE BudgetInv'
<1>1. /\ stage' = [stage EXCEPT ![c] = "busy"] /\ stage[c] = "asking"
      /\ UNCHANGED <<report, tries, permit, event, ledgerLock, gated, faults>>
  BY DEF StopWaiting
<1>2. BudgetTypeOK'
  BY <1>1 DEF BudgetInv, BudgetTypeOK, Stages
<1>3. ASSUME NEW d \in ModelCalls PROVE CallInv(d)'
  <2>1. CASE d = c
    BY <1>1, <2>1 DEF BudgetInv, BudgetTypeOK, CallInv, Unbooked, Open, Charged, Counted
  <2>2. CASE d # c
    BY <1>1, <2>2, Untouched DEF BudgetInv, BudgetTypeOK
  <2> QED BY <2>1, <2>2
<1> QED BY <1>2, <1>3 DEF BudgetInv

LEMMA ReserveStep ==
  ASSUME BudgetInv, NEW c \in ModelCalls, Reserve(c) PROVE BudgetInv'
<1> PICK outcome \in {"calling", "ended"} :
      /\ stage' = [stage EXCEPT ![c] = outcome]
      /\ permit' = [permit EXCEPT ![c] = IF outcome = "ended" THEN "gone" ELSE @]
  BY DEF Reserve
<1>1. /\ event' = [event EXCEPT ![c] = Event("reserved", Estimate[c])]
      /\ ledgerLock' \in {ledgerLock, Nobody} /\ stage[c] = "checked"
      /\ UNCHANGED <<report, tries, gated, faults>>
  BY DEF Reserve, FreeLock
<1>2. Estimate[c] \in Nat /\ Event("reserved", Estimate[c]).status = "reserved"
      /\ Event("reserved", Estimate[c]).charge = Estimate[c]
  BY BudgetAssumption DEF Event
<1>3. BudgetTypeOK'
  BY <1>1, <1>2 DEF BudgetInv, BudgetTypeOK, Stages, Event
<1>4. ASSUME NEW d \in ModelCalls PROVE CallInv(d)'
  <2>1. CASE d = c
    <3>1. stage'[d] = outcome /\ event'[d] = Event("reserved", Estimate[d]) /\ report[d] = Unknown
          /\ tries[d] = 0 /\ report'[d] = report[d] /\ tries'[d] = tries[d]
      BY <1>1, <2>1 DEF BudgetInv, BudgetTypeOK, CallInv, Unbooked
    <3> QED BY <2>1, <3>1, <1>2 DEF CallInv, Unbooked, Open, Charged, Counted
  <2>2. CASE d # c
    BY <1>1, <2>2, Untouched DEF BudgetInv, BudgetTypeOK
  <2> QED BY <2>1, <2>2
<1> QED BY <1>3, <1>4 DEF BudgetInv

LEMMA ReturnStep ==
  ASSUME BudgetInv, NEW c \in ModelCalls, Return(c) PROVE BudgetInv'
<1> PICK r \in Costs \cup {0, Unknown} : report' = [report EXCEPT ![c] = r]
  BY DEF Return
<1>1. /\ stage' = [stage EXCEPT ![c] = "reporting"] /\ stage[c] = "calling"
      /\ UNCHANGED <<tries, permit, event, ledgerLock, gated, faults>>
  BY DEF Return
<1>2. BudgetTypeOK'
  BY <1>1 DEF BudgetInv, BudgetTypeOK, Stages
<1>3. ASSUME NEW d \in ModelCalls PROVE CallInv(d)'
  <2>1. CASE d = c
    <3>1. stage'[d] = "reporting" /\ event'[d] = event[d] /\ tries'[d] = 0
          /\ event[d].status \in {"reserved", "recovered"}
      BY <1>1, <2>1 DEF BudgetInv, BudgetTypeOK, CallInv, Open
    <3>2. event[d].charge = Estimate[d]
      BY <3>1 DEF BudgetInv, CallInv, Charged
    <3> QED BY <3>1, <3>2, BudgetAssumption DEF CallInv, Unbooked, Open, Charged, Counted
  <2>2. CASE d # c
    BY <1>1, <2>2, Untouched DEF BudgetInv, BudgetTypeOK
  <2> QED BY <2>1, <2>2
<1> QED BY <1>2, <1>3 DEF BudgetInv

\* What a report does to the row of its call.
LEMMA ReportedRow ==
  ASSUME BudgetInv, NEW c \in ModelCalls, stage[c] = "reporting", NEW e,
         e \in {event[c], IF Reportable(c) THEN Settled(c) ELSE event[c]}
  PROVE  /\ e \in [status : {"none", "reserved", "known", "unknown", "recovered"}, charge : Nat]
         /\ e.status # "none"
         /\ e.status \in {"reserved", "recovered", "unknown"} => e.charge = Estimate[c]
         /\ e.status = "known" => report[c] # Unknown /\ e.charge = report[c]
         /\ e.status = "unknown" => report[c] = Unknown
<1>1. event[c].status # "none" /\ Charged(c)
  BY DEF BudgetInv, CallInv, Counted
<1>2. event[c] \in [status : {"none", "reserved", "known", "unknown", "recovered"}, charge : Nat]
  BY DEF BudgetInv, BudgetTypeOK
<1>3. CASE e = event[c]
  BY <1>1, <1>2, <1>3 DEF Charged
<1>4. CASE Reportable(c) /\ e = Settled(c)
  <2>1. CASE report[c] = Unknown
    <3>1. event[c].status = "reserved" /\ e = Event("unknown", event[c].charge)
      BY <1>4, <2>1 DEF Reportable, Settled
    <3> QED BY <1>1, <1>2, <2>1, <3>1 DEF Event, Charged
  <2>2. CASE report[c] # Unknown
    <3>1. e = Event("known", report[c]) /\ report[c] \in Nat
      BY <1>4, <2>2, RowType, UnknownIsNoCost DEF Settled, BudgetInv
    <3> QED BY <2>2, <3>1 DEF Event
  <2> QED BY <2>1, <2>2
<1> QED BY <1>3, <1>4

\* A known cost that was acknowledged is booked, whatever had settled the row before.
LEMMA AcknowledgedIsKnown ==
  ASSUME BudgetInv, NEW c \in ModelCalls, stage[c] = "reporting", report[c] # Unknown
  PROVE  (IF Reportable(c) THEN Settled(c) ELSE event[c]).status = "known"
<1>1. event[c].status # "none" /\ event[c].status # "unknown"
  BY DEF BudgetInv, CallInv, Counted, Charged
<1>2. CASE Reportable(c)
  BY <1>2 DEF Settled, Event
<1>3. CASE ~Reportable(c)
  BY <1>1, <1>3, RowType DEF Reportable, BudgetInv
<1> QED BY <1>2, <1>3

LEMMA ReportStep ==
  ASSUME BudgetInv, NEW c \in ModelCalls, Report(c) PROVE BudgetInv'
<1> PICK committed \in BOOLEAN, answered \in BOOLEAN :
       /\ answered => committed
       /\ event' = IF committed /\ Reportable(c) THEN [event EXCEPT ![c] = Settled(c)] ELSE event
       /\ IF answered \/ tries[c] = Attempts - 1
          THEN /\ stage' = [stage EXCEPT ![c] = "ended"]
               /\ permit' = [permit EXCEPT ![c] = "gone"]
               /\ tries' = [tries EXCEPT ![c] = IF answered THEN @ ELSE Attempts]
          ELSE tries' = [tries EXCEPT ![c] = @ + 1] /\ UNCHANGED <<stage, permit>>
  BY DEF Report
<1>1. stage[c] = "reporting" /\ UNCHANGED <<report, ledgerLock, gated, faults>>
  BY DEF Report
<1>2. tries[c] \in 0..Attempts /\ tries[c] < Attempts /\ Attempts \in Nat
  BY <1>1, BudgetAssumption DEF BudgetInv, BudgetTypeOK, CallInv, Counted
<1>3. event'[c] \in {event[c], IF Reportable(c) THEN Settled(c) ELSE event[c]}
      /\ (answered => event'[c] = IF Reportable(c) THEN Settled(c) ELSE event[c])
      /\ \A d \in ModelCalls : d # c => event'[d] = event[d]
  BY DEF BudgetInv, BudgetTypeOK
<1>4. /\ event'[c] \in [status : {"none", "reserved", "known", "unknown", "recovered"}, charge : Nat]
      /\ event'[c].status # "none"
      /\ event'[c].status \in {"reserved", "recovered", "unknown"} => event'[c].charge = Estimate[c]
      /\ event'[c].status = "known" => report[c] # Unknown /\ event'[c].charge = report[c]
      /\ event'[c].status = "unknown" => report[c] = Unknown
  BY <1>1, <1>3, ReportedRow
<1>5. BudgetTypeOK'
  <2>1. event' \in [ModelCalls -> [status : {"none", "reserved", "known", "unknown", "recovered"}, charge : Nat]]
    BY <1>4 DEF BudgetInv, BudgetTypeOK
  <2>2. tries' \in [ModelCalls -> 0..Attempts]
    BY <1>2 DEF BudgetInv, BudgetTypeOK
  <2>3. stage' \in [ModelCalls -> Stages] /\ permit' \in [ModelCalls -> {"live", "gone"}]
    BY DEF BudgetInv, BudgetTypeOK, Stages
  <2> QED BY <1>1, <2>1, <2>2, <2>3 DEF BudgetInv, BudgetTypeOK
<1>6. CallInv(c)'
  <2>1. CASE answered
    <3>1. stage'[c] = "ended" /\ tries'[c] = tries[c] /\ report'[c] = report[c]
      BY <1>1, <2>1 DEF BudgetInv, BudgetTypeOK
    <3>2. report[c] # Unknown => event'[c].status = "known"
      BY <1>1, <1>3, <2>1, AcknowledgedIsKnown
    <3> QED BY <1>4, <3>1, <3>2 DEF CallInv, Unbooked, Open, Charged, Counted
  <2>2. CASE ~answered /\ tries[c] = Attempts - 1
    <3>1. stage'[c] = "ended" /\ tries'[c] = Attempts /\ report'[c] = report[c]
      BY <1>1, <2>2 DEF BudgetInv, BudgetTypeOK
    <3> QED BY <1>2, <1>4, <3>1 DEF CallInv, Unbooked, Open, Charged, Counted
  <2>3. CASE ~answered /\ tries[c] # Attempts - 1
    <3>1. stage'[c] = "reporting" /\ tries'[c] = tries[c] + 1 /\ report'[c] = report[c]
      BY <1>1, <2>3 DEF BudgetInv, BudgetTypeOK
    <3>2. tries[c] + 1 < Attempts
      BY <1>2, <2>3
    <3> QED BY <1>4, <3>1, <3>2 DEF CallInv, Unbooked, Open, Charged, Counted
  <2> QED BY <2>1, <2>2, <2>3
<1>7. ASSUME NEW d \in ModelCalls, d # c PROVE CallInv(d)'
  <2>1. stage'[d] = stage[d] /\ tries'[d] = tries[d] /\ report'[d] = report[d]
    BY <1>1, <1>7 DEF BudgetInv, BudgetTypeOK
  <2> QED BY <1>3, <1>7, <2>1, Untouched DEF BudgetInv
<1> QED BY <1>5, <1>6, <1>7 DEF BudgetInv

\* The faults: a call that dies keeps its books, and so does a permit that runs out.
LEMMA FallStep ==
  ASSUME BudgetInv, NEW c \in ModelCalls, Fall(c) PROVE BudgetInv'
<1>1. /\ stage' = [stage EXCEPT ![c] = "dead"] /\ faults < MaxFaults /\ faults' = faults + 1
      /\ ledgerLock' \in {ledgerLock, Nobody}
      /\ UNCHANGED <<report, tries, permit, event, gated>>
  BY DEF Fall, FreeLock
<1>2. BudgetTypeOK'
  BY <1>1, BudgetAssumption DEF BudgetInv, BudgetTypeOK, Stages
<1>3. ASSUME NEW d \in ModelCalls PROVE CallInv(d)'
  <2>1. CASE d = c
    BY <1>1, <2>1 DEF BudgetInv, BudgetTypeOK, CallInv, Unbooked, Open, Charged, Counted
  <2>2. CASE d # c
    BY <1>1, <2>2, Untouched DEF BudgetInv, BudgetTypeOK
  <2> QED BY <2>1, <2>2
<1> QED BY <1>2, <1>3 DEF BudgetInv

LEMMA ExpireStep ==
  ASSUME BudgetInv, NEW c \in ModelCalls, Expire(c) PROVE BudgetInv'
<1>1. /\ permit' = [permit EXCEPT ![c] = "gone"]
      /\ faults' = faults \/ (faults < MaxFaults /\ faults' = faults + 1)
      /\ UNCHANGED <<stage, report, tries, event, ledgerLock, gated>>
  BY DEF Expire
<1>2. BudgetTypeOK'
  BY <1>1, BudgetAssumption DEF BudgetInv, BudgetTypeOK
<1>3. ASSUME NEW d \in ModelCalls PROVE CallInv(d)'
  BY <1>1, Untouched DEF BudgetInv
<1> QED BY <1>2, <1>3 DEF BudgetInv

LEMMA RecoverStep ==
  ASSUME BudgetInv, NEW c \in ModelCalls, Recover(c) PROVE BudgetInv'
<1>1. /\ event[c].status = "reserved" /\ event' = [event EXCEPT ![c].status = "recovered"]
      /\ UNCHANGED <<stage, report, tries, permit, ledgerLock, gated, faults>>
  BY DEF Recover, Abandoned
<1>2. BudgetTypeOK'
  BY <1>1 DEF BudgetInv, BudgetTypeOK
<1>3. ASSUME NEW d \in ModelCalls PROVE CallInv(d)'
  <2>1. CASE d = c
    <3>1. event'[d].status = "recovered" /\ event'[d].charge = event[d].charge
      BY <1>1, <2>1 DEF BudgetInv, BudgetTypeOK
    <3>2. event[d].status = "reserved" /\ event[d].charge = Estimate[d] /\ event[d] # NoEvent
      BY <1>1, <2>1 DEF BudgetInv, CallInv, Charged, NoEvent, Event
    <3> QED BY <1>1, <3>1, <3>2 DEF BudgetInv, CallInv, Unbooked, Open, Charged, Counted
  <2>2. CASE d # c
    BY <1>1, <2>2, Untouched DEF BudgetInv, BudgetTypeOK
  <2> QED BY <2>1, <2>2
<1> QED BY <1>2, <1>3 DEF BudgetInv

LEMMA BudgetStep == BudgetInv /\ [BudgetNext]_budgetVars => BudgetInv'
<1> SUFFICES ASSUME BudgetInv, [BudgetNext]_budgetVars PROVE BudgetInv'
  OBVIOUS
<1>1. CASE UNCHANGED budgetVars
  BY <1>1 DEF budgetVars, BudgetInv, BudgetTypeOK, CallInv, Unbooked, Open, Charged, Counted
<1>2. ASSUME NEW c \in ModelCalls,
             Check(c) \/ StopWaiting(c) \/ Reserve(c) \/ Return(c) \/ Report(c)
               \/ Fall(c) \/ Expire(c) \/ Recover(c)
      PROVE  BudgetInv'
  BY <1>2, CheckStep, StopWaitingStep, ReserveStep, ReturnStep, ReportStep, FallStep, ExpireStep,
     RecoverStep
<1> QED BY <1>1, <1>2 DEF BudgetNext

LEMMA BudgetInvariant == BudgetSpec => []BudgetInv
<1> QED BY BudgetInitially, BudgetStep, PTL DEF BudgetSpec

-----------------------------------------------------------------------------
(* Theorems.                                                               *)

\* Rows, reports and the lock are well formed in every reachable state.
THEOREM BudgetTypeCorrect == BudgetSpec => []BudgetTypeOK
<1>1. BudgetInv => BudgetTypeOK
  BY DEF BudgetInv
<1> QED BY <1>1, BudgetInvariant, PTL

\* The books tell the truth about every call whose report was acknowledged: late,
\* repeated and unanswered reports, recoveries and deaths leave the known cost, or
\* the whole reservation (release(), recoverExpiredProviderReservations()).
THEOREM BooksStayTruthful == BudgetSpec => []BooksTruthful
<1>1. BudgetInv => BooksTruthful
  <2> SUFFICES ASSUME BudgetInv, NEW c \in ModelCalls, stage[c] = "ended", tries[c] < Attempts
               PROVE  event[c].charge = IF report[c] = Unknown THEN Estimate[c] ELSE report[c]
    BY DEF BooksTruthful
  <2> QED BY RowType DEF BudgetInv, CallInv, Charged, Counted
<1> QED BY <1>1, BudgetInvariant, PTL
-----------------------------------------------------------------------------
(* Sums, unit by unit.                                                     *)

LEMMA TotalIsNumber ==
  ASSUME NEW a, IsFiniteSet(DOMAIN a), \A c \in DOMAIN a : a[c] \in Nat
  PROVE  IsFiniteSet(Units(a)) /\ Total(a) \in Nat
<1> DEFINE Part(c) == {c} \X (1 .. a[c])
           Parts == {Part(c) : c \in DOMAIN a}
           f == [c \in DOMAIN a |-> Part(c)]
<1>1. f \in Surjection(DOMAIN a, Parts)
  BY DEF Surjection
<1>2. IsFiniteSet(Parts)
  BY <1>1, FS_Surjection
<1>3. ASSUME NEW c \in DOMAIN a
      PROVE  IsFiniteSet(Part(c))
  <2>1. IsFiniteSet({c}) /\ IsFiniteSet(1 .. a[c])
    <3>1. 1 \in Int /\ a[c] \in Int
      OBVIOUS
    <3>2. IsFiniteSet(1 .. a[c])
      BY <3>1, FS_Interval
    <3> QED BY <3>2, FS_Singleton
  <2> QED BY <2>1, FS_Product
<1>4. IsFiniteSet(UNION Parts)
  BY <1>2, <1>3, FS_UNION
<1> QED BY <1>4, FS_CardinalityType DEF Units, Total

\* Smaller amounts, of fewer calls, are less.
LEMMA TotalShrinks ==
  ASSUME NEW a, NEW b, IsFiniteSet(DOMAIN b), \A c \in DOMAIN b : b[c] \in Nat,
         \A c \in DOMAIN a : c \in DOMAIN b /\ a[c] \in Nat /\ a[c] <= b[c]
  PROVE  Total(a) <= Total(b) /\ Total(a) \in Nat /\ Total(b) \in Nat
<1>1. IsFiniteSet(DOMAIN a)
  BY FS_Subset
<1>2. Units(a) \subseteq Units(b)
  <2> SUFFICES ASSUME NEW c \in DOMAIN a, NEW i \in 1 .. a[c] PROVE <<c, i>> \in Units(b)
    BY DEF Units
  <2>1. i \in 1 .. b[c]
    OBVIOUS
  <2> QED BY <2>1 DEF Units
<1> QED BY <1>1, <1>2, TotalIsNumber, FS_Subset DEF Total

\* One call more adds its amount.
LEMMA TotalAdds ==
  ASSUME NEW a, NEW b, NEW c, c \notin DOMAIN a, DOMAIN b = DOMAIN a \cup {c},
         IsFiniteSet(DOMAIN a), \A d \in DOMAIN b : b[d] \in Nat,
         \A d \in DOMAIN a : b[d] = a[d]
  PROVE  Total(b) = Total(a) + b[c]
<1> DEFINE new == {c} \X (1 .. b[c])
<1>1. Units(b) = Units(a) \cup new
  BY DEF Units
<1>2. Units(a) \cap new = {}
  BY DEF Units
<1>3. IsFiniteSet(Units(a)) /\ Total(a) \in Nat
  BY TotalIsNumber
<1>4. IsFiniteSet({c}) /\ Cardinality({c}) = 1 /\ IsFiniteSet(1 .. b[c]) /\ Cardinality(1 .. b[c]) = b[c]
  <2>1. b[c] \in Nat /\ b[c] \in Int /\ 1 \in Int
    OBVIOUS
  <2>2. IsFiniteSet(1 .. b[c]) /\ Cardinality(1 .. b[c]) = IF 1 > b[c] THEN 0 ELSE b[c] - 1 + 1
    BY <2>1, FS_Interval
  <2>3. Cardinality(1 .. b[c]) = b[c]
    BY <2>1, <2>2
  <2> QED BY <2>2, <2>3, FS_Singleton
<1>5. IsFiniteSet(new) /\ Cardinality(new) = b[c]
  <2>1. IsFiniteSet(new) /\ Cardinality(new) = Cardinality({c}) * Cardinality(1 .. b[c])
    BY <1>4, FS_Product
  <2>2. b[c] \in Nat
    OBVIOUS
  <2> QED BY <1>4, <2>1, <2>2
<1> HIDE DEF new
<1>6. Cardinality(Units(a) \cup new) = Cardinality(Units(a)) + Cardinality(new) - 0
  BY <1>2, <1>3, <1>5, FS_Union, FS_EmptySet
<1> QED BY <1>1, <1>3, <1>5, <1>6 DEF Total

-----------------------------------------------------------------------------
(* The budgets.                                                            *)

Admissions == [c \in gated \cap Booked |-> Least(event[c].charge, Estimate[c])]

\* A call that has added up, and not reserved yet, holds the lock, and its estimate fits.
AdmissionInv ==
  /\ IsFiniteSet(Booked)
  /\ \A c \in ModelCalls : stage[c] = "checked" => ledgerLock = c
  /\ \A c \in gated : stage[c] # "asking"
  /\ Total(Admissions) <= DailyLimit
  /\ \A c \in gated : stage[c] = "checked" => Total(Admissions) + Estimate[c] <= DailyLimit

LEMMA AdmissionsType ==
  ASSUME BudgetInv, IsFiniteSet(Booked)
  PROVE  /\ DOMAIN Admissions = gated \cap Booked /\ IsFiniteSet(gated \cap Booked)
         /\ \A c \in gated \cap Booked :
              Admissions[c] = Least(event[c].charge, Estimate[c]) /\ Admissions[c] \in Nat
         /\ Total(Admissions) \in Nat
<1>1. \A c \in gated \cap Booked : Least(event[c].charge, Estimate[c]) \in Nat
  BY BudgetAssumption DEF Least, BudgetInv, BudgetTypeOK, Booked
<1>2. IsFiniteSet(gated \cap Booked)
  BY FS_Subset
<1> QED BY <1>1, <1>2, TotalIsNumber DEF Admissions

\* A step that books nobody, and changes amounts only to less, admits nobody either.
LEMMA AdmissionsShrink ==
  ASSUME BudgetInv, BudgetInv', AdmissionInv, gated' = gated, Booked' = Booked,
         \A c \in Booked : \/ event'[c] = event[c]
                           \/ Least(event'[c].charge, Estimate[c]) <= Least(event[c].charge, Estimate[c]),
         \A c \in ModelCalls : stage'[c] = "checked" => stage[c] = "checked" /\ ledgerLock' = ledgerLock,
         \A c \in gated : stage'[c] # "asking"
  PROVE  AdmissionInv'
<1>1. Total(Admissions') <= Total(Admissions) /\ Total(Admissions') \in Nat /\ Total(Admissions) \in Nat
  <2>1. /\ DOMAIN Admissions = gated \cap Booked /\ IsFiniteSet(gated \cap Booked)
        /\ \A c \in gated \cap Booked :
             Admissions[c] = Least(event[c].charge, Estimate[c]) /\ Admissions[c] \in Nat
    BY AdmissionsType DEF AdmissionInv
  <2>2. /\ DOMAIN Admissions' = gated \cap Booked
        /\ \A c \in gated \cap Booked : Admissions'[c] = Least(event'[c].charge, Estimate[c])
    BY DEF Admissions
  <2>3. \A c \in gated \cap Booked : Least(event'[c].charge, Estimate[c]) \in Nat
    BY BudgetAssumption DEF Least, BudgetInv, BudgetTypeOK, Booked
  <2> HIDE DEF Admissions
  <2>4. \A c \in gated \cap Booked : Admissions'[c] \in Nat /\ Admissions'[c] <= Admissions[c]
    <3> SUFFICES ASSUME NEW c \in gated \cap Booked
                 PROVE  Admissions'[c] \in Nat /\ Admissions'[c] <= Admissions[c]
      OBVIOUS
    <3>1. CASE event'[c] = event[c]
      BY <2>1, <2>2, <3>1
    <3>2. CASE event'[c] # event[c]
      BY <2>1, <2>2, <2>3, <3>2
    <3> QED BY <3>1, <3>2
  <2> QED BY <2>1, <2>2, <2>4, TotalShrinks
<1>2. \A c \in gated : c \in ModelCalls /\ Estimate[c] \in Nat
  BY BudgetAssumption DEF BudgetInv, BudgetTypeOK
<1> QED BY <1>1, <1>2, BudgetAssumption DEF AdmissionInv

LEMMA CheckAdmits ==
  ASSUME BudgetInv, BudgetInv', AdmissionInv, NEW c \in ModelCalls, Check(c)
  PROVE  AdmissionInv'
<1>1. /\ stage[c] = "asking" /\ Unlocked /\ UNCHANGED event /\ Booked' = Booked
      /\ \A d \in ModelCalls \ {c} : stage'[d] = stage[d]
  BY DEF Check, BudgetInv, BudgetTypeOK, Booked
<1>2. c \notin gated /\ event[c].status = "none" /\ c \notin Booked
  BY <1>1 DEF AdmissionInv, BudgetInv, CallInv, Unbooked, NoEvent, Event, Booked
<1>3. \A d \in ModelCalls : stage[d] # "checked"
  BY <1>1, BudgetAssumption DEF AdmissionInv, Unlocked, Nobody, BudgetInv, BudgetTypeOK
<1>4. CASE stage'[c] = "checked" /\ ledgerLock' = c /\ gated' = gated \cup {c} /\ ~Admitted(c)
           /\ \A b \in Budgets(c) : Fits(c, b)
  <2>1. Sum(Booked) + Estimate[c] <= DailyLimit
    <3>1. [calls |-> Booked, limit |-> DailyLimit] \in Budgets(c)
      BY <1>4 DEF Budgets
    <3> QED BY <1>4, <3>1 DEF Fits
  <2>2. Total(Admissions) <= Sum(Booked) /\ Sum(Booked) \in Nat /\ Total(Admissions) \in Nat
    <3> DEFINE charges == [d \in Booked |-> event[d].charge]
    <3>1. \A d \in Booked : charges[d] \in Nat /\ charges[d] = event[d].charge
      BY DEF BudgetInv, BudgetTypeOK, Booked
    <3>2. \A d \in gated \cap Booked : Least(event[d].charge, Estimate[d]) <= event[d].charge
      BY BudgetAssumption DEF Least, BudgetInv, BudgetTypeOK, Booked
    <3>3. DOMAIN charges = Booked /\ IsFiniteSet(Booked)
      BY DEF AdmissionInv
    <3>4. \A d \in DOMAIN Admissions :
            d \in DOMAIN charges /\ Admissions[d] \in Nat /\ Admissions[d] <= charges[d]
      BY <3>1, <3>2, <3>3, AdmissionsType
    <3>5. Sum(Booked) = Total(charges)
      BY DEF Sum
    <3> HIDE DEF charges
    <3> QED BY <3>1, <3>3, <3>4, <3>5, TotalShrinks
  <2>3. Admissions' = Admissions
    <3>1. gated' \cap Booked = gated \cap Booked
      BY <1>2, <1>4
    <3> QED BY <1>1, <3>1 DEF Admissions
  <2>4. Total(Admissions) + Estimate[c] <= DailyLimit
    BY <2>1, <2>2, BudgetAssumption
  <2> QED BY <1>1, <1>3, <1>4, <2>3, <2>4 DEF AdmissionInv, BudgetInv, BudgetTypeOK
<1>5. CASE stage'[c] \in {"checked", "exceeded"} /\ ledgerLock' \in {ledgerLock, c} /\ gated' = gated
           /\ (stage'[c] = "checked" => ledgerLock' = c)
  <2>1. Admissions' = Admissions
    BY <1>1, <1>5 DEF Admissions
  <2> QED BY <1>1, <1>2, <1>3, <1>5, <2>1 DEF AdmissionInv, BudgetInv, BudgetTypeOK
<1> QED BY <1>4, <1>5 DEF Check, BudgetInv, BudgetTypeOK

LEMMA ReserveAdmits ==
  ASSUME BudgetInv, BudgetInv', AdmissionInv, NEW c \in ModelCalls, Reserve(c)
  PROVE  AdmissionInv'
<1>1. /\ stage[c] = "checked" /\ gated' = gated /\ stage'[c] \in {"calling", "ended"}
      /\ \A d \in ModelCalls \ {c} : stage'[d] = stage[d] /\ event'[d] = event[d]
      /\ event'[c] = Event("reserved", Estimate[c])
  BY DEF Reserve, BudgetInv, BudgetTypeOK
<1>0. c \notin Booked
  BY <1>1 DEF BudgetInv, CallInv, Unbooked, NoEvent, Event, Booked
<1>2. Booked' = Booked \cup {c} /\ IsFiniteSet(Booked')
  <2>1. Booked' = Booked \cup {c}
    BY <1>1 DEF Booked, Event
  <2> QED BY <2>1, FS_AddElement DEF AdmissionInv
<1>3. \A d \in ModelCalls \ {c} : stage[d] # "checked"
  BY <1>1 DEF AdmissionInv
<1>4. Total(Admissions') <= DailyLimit
  <2>1. CASE c \in gated
    <3>1. CASE c \notin Booked
      <4>1. Least(Event("reserved", Estimate[c]).charge, Estimate[c]) = Estimate[c]
        BY DEF Least, Event
      <4>2. /\ DOMAIN Admissions' = DOMAIN Admissions \cup {c} /\ c \notin DOMAIN Admissions
            /\ \A d \in DOMAIN Admissions : Admissions'[d] = Admissions[d]
            /\ Admissions'[c] = Estimate[c]
        <5>1. gated' \cap Booked' = (gated \cap Booked) \cup {c}
          BY <1>1, <1>2, <2>1
        <5>2. \A d \in gated \cap Booked : d \in ModelCalls \ {c}
          BY <3>1 DEF Booked
        <5> QED BY <1>1, <3>1, <4>1, <5>1, <5>2 DEF Admissions
      <4>3. /\ IsFiniteSet(DOMAIN Admissions) /\ Total(Admissions) \in Nat
            /\ \A d \in DOMAIN Admissions : Admissions[d] \in Nat
        BY AdmissionsType DEF AdmissionInv
      <4>4. \A d \in DOMAIN Admissions' : Admissions'[d] \in Nat
        BY <4>2, <4>3, BudgetAssumption
      <4>5. Total(Admissions') = Total(Admissions) + Admissions'[c]
        <5> HIDE DEF Admissions
        <5>1. \A a, b : /\ c \notin DOMAIN a /\ DOMAIN b = DOMAIN a \cup {c} /\ IsFiniteSet(DOMAIN a)
                        /\ \A d \in DOMAIN b : b[d] \in Nat
                        /\ \A d \in DOMAIN a : b[d] = a[d]
                        => Total(b) = Total(a) + b[c]
          BY TotalAdds
        <5> QED BY <4>2, <4>3, <4>4, <5>1
      <4> QED BY <1>1, <2>1, <4>2, <4>5 DEF AdmissionInv
    <3> QED BY <1>0, <3>1
  <2>2. CASE c \notin gated
    <3>1. gated' \cap Booked' = gated \cap Booked /\ \A d \in gated \cap Booked : d \in ModelCalls \ {c}
      BY <1>1, <1>2, <2>2 DEF Booked
    <3>2. Admissions' = Admissions
      BY <1>1, <3>1 DEF Admissions
    <3> QED BY <3>2 DEF AdmissionInv
  <2> QED BY <2>1, <2>2
<1> QED BY <1>1, <1>2, <1>3, <1>4 DEF AdmissionInv, BudgetInv, BudgetTypeOK

LEMMA AdmissionStep ==
  ASSUME BudgetInv, BudgetInv', AdmissionInv, [BudgetNext]_budgetVars
  PROVE  AdmissionInv'
<1>1. CASE UNCHANGED budgetVars
  <2>1. UNCHANGED <<stage, event, ledgerLock, gated>>
    BY <1>1 DEF budgetVars
  <2> QED BY <2>1 DEF AdmissionInv, Admissions, Booked
<1>2. ASSUME NEW c \in ModelCalls, StopWaiting(c) \/ Return(c) \/ Fall(c) \/ Expire(c)
      PROVE  AdmissionInv'
  <2>1. /\ gated' = gated /\ event' = event /\ Booked' = Booked
        /\ \A d \in ModelCalls \ {c} : stage'[d] = stage[d]
    BY <1>2 DEF StopWaiting, Return, Fall, Expire, Booked, BudgetInv, BudgetTypeOK
  <2>2. stage'[c] # "asking" \/ stage'[c] = stage[c]
    BY <1>2 DEF StopWaiting, Return, Fall, Expire, BudgetInv, BudgetTypeOK
  <2>3. stage'[c] # "checked"
    BY <1>2 DEF StopWaiting, Return, Fall, Expire, BudgetInv, BudgetTypeOK, AdmissionInv, CallInv, Unbooked
  <2>4. ledgerLock' = ledgerLock \/ (ledgerLock = c /\ ledgerLock' = Nobody)
    BY <1>2 DEF StopWaiting, Return, Fall, Expire, FreeLock
  <2>5. \A d \in ModelCalls : stage'[d] = "checked" => stage[d] = "checked" /\ ledgerLock' = ledgerLock
    BY <2>1, <2>3, <2>4 DEF AdmissionInv
  <2>6. \A d \in gated : stage'[d] # "asking"
    BY <2>1, <2>2 DEF AdmissionInv, BudgetInv, BudgetTypeOK
  <2> QED BY <2>1, <2>5, <2>6, AdmissionsShrink
<1>3. ASSUME NEW c \in ModelCalls, Report(c)
      PROVE  AdmissionInv'
  <2>1. /\ stage[c] = "reporting" /\ gated' = gated /\ ledgerLock' = ledgerLock
        /\ event' \in {event, [event EXCEPT ![c] = Settled(c)]}
        /\ event' = event \/ Reportable(c)
        /\ stage'[c] \in {"reporting", "ended"}
        /\ \A d \in ModelCalls \ {c} : stage'[d] = stage[d]
    BY <1>3 DEF Report, BudgetInv, BudgetTypeOK
  <2>2. c \in Booked /\ Charged(c) /\ c \in Booked' /\ report' = report
    BY <1>3, <2>1 DEF BudgetInv, CallInv, Counted, Booked, Report, Settled, Event, BudgetTypeOK
  <2>3. \A d \in ModelCalls \ {c} : event'[d] = event[d]
    BY <2>1 DEF BudgetInv, BudgetTypeOK
  <2>4. Booked' = Booked
    BY <2>2, <2>3 DEF Booked
  <2>5. event'[c] = event[c] \/ Least(event'[c].charge, Estimate[c]) <= Least(event[c].charge, Estimate[c])
    <3>1. event'[c] # event[c] => event[c].charge = Estimate[c]
      BY <2>1, <2>2 DEF Reportable, Charged
    <3>2. event'[c].charge \in Nat /\ Estimate[c] \in Nat
      BY BudgetAssumption DEF BudgetInv, BudgetTypeOK
    <3> QED BY <3>1, <3>2 DEF Least
  <2>6. \A d \in Booked : \/ event'[d] = event[d]
                          \/ Least(event'[d].charge, Estimate[d]) <= Least(event[d].charge, Estimate[d])
    BY <2>3, <2>5 DEF Booked
  <2>7. \A d \in ModelCalls : stage'[d] = "checked" => stage[d] = "checked" /\ ledgerLock' = ledgerLock
    BY <2>1
  <2>8. \A d \in gated : stage'[d] # "asking"
    BY <2>1 DEF AdmissionInv, BudgetInv, BudgetTypeOK
  <2> QED BY <2>1, <2>4, <2>6, <2>7, <2>8, AdmissionsShrink
<1>4. ASSUME NEW c \in ModelCalls, Recover(c)
      PROVE  AdmissionInv'
  <2>1. /\ event[c].status = "reserved" /\ UNCHANGED <<stage, ledgerLock, gated>>
        /\ event'[c].charge = event[c].charge /\ event'[c].status = "recovered"
        /\ \A d \in ModelCalls \ {c} : event'[d] = event[d]
    BY <1>4 DEF Recover, Abandoned, BudgetInv, BudgetTypeOK
  <2>2. Booked' = Booked
    BY <2>1 DEF Booked
  <2>3. \A d \in Booked : \/ event'[d] = event[d]
                          \/ Least(event'[d].charge, Estimate[d]) <= Least(event[d].charge, Estimate[d])
    <3>1. Least(event[c].charge, Estimate[c]) \in Nat
      BY BudgetAssumption DEF Least, BudgetInv, BudgetTypeOK
    <3> QED BY <2>1, <3>1 DEF Booked
  <2> QED BY <2>1, <2>2, <2>3, AdmissionsShrink DEF AdmissionInv
<1> QED BY <1>1, <1>2, <1>3, <1>4, CheckAdmits, ReserveAdmits DEF BudgetNext

\* acquireOnce(): the sums added up under the lock are still good when the reservation
\* is committed, whoever reports, recovers or dies meanwhile.
THEOREM FirstCallsStayWithinLimit == BudgetSpec => []AdmittedWithinLimit
<1>1. BudgetInit => AdmissionInv
  <2> SUFFICES ASSUME BudgetInit
               PROVE  AdmissionInv
    OBVIOUS
  <2>1. Booked = {}
    BY DEF BudgetInit, Booked, NoEvent, Event
  <2>2. Units(Admissions) = {}
    BY <2>1 DEF Units, Admissions
  <2> QED BY <2>1, <2>2, FS_EmptySet, BudgetAssumption DEF BudgetInit, AdmissionInv, Total
<1>2. BudgetInv /\ BudgetInv' /\ AdmissionInv /\ [BudgetNext]_budgetVars => AdmissionInv'
  BY AdmissionStep
<1>3. AdmissionInv => AdmittedWithinLimit
  BY DEF AdmissionInv, AdmittedWithinLimit, Admissions
<1> QED BY <1>1, <1>2, <1>3, BudgetInvariant, PTL DEF BudgetSpec

-----------------------------------------------------------------------------
(***************************************************************************)
(* SnapshotRetention.                                                      *)
(***************************************************************************)

Ages == {"absent", "current", "graced", "closing", "due"}
VersionRows == [age : Ages, keys : {"none", "stored"}, payload : {"kept", "purged"}]
Keys == Versions \cup {0}

\* Every variable keeps its type.
RetentionTypeOK ==
  /\ head \in Keys /\ graced \in Keys
  /\ snapshot \in [Versions -> VersionRows] /\ object \subseteq Versions
  /\ ledger \in [Versions -> {"none", "pending", "deleted"}]
  /\ update \in [stage : {"idle", "comparing", "analyzed", "uploaded", "saved"},
                 key : Keys, base : Keys]
  /\ ~UpdateAt("idle") => update.key # 0
  /\ cleaner \in [stage : {"idle", "listed", "deleting", "deleted"}, key : Keys]
  /\ cleaner.stage # "idle" => cleaner.key # 0
  /\ lease \in [SnapshotReaders -> Keys]

-----------------------------------------------------------------------------
(* The inductive invariant.                                                *)

\* Keys grow: only the version of the update may be new, and no other is to come.
KeysGrow ==
  /\ head <= update.key
  /\ \A k \in Versions :
       /\ k > update.key => snapshot[k].age = "absent"
       /\ k = update.key => snapshot[k].age \in {"absent", "current"}

\* A version that is there and was not purged has its objects; one whose objects are
\* to be deleted was purged, and never comes back, because it is older than the update's.
PayloadKept ==
  \A k \in Versions :
    /\ snapshot[k].age # "absent" /\ ~Purged(k) => Readable(k)
    /\ Purged(k) => k < update.key

DeletesPurged ==
  /\ \A k \in Versions : ledger[k] # "none" => Purged(k)
  /\ cleaner.stage \in {"deleting", "deleted"} => Purged(cleaner.key)

\* The head is current, and so is what the update is about to publish; what the last
\* publication replaced is in its grace.
HeadCurrent ==
  /\ head # 0 => snapshot[head].age = "current" /\ ~Purged(head)
  /\ UpdateAt("saved") => snapshot[update.key].age = "current"
  /\ graced # 0 => snapshot[graced].age = "graced" /\ ~Purged(graced)

\* A lease keeps its version from being purged.
LeaseKept ==
  \A r \in SnapshotReaders :
    lease[r] # NoLease => snapshot[lease[r]].age # "absent" /\ ~Purged(lease[r])

RetentionInv ==
  /\ RetentionTypeOK /\ KeysGrow /\ PayloadKept /\ DeletesPurged /\ HeadCurrent /\ LeaseKept
  /\ UploadsProtected

-----------------------------------------------------------------------------

LEMMA KeysAreNumbers == Keys \subseteq Nat /\ 0 \notin Versions /\ 0 \in Keys /\ Versions \subseteq Keys
BY RetentionAssumption DEF Keys

\* The version of the update is the newest, has not been purged and is not retired.
LEMMA UpdateIsNewest ==
  ASSUME RetentionInv, update.key \in Versions
  PROVE  /\ update.key \in Nat /\ update.key # 0 /\ ~Purged(update.key)
         /\ snapshot[update.key].age \in {"absent", "current"}
<1>1. update.key \in Nat /\ update.key # 0
  BY KeysAreNumbers
<1>2. Purged(update.key) => update.key < update.key
  BY DEF RetentionInv, PayloadKept
<1>3. snapshot[update.key].age \in {"absent", "current"}
  BY DEF RetentionInv, KeysGrow
<1> QED BY <1>1, <1>2, <1>3

LEMMA RetentionInitially == RetentionInit => RetentionInv
<1> SUFFICES ASSUME RetentionInit PROVE RetentionInv
  OBVIOUS
<1>1. RetentionTypeOK
  BY KeysAreNumbers DEF RetentionInit, RetentionTypeOK, VersionRows, Ages, Absent, Rest, NoLease, UpdateAt
<1>2. \A k \in Versions : snapshot[k].age = "absent" /\ snapshot[k].payload = "kept"
  BY DEF RetentionInit, Absent
<1>3. KeysGrow /\ PayloadKept
  BY <1>2, KeysAreNumbers DEF RetentionInit, KeysGrow, PayloadKept, Purged
<1>4. DeletesPurged /\ HeadCurrent /\ LeaseKept /\ UploadsProtected
  BY <1>2 DEF RetentionInit, DeletesPurged, HeadCurrent, LeaseKept, UploadsProtected, Rest, UpdateAt
<1> QED BY <1>1, <1>3, <1>4 DEF RetentionInv

\* The update goes on, and the rows stay as they are.
LEMMA StartUpdateStep ==
  ASSUME RetentionInv, ~Rewinds, NEW k \in Versions, StartUpdate(k) PROVE RetentionInv'
<1>1. /\ UpdateAt("idle") /\ k >= update.key
      /\ update' = [stage |-> "comparing", key |-> k, base |-> head]
      /\ UNCHANGED <<head, snapshot, graced, object, ledger, cleaner, lease, mishaps>>
  BY DEF StartUpdate
<1>2. RetentionTypeOK'
  BY <1>1, KeysAreNumbers DEF RetentionInv, RetentionTypeOK, UpdateAt
<1>3. update.key \in Nat /\ update'.key = k /\ k \in Nat /\ head \in Nat
  BY <1>1, KeysAreNumbers DEF RetentionInv, RetentionTypeOK
<1>4. KeysGrow'
  BY <1>1, <1>3, KeysAreNumbers DEF RetentionInv, KeysGrow
<1>5. PayloadKept'
  BY <1>1, <1>3, KeysAreNumbers DEF RetentionInv, PayloadKept, Purged, Readable
<1>6. DeletesPurged' /\ HeadCurrent' /\ LeaseKept' /\ UploadsProtected'
  BY <1>1 DEF RetentionInv, DeletesPurged, HeadCurrent, LeaseKept, UploadsProtected, Purged, UpdateAt
<1> QED BY <1>2, <1>4, <1>5, <1>6 DEF RetentionInv

LEMMA UpdateGoesOn ==
  ASSUME RetentionInv, NEW s \in {"idle", "comparing", "analyzed", "uploaded", "saved"},
         ~UpdateAt("idle"), UpdateGoes(s), UNCHANGED <<head, snapshot, graced, ledger, cleaner, lease>>,
         object' = object \/ object' = object \cup {update.key},
         s = "uploaded" => update.key \in object',
         s = "saved" => snapshot[update.key].age = "current"
  PROVE  RetentionInv'
<1>1. /\ update'.key = update.key /\ update'.base = update.base /\ update'.stage = s
      /\ update' \in [stage : {"idle", "comparing", "analyzed", "uploaded", "saved"},
                      key : Keys, base : Keys]
      /\ update.key \in Versions
  BY DEF UpdateGoes, RetentionInv, RetentionTypeOK, Keys
<1>2. RetentionTypeOK'
  BY <1>1, KeysAreNumbers DEF RetentionInv, RetentionTypeOK
<1>3. KeysGrow' /\ PayloadKept'
  BY <1>1 DEF RetentionInv, KeysGrow, PayloadKept, Purged, Readable
<1>4. DeletesPurged' /\ HeadCurrent' /\ LeaseKept' /\ UploadsProtected'
  BY <1>1 DEF RetentionInv, DeletesPurged, HeadCurrent, LeaseKept, UploadsProtected, Purged, UpdateAt
<1> QED BY <1>2, <1>3, <1>4 DEF RetentionInv

\* Looking for a view, uploading and failing move nothing but the update.
LEMMA RetrievalStep ==
  ASSUME RetentionInv, LookForView \/ Upload \/ FailRetrieval PROVE RetentionInv'
<1>1. CASE LookForView
  <2>1. update.key \in Versions
    BY <1>1 DEF LookForView, UpdateAt, RetentionInv, RetentionTypeOK, Keys
  <2>2. snapshot[update.key].age # "absent" => snapshot[update.key].age = "current"
    BY <2>1 DEF RetentionInv, KeysGrow
  <2>3. \E s \in {"idle", "comparing", "analyzed", "uploaded", "saved"} :
          /\ UpdateGoes(s) /\ s # "uploaded" /\ (s = "saved" => snapshot[update.key].age # "absent")
    BY <1>1 DEF LookForView
  <2> QED BY <1>1, <2>2, <2>3, UpdateGoesOn DEF LookForView, UpdateAt
<1>2. CASE Upload
  BY <1>2, UpdateGoesOn DEF Upload, UpdateAt
<1>3. CASE FailRetrieval
  BY <1>3, UpdateGoesOn DEF FailRetrieval, UpdateAt, Mishap
<1> QED BY <1>1, <1>2, <1>3

LEMMA SaveRowStep ==
  ASSUME RetentionInv, SaveRow PROVE RetentionInv'
<1> DEFINE key == update.key
<1>1. /\ UpdateAt("uploaded") /\ key \in object /\ key \in Versions
      /\ snapshot' = [snapshot EXCEPT ![key] = Current]
      /\ UpdateGoes("saved") /\ UNCHANGED <<head, graced, object, ledger, cleaner, lease>>
  BY DEF SaveRow, RetentionInv, RetentionTypeOK, UploadsProtected
<1>2. /\ Current \in VersionRows /\ Current.age = "current" /\ Current.keys = "stored" /\ Current.payload = "kept"
      /\ update'.key = key /\ update'.stage = "saved"
      /\ update' \in [stage : {"idle", "comparing", "analyzed", "uploaded", "saved"},
                      key : Keys, base : Keys]
  BY <1>1 DEF Current, VersionRows, Ages, UpdateGoes, RetentionInv, RetentionTypeOK
<1>3. snapshot'[key] = Current /\ \A k \in Versions : k # key => snapshot'[k] = snapshot[k]
  BY <1>1 DEF RetentionInv, RetentionTypeOK
<1>4. ~Purged(key) /\ key \in Nat /\ key # 0 /\ snapshot[key].age \in {"absent", "current"}
  BY <1>1, UpdateIsNewest
<1>5. RetentionTypeOK'
  BY <1>1, <1>2 DEF RetentionInv, RetentionTypeOK, UpdateAt
<1>6. KeysGrow'
  BY <1>1, <1>2, <1>3, <1>4, KeysAreNumbers DEF RetentionInv, KeysGrow
<1>7. PayloadKept'
  BY <1>1, <1>2, <1>3, <1>4 DEF RetentionInv, PayloadKept, Purged, Readable
<1>8. DeletesPurged'
  BY <1>1, <1>2, <1>3, <1>4 DEF RetentionInv, RetentionTypeOK, Keys, DeletesPurged, Purged
<1>9. HeadCurrent'
  BY <1>1, <1>2, <1>3, <1>4 DEF RetentionInv, RetentionTypeOK, Keys, HeadCurrent, Purged, UpdateAt
<1>10. LeaseKept' /\ UploadsProtected'
  BY <1>1, <1>2, <1>3, <1>4 DEF RetentionInv, RetentionTypeOK, Keys, LeaseKept, NoLease, Purged,
                                UploadsProtected, UpdateAt
<1> QED BY <1>5, <1>6, <1>7, <1>8, <1>9, <1>10 DEF RetentionInv

\* A version that is retired: whether it is there, and its payload, stay as they were.
LEMMA RetiredRow ==
  ASSUME NEW s \in VersionRows
  PROVE  /\ Retired(s) \in VersionRows /\ Retired(s).keys = s.keys /\ Retired(s).payload = s.payload
         /\ Retired(s).age = "absent" <=> s.age = "absent"
         /\ s.age = "current" /\ s.payload # "purged" => Retired(s).age = "graced"
BY DEF Retired, VersionRows, Ages

LEMMA PublishHeadStep ==
  ASSUME RetentionInv, PublishHead PROVE RetentionInv'
<1> DEFINE key == update.key
<1>1. /\ UpdateAt("saved") /\ head' = key
      /\ snapshot' = [k \in Versions |->
           IF k = key THEN [snapshot[k] EXCEPT !.age = "current", !.payload = "kept"]
           ELSE Retired(snapshot[k])]
      /\ graced' = IF head = key THEN 0 ELSE head
      /\ UpdateGoes("idle") /\ UNCHANGED <<object, ledger, cleaner, lease>>
  BY DEF PublishHead
<1>2. /\ key \in Versions /\ key \in Nat /\ key # 0 /\ snapshot[key] \in VersionRows
      /\ snapshot[key].age = "current" /\ ~Purged(key)
  <2>1. key \in Versions /\ snapshot[key] \in VersionRows
    BY <1>1 DEF RetentionInv, RetentionTypeOK, UpdateAt, Keys
  <2>2. snapshot[key].age = "current"
    BY <1>1 DEF RetentionInv, HeadCurrent
  <2> QED BY <2>1, <2>2, UpdateIsNewest
<1>3. snapshot'[key] = [snapshot[key] EXCEPT !.age = "current", !.payload = "kept"]
  BY <1>1, <1>2
<1>4. /\ snapshot'[key].age = "current" /\ snapshot'[key].payload = "kept"
      /\ snapshot'[key].keys = snapshot[key].keys /\ snapshot'[key] \in VersionRows
  BY <1>2, <1>3 DEF VersionRows, Ages
<1>5. \A k \in Versions : k # key =>
        /\ snapshot'[k] \in VersionRows /\ snapshot'[k].keys = snapshot[k].keys
        /\ snapshot'[k].payload = snapshot[k].payload
        /\ snapshot'[k].age = "absent" <=> snapshot[k].age = "absent"
        /\ snapshot[k].age = "current" /\ ~Purged(k) => snapshot'[k].age = "graced"
  BY <1>1, RetiredRow DEF RetentionInv, RetentionTypeOK, Purged
<1>6. /\ update'.key = key /\ update'.stage = "idle"
      /\ update' \in [stage : {"idle", "comparing", "analyzed", "uploaded", "saved"},
                      key : Keys, base : Keys]
  BY <1>1 DEF UpdateGoes, RetentionInv, RetentionTypeOK
<1>7. RetentionTypeOK'
  <2>1. snapshot' \in [Versions -> VersionRows]
    BY <1>1, <1>4, <1>5
  <2> QED BY <1>1, <1>2, <1>6, <2>1, KeysAreNumbers DEF RetentionInv, RetentionTypeOK, UpdateAt
<1>8. \A k \in Versions : Purged(k)' <=> Purged(k)
  BY <1>2, <1>4, <1>5 DEF Purged
<1>9. KeysGrow'
  <2> SUFFICES ASSUME NEW k \in Versions
               PROVE  /\ k > key => snapshot'[k].age = "absent"
                      /\ k = key => snapshot'[k].age = "current"
    <3>1. head' <= update'.key
      <4>1. key <= key
        BY <1>2
      <4> QED BY <1>1, <1>6, <4>1
    <3> QED BY <1>6, <3>1 DEF KeysGrow
  <2>1. k > key => k # key /\ snapshot[k].age = "absent"
    BY <1>2, KeysAreNumbers DEF RetentionInv, KeysGrow
  <2> QED BY <1>4, <1>5, <2>1
<1>10. PayloadKept'
  <2> SUFFICES ASSUME NEW k \in Versions
               PROVE  /\ snapshot'[k].age # "absent" /\ ~Purged(k)' => Readable(k)'
                      /\ Purged(k)' => k < update'.key
    BY DEF PayloadKept
  <2>1. snapshot'[k].keys = snapshot[k].keys
    BY <1>4, <1>5
  <2>2. snapshot'[k].age # "absent" => snapshot[k].age # "absent"
    BY <1>2, <1>5
  <2>3. object' = object
    BY <1>1
  <2>4. /\ snapshot[k].age # "absent" /\ ~Purged(k) => Readable(k)
        /\ Purged(k) => k < update.key
    BY DEF RetentionInv, PayloadKept
  <2> QED BY <1>6, <1>8, <2>1, <2>2, <2>3, <2>4 DEF Readable
<1>11. DeletesPurged'
  BY <1>1, <1>8 DEF RetentionInv, RetentionTypeOK, Keys, DeletesPurged
<1>12. HeadCurrent'
  <2>1. head # 0 /\ head # key =>
          head \in Versions /\ snapshot'[head].age = "graced" /\ snapshot'[head].payload # "purged"
    <3>1. head # 0 => head \in Versions /\ snapshot[head].age = "current" /\ ~Purged(head)
      BY DEF RetentionInv, RetentionTypeOK, Keys, HeadCurrent
    <3> QED BY <1>5, <3>1 DEF Purged
  <2>2. head' # 0 => snapshot'[head'].age = "current" /\ ~Purged(head)'
    BY <1>1, <1>4 DEF Purged
  <2>3. ~UpdateAt("saved")'
    BY <1>6 DEF UpdateAt
  <2>4. graced' # 0 => snapshot'[graced'].age = "graced" /\ ~Purged(graced)'
    BY <1>1, <2>1 DEF Purged
  <2> QED BY <2>2, <2>3, <2>4 DEF HeadCurrent
<1>13. LeaseKept'
  <2>1. \A k \in Versions : snapshot'[k].age = "absent" => snapshot[k].age = "absent"
    BY <1>2, <1>4, <1>5
  <2>2. \A r \in SnapshotReaders : lease[r] # NoLease => lease[r] \in Versions
    BY DEF RetentionInv, RetentionTypeOK, Keys, NoLease
  <2> QED BY <1>1, <1>8, <2>1, <2>2 DEF RetentionInv, LeaseKept
<1>14. UploadsProtected'
  BY <1>6 DEF UploadsProtected, UpdateAt
<1> QED BY <1>7, <1>9, <1>10, <1>11, <1>12, <1>13, <1>14 DEF RetentionInv

LEMMA PassGraceStep ==
  ASSUME RetentionInv, NEW k \in Versions, PassGrace(k) PROVE RetentionInv'
<1>1. /\ snapshot[k].age \in {"graced", "closing"} /\ snapshot[k] \in VersionRows
      /\ snapshot' = [snapshot EXCEPT ![k].age = IF @ = "graced" THEN "closing" ELSE "due"]
      /\ graced' = IF graced = k THEN 0 ELSE graced
      /\ UNCHANGED <<head, update, object, ledger, cleaner, lease>>
  BY DEF PassGrace, RetentionInv, RetentionTypeOK
<1>2. /\ snapshot'[k] = [snapshot[k] EXCEPT !.age = IF @ = "graced" THEN "closing" ELSE "due"]
      /\ \A j \in Versions : j # k => snapshot'[j] = snapshot[j]
  BY <1>1 DEF RetentionInv, RetentionTypeOK
<1>3. /\ snapshot'[k].age \in {"closing", "due"} /\ snapshot'[k].keys = snapshot[k].keys
      /\ snapshot'[k].payload = snapshot[k].payload /\ snapshot'[k] \in VersionRows
  BY <1>1, <1>2 DEF VersionRows, Ages
<1>4. RetentionTypeOK'
  <2>1. snapshot' \in [Versions -> VersionRows]
    <3>1. snapshot' = [snapshot EXCEPT ![k] = snapshot'[k]]
      BY <1>1, <1>2 DEF RetentionInv, RetentionTypeOK
    <3> QED BY <1>3, <3>1 DEF RetentionInv, RetentionTypeOK
  <2> QED BY <1>1, <2>1, KeysAreNumbers DEF RetentionInv, RetentionTypeOK, UpdateAt
<1>5. \A j \in Versions : Purged(j)' <=> Purged(j)
  BY <1>2, <1>3 DEF Purged
<1>6. KeysGrow'
  BY <1>1, <1>2, <1>3, KeysAreNumbers DEF RetentionInv, KeysGrow
<1>7. PayloadKept'
  BY <1>1, <1>2, <1>3, <1>5 DEF RetentionInv, PayloadKept, Readable
<1>8. DeletesPurged'
  BY <1>1, <1>5 DEF RetentionInv, RetentionTypeOK, Keys, DeletesPurged
<1>9. HeadCurrent'
  BY <1>1, <1>2, <1>5, KeysAreNumbers DEF RetentionInv, RetentionTypeOK, Keys, HeadCurrent, UpdateAt
<1>10. LeaseKept' /\ UploadsProtected'
  BY <1>1, <1>2, <1>3, <1>5 DEF RetentionInv, RetentionTypeOK, Keys, LeaseKept, NoLease,
                                UploadsProtected, UpdateAt
<1> QED BY <1>4, <1>6, <1>7, <1>8, <1>9, <1>10 DEF RetentionInv

\* Only what readers may have is leased.
LEMMA LeaseStep ==
  ASSUME RetentionInv, NEW r \in SnapshotReaders,
         EndLease(r) \/ \E k \in Versions : Lease(r, k)
  PROVE  RetentionInv'
<1> PICK k \in Keys : /\ lease' = [lease EXCEPT ![r] = k]
                      /\ k # NoLease => k \in Versions /\ Leasable(k)
                      /\ UNCHANGED <<publication, object, ledger, cleaner>>
  BY KeysAreNumbers DEF EndLease, Lease, NoLease
<1>1. RetentionTypeOK'
  BY DEF RetentionInv, RetentionTypeOK, publication, UpdateAt
<1>2. KeysGrow' /\ PayloadKept' /\ DeletesPurged' /\ HeadCurrent' /\ UploadsProtected'
  BY DEF RetentionInv, KeysGrow, PayloadKept, DeletesPurged, HeadCurrent, UploadsProtected,
         publication, Purged, Readable, UpdateAt
<1>3. LeaseKept'
  BY DEF RetentionInv, RetentionTypeOK, LeaseKept, Leasable, publication, Purged
<1> QED BY <1>1, <1>2, <1>3 DEF RetentionInv

\* The clean-up purges nothing the update is at, nobody has leased, and was not retired.
LEMMA PurgeStep ==
  ASSUME RetentionInv, Purge PROVE RetentionInv'
<1> DEFINE k == cleaner.key
<1>1. k \in Versions /\ cleaner.stage = "listed"
  BY DEF Purge, RetentionInv, RetentionTypeOK, Keys
<1>2. CASE ~Purgeable(k)
  <2>1. cleaner' = Rest /\ UNCHANGED <<publication, object, ledger, lease>>
    BY <1>2 DEF Purge, publication
  <2>2. RetentionTypeOK'
    BY <2>1, KeysAreNumbers DEF RetentionInv, RetentionTypeOK, publication, UpdateAt, Rest
  <2> QED BY <2>1, <2>2 DEF RetentionInv, KeysGrow, PayloadKept, DeletesPurged, HeadCurrent,
         UploadsProtected, LeaseKept, publication, Purged, Readable, UpdateAt, Rest
<1>3. CASE Purgeable(k)
  <2>1. /\ snapshot' = [snapshot EXCEPT ![k].keys = "none", ![k].payload = "purged"]
        /\ ledger' = [ledger EXCEPT ![k] = Owed(@)] /\ CleanerGoes("deleting")
        /\ UNCHANGED <<head, update, graced, object, lease>>
    BY <1>3 DEF Purge
  <2>2. /\ snapshot[k] \in VersionRows /\ snapshot[k].age \in {"closing", "due"}
        /\ head # k /\ \A r \in SnapshotReaders : lease[r] # k
    BY <1>1, <1>3 DEF Purgeable, Due, Referenced, RetentionInv, RetentionTypeOK
  <2>3. /\ snapshot'[k] = [snapshot[k] EXCEPT !.keys = "none", !.payload = "purged"]
        /\ \A j \in Versions : j # k => snapshot'[j] = snapshot[j]
    BY <1>1, <2>1 DEF RetentionInv, RetentionTypeOK
  <2>4. /\ snapshot'[k].age = snapshot[k].age /\ snapshot'[k].payload = "purged"
        /\ snapshot'[k] \in VersionRows
    BY <2>2, <2>3 DEF VersionRows
  <2>5. k < update.key
    <3>1. k \in Nat /\ update.key \in Nat
      BY <1>1, KeysAreNumbers DEF RetentionInv, RetentionTypeOK
    <3>2. ~(k > update.key) /\ k # update.key
      BY <1>1, <2>2 DEF RetentionInv, KeysGrow
    <3> QED BY <3>1, <3>2
  <2>6. cleaner'.stage = "deleting" /\ cleaner'.key = k
        /\ cleaner' \in [stage : {"idle", "listed", "deleting", "deleted"}, key : Keys]
    BY <2>1 DEF CleanerGoes, RetentionInv, RetentionTypeOK
  <2>7. RetentionTypeOK'
    <3>1. snapshot' = [snapshot EXCEPT ![k] = snapshot'[k]]
      BY <1>1, <2>1, <2>3 DEF RetentionInv, RetentionTypeOK
    <3>2. snapshot' \in [Versions -> VersionRows]
      BY <2>4, <3>1 DEF RetentionInv, RetentionTypeOK
    <3>3. ledger' \in [Versions -> {"none", "pending", "deleted"}]
      BY <2>1 DEF RetentionInv, RetentionTypeOK, Owed
    <3> QED BY <1>1, <2>1, <2>6, <3>2, <3>3, KeysAreNumbers DEF RetentionInv, RetentionTypeOK, UpdateAt
  <2>8. KeysGrow'
    BY <2>1, <2>3, <2>4 DEF RetentionInv, KeysGrow
  <2>9. PayloadKept'
    BY <2>1, <2>3, <2>4, <2>5 DEF RetentionInv, PayloadKept, Purged, Readable
  <2>10. DeletesPurged'
    BY <1>1, <2>1, <2>3, <2>4, <2>6 DEF RetentionInv, RetentionTypeOK, DeletesPurged, Purged
  <2>11. HeadCurrent'
    BY <1>1, <2>1, <2>2, <2>3, <2>4 DEF RetentionInv, RetentionTypeOK, Keys, HeadCurrent, Purged, UpdateAt
  <2>12. LeaseKept' /\ UploadsProtected'
    BY <2>1, <2>2, <2>3 DEF RetentionInv, RetentionTypeOK, Keys, LeaseKept, NoLease, Purged,
                            UploadsProtected, UpdateAt
  <2> QED BY <2>7, <2>8, <2>9, <2>10, <2>11, <2>12 DEF RetentionInv
<1> QED BY <1>2, <1>3

\* Objects go only of versions that were purged, which are older than the update's.
LEMMA CleanerStep ==
  ASSUME RetentionInv, DeleteObjects \/ RecordDeletion \/ BreakOff
                       \/ \E k \in Versions : ListDue(k) \/ Resume(k)
  PROVE  RetentionInv'
<1>1. /\ UNCHANGED <<publication, lease>>
      /\ object' = object \/ (object' = object \ {cleaner.key} /\ Purged(cleaner.key))
      /\ ledger' = ledger \/ (ledger' = [ledger EXCEPT ![cleaner.key] = "deleted"] /\ Purged(cleaner.key))
      /\ cleaner.stage # "idle" => cleaner.key \in Versions
  <2>1. cleaner.stage # "idle" => cleaner.key \in Versions
    BY DEF RetentionInv, RetentionTypeOK, Keys
  <2>2. cleaner.stage \in {"deleting", "deleted"} => Purged(cleaner.key)
    BY DEF RetentionInv, DeletesPurged
  <2>3. CASE DeleteObjects
    BY <2>1, <2>2, <2>3 DEF DeleteObjects
  <2>4. CASE RecordDeletion
    BY <2>1, <2>2, <2>4 DEF RecordDeletion
  <2>5. CASE BreakOff
    BY <2>1, <2>5 DEF BreakOff
  <2>6. ASSUME NEW k \in Versions, ListDue(k) \/ Resume(k)
        PROVE  UNCHANGED <<publication, lease, object, ledger>>
    BY <2>6 DEF ListDue, Resume
  <2> QED BY <2>1, <2>3, <2>4, <2>5, <2>6
<1>2. /\ cleaner' \in [stage : {"idle", "listed", "deleting", "deleted"}, key : Keys]
      /\ cleaner'.stage # "idle" => cleaner'.key # 0
      /\ cleaner'.stage \in {"deleting", "deleted"} => Purged(cleaner'.key)
  <2>1. CASE DeleteObjects
    BY <2>1 DEF DeleteObjects, CleanerGoes, RetentionInv, RetentionTypeOK, DeletesPurged
  <2>2. CASE RecordDeletion \/ BreakOff
    BY <2>2, KeysAreNumbers DEF RecordDeletion, BreakOff, Rest
  <2>3. ASSUME NEW k \in Versions, ListDue(k) PROVE cleaner' = [stage |-> "listed", key |-> k]
    BY <2>3 DEF ListDue
  <2>4. ASSUME NEW k \in Versions, Resume(k)
        PROVE  cleaner' = [stage |-> "deleting", key |-> k] /\ Purged(k)
    BY <2>4 DEF Resume, RetentionInv, DeletesPurged
  <2> QED BY <2>1, <2>2, <2>3, <2>4, KeysAreNumbers
<1>3. RetentionTypeOK'
  BY <1>1, <1>2 DEF RetentionInv, RetentionTypeOK, publication, UpdateAt
<1>4. KeysGrow' /\ HeadCurrent' /\ LeaseKept'
  BY <1>1 DEF RetentionInv, KeysGrow, HeadCurrent, LeaseKept, publication, Purged, UpdateAt
<1>5. PayloadKept'
  BY <1>1 DEF RetentionInv, PayloadKept, publication, Purged, Readable
<1>6. DeletesPurged'
  BY <1>1, <1>2 DEF RetentionInv, RetentionTypeOK, DeletesPurged, publication, Purged
<1>7. UploadsProtected'
  <2>1. UpdateAt("uploaded") => update.key \in Versions /\ ~Purged(update.key)
    BY KeysAreNumbers DEF RetentionInv, RetentionTypeOK, UpdateAt, Keys, PayloadKept
  <2> QED BY <1>1, <2>1 DEF RetentionInv, UploadsProtected, publication, UpdateAt
<1> QED BY <1>3, <1>4, <1>5, <1>6, <1>7 DEF RetentionInv

-----------------------------------------------------------------------------
(* The theorems.                                                           *)

LEMMA RetentionInductive ==
  ASSUME ~Rewinds PROVE RetentionInv /\ [RetentionNext]_retentionVars => RetentionInv'
<1> SUFFICES ASSUME RetentionInv, [RetentionNext]_retentionVars PROVE RetentionInv'
  OBVIOUS
<1>1. CASE LookForView \/ Upload \/ SaveRow \/ PublishHead \/ FailRetrieval
  BY <1>1, RetrievalStep, SaveRowStep, PublishHeadStep
<1>2. CASE Purge \/ DeleteObjects \/ RecordDeletion \/ BreakOff
  BY <1>2, PurgeStep, CleanerStep
<1>3. ASSUME NEW k \in Versions, StartUpdate(k) \/ PassGrace(k) \/ ListDue(k) \/ Resume(k)
      PROVE  RetentionInv'
  BY <1>3, StartUpdateStep, PassGraceStep, CleanerStep
<1>4. ASSUME NEW r \in SnapshotReaders, EndLease(r) \/ \E k \in Versions : Lease(r, k)
      PROVE  RetentionInv'
  BY <1>4, LeaseStep
<1>5. CASE UNCHANGED retentionVars
  BY <1>5 DEF retentionVars, publication, RetentionInv, RetentionTypeOK, KeysGrow, PayloadKept,
              DeletesPurged, HeadCurrent, LeaseKept, UploadsProtected, Purged, Readable, UpdateAt
<1> QED BY <1>1, <1>2, <1>3, <1>4, <1>5 DEF RetentionNext

THEOREM RetentionInvariant == ~Rewinds /\ RetentionSpec => []RetentionInv
<1> SUFFICES ASSUME ~Rewinds PROVE RetentionSpec => []RetentionInv
  OBVIOUS
<1> QED BY RetentionInitially, RetentionInductive, PTL DEF RetentionSpec

\* Every reachable state of snapshots, clean-up and leases is well typed.
THEOREM RetentionTypeCorrect == ~Rewinds /\ RetentionSpec => []RetentionTypeOK
<1>1. RetentionInv => RetentionTypeOK
  BY DEF RetentionInv
<1> QED BY <1>1, RetentionInvariant, PTL

\* acquireSnapshotReadLease() and purgePublicSnapshotPayload(): what a reader has leased
\* is readable to the end, and the version just replaced can be leased for its grace.
THEOREM ReadersKeepTheirVersion == ~Rewinds /\ RetentionSpec => []StaysReadable
<1>1. RetentionInv => StaysReadable
  <2> SUFFICES ASSUME RetentionInv PROVE StaysReadable
    OBVIOUS
  <2>1. LeasedReadable
    BY DEF RetentionInv, RetentionTypeOK, Keys, LeaseKept, PayloadKept, LeasedReadable, NoLease
  <2>2. GraceKept
    BY DEF RetentionInv, HeadCurrent, GraceKept, Leasable
  <2> QED BY <2>1, <2>2 DEF StaysReadable
<1> QED BY <1>1, RetentionInvariant, PTL

\* savePublicSnapshot(): as long as the repository does not return to an older commit,
\* what was uploaded is there when the row is saved.
THEOREM UploadsStayProtected == ~Rewinds /\ RetentionSpec => []UploadsProtected
<1>1. RetentionInv => UploadsProtected
  BY DEF RetentionInv
<1> QED BY <1>1, RetentionInvariant, PTL
=============================================================================
