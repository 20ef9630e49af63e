----------------------- MODULE CapacityPermitsProofs -----------------------
(***************************************************************************)
(* Proofs about CapacityPermits for every set of calls, policy and lease.  *)
(* The properties of live holders assume that a due watchdog of a live     *)
(* process runs less than Margin late.                                     *)
(***************************************************************************)
EXTENDS SessionWrites, FiniteSetTheorems, TLAPS

-----------------------------------------------------------------------------
(* The operators on rows                                                     *)

\* Keep() returns rows; the rows kept differ at most in `behind`.
LEMMA KeepRows ==
  ASSUME NEW rs \in [Calls -> Row], NEW kept \in SUBSET Calls
  PROVE  /\ Keep(rs, kept) \in [Calls -> Row]
         /\ \A c \in kept : /\ Keep(rs, kept)[c].state = rs[c].state
                            /\ Keep(rs, kept)[c].expires = rs[c].expires
         /\ \A c \in Calls \ kept : Keep(rs, kept)[c] = NoRow
  BY ConstantsAssumption DEF Keep, Row, NoRow

\* prune() returns rows, adds none, and leaves every unexpired running row alone.
LEMMA PrunedRows ==
  ASSUME NEW rs \in [Calls -> Row]
  PROVE  /\ Pruned(rs) \in [Calls -> Row]
         /\ \A c \in Calls : Pruned(rs)[c].state \in {rs[c].state, "none"}
         /\ \A c \in Calls : rs[c].state = "running" /\ rs[c].expires > 0
              => Pruned(rs)[c].state = "running" /\ Pruned(rs)[c].expires = rs[c].expires
<1> DEFINE kept == {c \in Present(rs) : ~Stale(rs[c])}
<1>1. kept \in SUBSET Calls
  BY DEF Present
<1>2. /\ Keep(rs, kept) \in [Calls -> Row]
      /\ \A c \in kept : /\ Keep(rs, kept)[c].state = rs[c].state
                         /\ Keep(rs, kept)[c].expires = rs[c].expires
      /\ \A c \in Calls \ kept : Keep(rs, kept)[c] = NoRow
  BY <1>1, KeepRows
<1>3. \A c \in Calls : rs[c].state = "running" /\ rs[c].expires > 0 => c \in kept
  BY DEF Present, Stale
<1> QED
  BY <1>2, <1>3 DEF Pruned, NoRow

\* promote() returns rows, changes nothing but the state of the rows it grants,
\* and never grants beyond policy.running.
LEMMA PromotedRows ==
  ASSUME NEW rs \in [Calls -> Row], NEW granted \in SUBSET Calls,
         IsPromotion(rs, granted), Cardinality(InState(rs, "running")) <= Running
  PROVE  /\ Promoted(rs, granted) \in [Calls -> Row]
         /\ Cardinality(InState(Promoted(rs, granted), "running")) <= Running
         /\ Present(Promoted(rs, granted)) = Present(rs)
         /\ \A c \in Calls : Promoted(rs, granted)[c].expires = rs[c].expires
         /\ \A c \in Calls : rs[c].state = "running"
              => Promoted(rs, granted)[c].state = "running"
<1>1. Promoted(rs, granted) \in [Calls -> Row]
  BY DEF Promoted, Row
<1>2. \A c \in granted : Promoted(rs, granted)[c].state = "running" /\ rs[c].state = "waiting"
  BY DEF Promoted, Row, IsPromotion, InState
<1>3. \A c \in Calls \ granted : Promoted(rs, granted)[c] = rs[c]
  BY DEF Promoted
<1>4. InState(Promoted(rs, granted), "running") = InState(rs, "running") \cup granted
  BY <1>2, <1>3 DEF InState
<1>5. Present(Promoted(rs, granted)) = Present(rs)
  BY <1>2, <1>3 DEF Present
<1>6. \A c \in Calls : Promoted(rs, granted)[c].expires = rs[c].expires
  BY DEF Promoted, Row
<1>7. Cardinality(InState(rs, "running") \cup granted) <= Running
  <2>1. CASE granted = {}
    <3>1. InState(rs, "running") \cup granted = InState(rs, "running")
      BY <2>1
    <3> QED BY <3>1
  <2>2. CASE granted # {}
    BY <2>2 DEF IsPromotion
  <2> QED BY <2>1, <2>2
<1>8. \A c \in Calls : rs[c].state = "running" => Promoted(rs, granted)[c].state = "running"
  BY <1>2, <1>3
<1> QED BY <1>1, <1>4, <1>5, <1>6, <1>7, <1>8

\* A set of calls has at most as many members as a set of calls that contains it.
LEMMA CallSubset ==
  ASSUME NEW S, NEW T \in SUBSET Calls, S \subseteq T
  PROVE  /\ IsFiniteSet(S) /\ IsFiniteSet(T)
         /\ Cardinality(S) \in Nat /\ Cardinality(T) \in Nat
         /\ Cardinality(S) <= Cardinality(T)
<1>1. IsFiniteSet(T)
  BY ConstantsAssumption, FS_Subset
<1>2. IsFiniteSet(S) /\ Cardinality(S) <= Cardinality(T)
  BY <1>1, FS_Subset
<1> QED
  BY <1>1, <1>2, FS_CardinalityType

-----------------------------------------------------------------------------
(* Type correctness                                                          *)

\* Init, one case per action, and every variable keeps its type.
LEMMA InitType == Init => TypeOK
  BY ConstantsAssumption DEF Init, TypeOK, Row, NoRow

LEMMA CommitAdmissionType ==
  ASSUME TypeOK, NEW c \in Calls, CommitAdmission(c)
  PROVE  TypeOK'
<1>1. PICK granted \in SUBSET InState(Pruned(rows), "waiting") :
        LET rs == Promoted(Pruned(rows), granted) IN
          IF Refused(rs, c)
          THEN Settle(c, "admit", "refused") /\ UNCHANGED rows
          ELSE /\ Settle(c, "admit", NewRow(rs).state)
               /\ rows' = [rs EXCEPT ![c] = NewRow(rs)]
  BY DEF CommitAdmission
<1> DEFINE rs == Promoted(Pruned(rows), granted)
<1>2. Pruned(rows) \in [Calls -> Row]
  BY PrunedRows DEF TypeOK
<1>3. rs \in [Calls -> Row]
  BY <1>2 DEF Promoted, Row
<1>4. NewRow(rs) \in Row /\ NewRow(rs).state \in {"waiting", "running"}
  BY ConstantsAssumption DEF NewRow, Row, Present
<1>5. rows' \in [Calls -> Row]
  BY <1>1, <1>3, <1>4 DEF TypeOK
<1>6. \E answer \in {"refused", "waiting", "running"} : Settle(c, "admit", answer)
  BY <1>1, <1>4
<1> QED
  BY <1>5, <1>6 DEF Settle, TypeOK

\* A poll or a renewal extends the lease of the call's own row and nothing else.
LEMMA ExtendedRows ==
  ASSUME TypeOK, NEW c \in Calls
  PROVE  /\ Extended(c) \in [Calls -> Row]
         /\ Extended(c)[c].expires = Lease
         /\ \A d \in Calls : /\ Extended(c)[d].state = rows[d].state
                             /\ Extended(c)[d].deadline = rows[d].deadline
                             /\ Extended(c)[d].expires >= rows[d].expires
<1>1. rows[c] \in Row /\ \A d \in Calls : rows[d].expires \in 0..Lease
  BY DEF TypeOK, Row
<1>2. /\ [rows[c] EXCEPT !.expires = Lease] \in Row
      /\ [rows[c] EXCEPT !.expires = Lease].expires = Lease
      /\ [rows[c] EXCEPT !.expires = Lease].state = rows[c].state
      /\ [rows[c] EXCEPT !.expires = Lease].deadline = rows[c].deadline
  BY <1>1, ConstantsAssumption DEF Row
<1>3. \A d \in Calls : Extended(c)[d] = IF d = c THEN [rows[c] EXCEPT !.expires = Lease] ELSE rows[d]
  BY DEF TypeOK, Extended
<1>4. Extended(c) \in [Calls -> Row]
  BY <1>2 DEF TypeOK, Extended
<1>5. \A d \in Calls : Extended(c)[d].expires >= rows[d].expires
  <2> TAKE d \in Calls
  <2>1. CASE d = c
    <3>1. Extended(c)[d].expires = Lease
      BY <1>2, <1>3, <2>1
    <3> QED BY <1>1, <3>1, ConstantsAssumption
  <2>2. CASE d # c
    <3>1. Extended(c)[d].expires = rows[d].expires
      BY <1>3, <2>2
    <3> QED BY <1>1, <3>1, ConstantsAssumption
  <2> QED BY <2>1, <2>2
<1> QED
  BY <1>2, <1>3, <1>4, <1>5

LEMMA CommitPollType ==
  ASSUME TypeOK, NEW c \in Calls, CommitPoll(c)
  PROVE  TypeOK'
<1>1. CASE Settle(c, "poll", "refused") /\ UNCHANGED rows
  BY <1>1 DEF Settle, TypeOK
<1>2. ASSUME NEW granted \in SUBSET InState(Pruned(Extended(c)), "waiting"),
             rows[c].state # "none", ~Stale(rows[c]),
             Settle(c, "poll", Promoted(Pruned(Extended(c)), granted)[c].state),
             rows' = Promoted(Pruned(Extended(c)), granted)
      PROVE  TypeOK'
  <2>1. Extended(c) \in [Calls -> Row]
    BY ExtendedRows
  <2>2. Pruned(Extended(c)) \in [Calls -> Row]
    BY <2>1, PrunedRows
  <2>3. rows' \in [Calls -> Row]
    BY <1>2, <2>2 DEF Promoted, Row
  <2>4. Extended(c)[c].state \in {"waiting", "running"}
        /\ Extended(c)[c].expires > 0 /\ ~Stale(Extended(c)[c])
    BY <1>2, ExtendedRows, ConstantsAssumption DEF TypeOK, Row, Stale
  <2>5. Pruned(Extended(c))[c].state \in {"waiting", "running"}
    <3>1. c \in {d \in Present(Extended(c)) : ~Stale(Extended(c)[d])}
      BY <2>4 DEF Present
    <3>2. {d \in Present(Extended(c)) : ~Stale(Extended(c)[d])} \in SUBSET Calls
      BY DEF Present
    <3> QED BY <2>1, <2>4, <3>1, <3>2, KeepRows DEF Pruned
  <2>6. Promoted(Pruned(Extended(c)), granted)[c].state \in {"waiting", "running"}
    BY <2>2, <2>5 DEF Promoted, Row
  <2> QED
    BY <1>2, <2>3, <2>6 DEF Settle, TypeOK
<1> QED
  BY <1>1, <1>2 DEF CommitPoll

LEMMA StoreStepType ==
  ASSUME TypeOK, NEW c \in Calls, StoreStep(c)
  PROVE  TypeOK'
<1>1. CASE CommitAdmission(c)
  BY <1>1, CommitAdmissionType
<1>2. CASE CommitPoll(c)
  BY <1>2, CommitPollType
<1>3. CASE CommitRenewal(c)
  <2>1. Extended(c) \in [Calls -> Row]
    BY ExtendedRows
  <2> QED BY <1>3, <2>1 DEF CommitRenewal, Settle, TypeOK
<1>4. CASE CommitRelease(c)
  <2>1. Present(rows) \ {c} \in SUBSET Calls
    BY DEF Present
  <2>2. Keep(rows, Present(rows) \ {c}) \in [Calls -> Row]
    BY <2>1, KeepRows DEF TypeOK
  <2> QED BY <1>4, <2>2 DEF CommitRelease, Settle, TypeOK
<1>5. CASE DropChange(c)
  BY <1>5 DEF DropChange, TypeOK
<1> QED
  BY <1>1, <1>2, <1>3, <1>4, <1>5 DEF StoreStep

LEMMA CallStepType ==
  ASSUME TypeOK, NEW c \in Calls, CallStep(c)
  PROVE  TypeOK'
<1> USE ConstantsAssumption DEF TypeOK, Enter, Send, StartRelease
<1>1. CASE Acquire(c)
  BY <1>1 DEF Acquire
<1>2. CASE Queued(c)
  BY <1>2 DEF Queued
<1>3. CASE Poll(c)
  BY <1>3 DEF Poll
<1>4. CASE Granted(c)
  BY <1>4 DEF Granted
<1>5. CASE AdmissionFails(c)
  BY <1>5 DEF AdmissionFails
<1>6. CASE WaitFails(c)
  BY <1>6 DEF WaitFails
<1>7. CASE StartRenewal(c)
  BY <1>7 DEF StartRenewal
<1>8. CASE Renewed(c)
  BY <1>8 DEF Renewed
<1>9. CASE Abort(c) \/ Watchdog(c)
  BY <1>9 DEF Abort, Watchdog
<1>10. CASE Release(c)
  BY <1>10 DEF Release
<1>11. CASE Released(c)
  BY <1>11 DEF Released
<1>12. CASE Crash(c)
  BY <1>12 DEF Crash
<1> QED
  BY <1>1, <1>2, <1>3, <1>4, <1>5, <1>6, <1>7, <1>8, <1>9, <1>10, <1>11, <1>12
  DEF CallStep

\* A tick counts the rows down and the calls up, within their bounds.
LEMMA AgedRow ==
  ASSUME NEW row \in Row
  PROVE  /\ Aged(row) \in Row
         /\ Aged(row).state = row.state
         /\ Aged(row).expires >= row.expires - 1
<1>1. row.expires \in 0..Lease /\ row.deadline \in 0..WaitTime
  BY DEF Row
<1>2. /\ Less(row.expires) \in 0..Lease
      /\ Less(row.expires) >= row.expires - 1
      /\ Less(row.deadline) \in 0..WaitTime
  BY <1>1, ConstantsAssumption DEF Less
<1> QED
  BY <1>2 DEF Aged, Row

LEMMA TickRows ==
  ASSUME TypeOK, Tick
  PROVE  /\ rows' \in [Calls -> Row]
         /\ \A c \in Calls : /\ rows'[c].state = rows[c].state
                             /\ rows'[c].expires >= rows[c].expires - 1
  BY AgedRow DEF Tick, TypeOK

LEMMA TickType ==
  ASSUME TypeOK, Tick
  PROVE  TypeOK'
<1>1. \A n \in 0..Lease : More(n) \in 0..Lease
  BY ConstantsAssumption DEF More
<1>2. since' \in [Calls -> 0..Lease] /\ armed' \in [Calls -> 0..Lease]
  BY <1>1 DEF Tick, TypeOK
<1>3. UNCHANGED <<phase, pending, reply>>
  BY DEF Tick
<1> QED
  BY <1>2, <1>3, TickRows DEF TypeOK

\* Every step keeps the types of the rows and of the calls.
THEOREM TypeCorrect == Spec => []TypeOK
<1>1. Init => TypeOK
  BY InitType
<1>2. TypeOK /\ [Next]_vars => TypeOK'
  <2>1. CASE UNCHANGED vars
    BY <2>1 DEF vars, TypeOK
  <2> QED
    BY <2>1, TickType, StoreStepType, CallStepType DEF Next
<1> QED
  BY <1>1, <1>2, PTL DEF Spec

-----------------------------------------------------------------------------
(* The lease covers the holder                                               *)

\* A due timer runs before the lease it precedes by Margin has run out.
Punctual == Lag < Margin

\* An answer still to be delivered speaks of a row that lasts Lease from `since`.
AnswerCovered ==
  \A c \in Calls :
    since[c] < Lease
      => /\ phase[c] \in {"admitting", "polling"} /\ reply[c] = "running"
              => rows[c].state = "running" /\ rows[c].expires >= Lease - since[c]
         /\ phase[c] = "holding" /\ reply[c] = "renewed"
              => rows[c].expires >= Lease - since[c]

\* Which changes of a call may still be on their way in each phase.
ChangesOrdered ==
  \A c \in Calls :
    /\ phase[c] = "idle" => reply[c] = "none"
    /\ "admit" \in pending[c] => phase[c] \in {"admitting", "idle"} /\ reply[c] = "none"
    /\ "release" \in pending[c] => phase[c] \in {"releasing", "idle"}

RunningBounded == Cardinality(InState(rows, "running")) <= Running

SessionRows ==
  Exclusive => \A c, d \in Present(rows) : ResourceOf[c] = ResourceOf[d] => c = d

IInv ==
  TypeOK /\ HolderCovered /\ AnswerCovered /\ ChangesOrdered /\ RunningBounded /\ SessionRows

\* Whatever prune and promote do, they keep the bound, the sessions and live rows.
LEMMA PrunedPromoted ==
  ASSUME NEW rs \in [Calls -> Row], NEW granted \in SUBSET InState(Pruned(rs), "waiting"),
         IsPromotion(Pruned(rs), granted), Cardinality(InState(rs, "running")) <= Running
  PROVE  LET next == Promoted(Pruned(rs), granted) IN
         /\ next \in [Calls -> Row]
         /\ Cardinality(InState(next, "running")) <= Running
         /\ Present(next) \subseteq Present(rs)
         /\ \A c \in Calls : rs[c].state = "running" /\ rs[c].expires > 0
              => next[c].state = "running" /\ next[c].expires = rs[c].expires
<1>1. /\ Pruned(rs) \in [Calls -> Row]
      /\ \A c \in Calls : Pruned(rs)[c].state \in {rs[c].state, "none"}
      /\ \A c \in Calls : rs[c].state = "running" /\ rs[c].expires > 0
           => Pruned(rs)[c].state = "running" /\ Pruned(rs)[c].expires = rs[c].expires
  BY PrunedRows
<1>2. InState(Pruned(rs), "running") \subseteq InState(rs, "running")
  BY <1>1 DEF InState
<1>3. InState(rs, "running") \in SUBSET Calls /\ granted \in SUBSET Calls
  BY DEF InState
<1>4. Cardinality(InState(Pruned(rs), "running")) <= Running
  BY <1>2, <1>3, CallSubset, ConstantsAssumption
<1>5. Present(Pruned(rs)) \subseteq Present(rs)
  BY <1>1 DEF Present
<1> QED
  BY <1>1, <1>3, <1>4, <1>5, PromotedRows

\* What a commit does to the rows, seen from every call d.
LEMMA CommitRows ==
  ASSUME IInv, NEW c \in Calls, StoreStep(c)
  PROVE  /\ RunningBounded'
         /\ SessionRows'
         /\ \A d \in Calls :
              /\ rows[d].state = "running" /\ rows[d].expires > 0
              /\ d = c => pending[c] \cap {"admit", "release"} = {}
              => rows'[d].state = "running" /\ rows'[d].expires >= rows[d].expires
<1>0. /\ rows \in [Calls -> Row]
      /\ \A d \in Calls : rows[d].expires \in 0..Lease
  BY DEF IInv, TypeOK, Row
<1>1. CASE UNCHANGED rows
  BY <1>0, <1>1 DEF IInv, RunningBounded, SessionRows, InState, Present
<1>2. CASE CommitAdmission(c)
  <2>1. PICK granted \in SUBSET InState(Pruned(rows), "waiting") :
          LET rs == Promoted(Pruned(rows), granted) IN
          /\ IsPromotion(Pruned(rows), granted)
          /\ IF Refused(rs, c)
             THEN Settle(c, "admit", "refused") /\ UNCHANGED rows
             ELSE /\ Settle(c, "admit", NewRow(rs).state)
                  /\ rows' = [rs EXCEPT ![c] = NewRow(rs)]
    BY <1>2 DEF CommitAdmission
  <2> DEFINE rs == Promoted(Pruned(rows), granted)
  <2>2. /\ rs \in [Calls -> Row]
        /\ Cardinality(InState(rs, "running")) <= Running
        /\ Present(rs) \subseteq Present(rows)
        /\ \A d \in Calls : rows[d].state = "running" /\ rows[d].expires > 0
             => rs[d].state = "running" /\ rs[d].expires = rows[d].expires
    BY <2>1, PrunedPromoted DEF IInv, TypeOK, RunningBounded
  <2> HIDE DEF rs
  <2>3. CASE UNCHANGED rows
    BY <2>3, <1>1
  <2>4. CASE ~Refused(rs, c) /\ rows' = [rs EXCEPT ![c] = NewRow(rs)]
    <3>1. \A d \in Calls \ {c} : rows'[d] = rs[d]
      BY <2>2, <2>4
    <3>2. rows'[c].state = IF Busy(rs) THEN "waiting" ELSE "running"
      BY <2>2, <2>4 DEF NewRow
    <3>3. RunningBounded'
      <4>1. InState(rs, "running") \in SUBSET Calls
        BY DEF InState
      <4>2. /\ IsFiniteSet(InState(rs, "running"))
            /\ Cardinality(InState(rs, "running")) \in Nat
        BY <4>1, CallSubset
      <4>3. CASE Busy(rs)
        <5>1. InState(rows', "running") \subseteq InState(rs, "running")
          BY <3>1, <3>2, <4>3 DEF InState
        <5>2. Cardinality(InState(rows', "running")) <= Cardinality(InState(rs, "running"))
          BY <4>1, <5>1, CallSubset
        <5>3. Cardinality(InState(rows', "running")) \in Nat
          BY <4>1, <5>1, CallSubset
        <5> QED BY <2>2, <4>2, <5>2, <5>3, ConstantsAssumption DEF RunningBounded
      <4>4. CASE ~Busy(rs)
        <5>1. InState(rows', "running") \subseteq InState(rs, "running") \cup {c}
          BY <3>1 DEF InState
        <5>2. InState(rs, "running") \cup {c} \in SUBSET Calls
          BY <4>1
        <5>3. /\ Cardinality(InState(rows', "running"))
                   <= Cardinality(InState(rs, "running") \cup {c})
              /\ Cardinality(InState(rows', "running")) \in Nat
              /\ Cardinality(InState(rs, "running") \cup {c}) \in Nat
          BY <5>1, <5>2, CallSubset
        <5>4. Cardinality(InState(rs, "running") \cup {c})
                <= Cardinality(InState(rs, "running")) + 1
          BY <4>2, FS_AddElement
        <5>5. Cardinality(InState(rs, "running")) < Running
          BY <4>2, <4>4, ConstantsAssumption DEF Busy
        <5> QED BY <4>2, <5>3, <5>4, <5>5, ConstantsAssumption DEF RunningBounded
      <4> QED BY <4>3, <4>4
    <3>4. SessionRows'
      <4>1. Present(rows') \subseteq Present(rs) \cup {c}
        BY <3>1 DEF Present
      <4>2. Exclusive => \A d \in Present(rs) : ResourceOf[d] # ResourceOf[c]
        BY <2>4 DEF Refused, SessionBusy
      <4> QED BY <2>2, <4>1, <4>2 DEF IInv, SessionRows
    <3>5. "admit" \in pending[c]
      BY <1>2 DEF CommitAdmission
    <3> QED BY <1>0, <2>2, <3>1, <3>3, <3>4, <3>5
  <2> QED BY <2>1, <2>3, <2>4 DEF rs
<1>3. CASE CommitPoll(c)
  <2>1. CASE UNCHANGED rows
    BY <2>1, <1>1
  <2>2. ASSUME NEW granted \in SUBSET InState(Pruned(Extended(c)), "waiting"),
               IsPromotion(Pruned(Extended(c)), granted),
               rows' = Promoted(Pruned(Extended(c)), granted)
        PROVE  /\ RunningBounded'
               /\ SessionRows'
               /\ \A d \in Calls : rows[d].state = "running" /\ rows[d].expires > 0
                    => rows'[d].state = "running" /\ rows'[d].expires >= rows[d].expires
    <3>1. /\ Extended(c) \in [Calls -> Row]
          /\ \A d \in Calls : /\ Extended(c)[d].state = rows[d].state
                              /\ Extended(c)[d].expires >= rows[d].expires
      BY ExtendedRows DEF IInv
    <3>2. /\ InState(Extended(c), "running") = InState(rows, "running")
          /\ Present(Extended(c)) = Present(rows)
      BY <3>1 DEF InState, Present
    <3>3. /\ Cardinality(InState(rows', "running")) <= Running
          /\ Present(rows') \subseteq Present(Extended(c))
          /\ \A d \in Calls : Extended(c)[d].state = "running" /\ Extended(c)[d].expires > 0
               => rows'[d].state = "running" /\ rows'[d].expires = Extended(c)[d].expires
      BY <2>2, <3>1, <3>2, PrunedPromoted DEF IInv, RunningBounded
    <3>4. \A d \in Calls : rows[d].state = "running" /\ rows[d].expires > 0
            => rows'[d].state = "running" /\ rows'[d].expires >= rows[d].expires
      <4>1. TAKE d \in Calls
      <4>2. HAVE rows[d].state = "running" /\ rows[d].expires > 0
      <4>3. Extended(c)[d].state = "running" /\ Extended(c)[d].expires > 0
        <5>1. rows[d].expires \in Int /\ Extended(c)[d].expires \in Int
          BY <1>0, <3>1, ConstantsAssumption DEF Row
        <5> QED BY <3>1, <4>2, <5>1
      <4> QED BY <3>1, <3>3, <4>3
    <3> QED BY <3>2, <3>3, <3>4 DEF RunningBounded, IInv, SessionRows
  <2> QED BY <1>3, <2>1, <2>2 DEF CommitPoll
<1>4. CASE CommitRenewal(c)
  <2>1. CASE UNCHANGED rows
    BY <2>1, <1>1
  <2>2. CASE rows' = Extended(c)
    <3>1. \A d \in Calls : /\ rows'[d].state = rows[d].state
                          /\ rows'[d].expires >= rows[d].expires
      BY <2>2, ExtendedRows DEF IInv
    <3>2. /\ InState(rows', "running") = InState(rows, "running")
          /\ Present(rows') = Present(rows)
      BY <3>1 DEF InState, Present
    <3> QED BY <3>1, <3>2 DEF RunningBounded, IInv, SessionRows
  <2> QED BY <1>4, <2>1, <2>2 DEF CommitRenewal
<1>5. CASE CommitRelease(c)
  <2> DEFINE kept == Present(rows) \ {c}
  <2>1. kept \in SUBSET Calls
    BY DEF Present
  <2>2. /\ \A d \in kept : /\ rows'[d].state = rows[d].state
                          /\ rows'[d].expires = rows[d].expires
        /\ \A d \in Calls \ kept : rows'[d] = NoRow
    BY <1>0, <1>5, <2>1, KeepRows DEF CommitRelease
  <2>3. InState(rows', "running") \subseteq InState(rows, "running")
    BY <2>2 DEF InState, NoRow, Present
  <2>4. Present(rows') \subseteq Present(rows)
    BY <2>2 DEF NoRow, Present
  <2>5. RunningBounded'
    <3>1. InState(rows, "running") \in SUBSET Calls
      BY DEF InState
    <3>2. /\ Cardinality(InState(rows', "running")) <= Cardinality(InState(rows, "running"))
          /\ Cardinality(InState(rows', "running")) \in Nat
          /\ Cardinality(InState(rows, "running")) \in Nat
      BY <2>3, <3>1, CallSubset
    <3> QED BY <3>2, ConstantsAssumption DEF IInv, RunningBounded
  <2>6. SessionRows'
    BY <2>4 DEF IInv, SessionRows
  <2>7. "release" \in pending[c]
    BY <1>5 DEF CommitRelease
  <2>8. \A d \in Calls : rows[d].state = "running" /\ d # c => d \in kept
    BY DEF Present
  <2> QED BY <1>0, <2>2, <2>5, <2>6, <2>7, <2>8
<1>6. CASE DropChange(c)
  BY <1>1, <1>6 DEF DropChange
<1> QED
  BY <1>2, <1>3, <1>4, <1>5, <1>6 DEF StoreStep

\* A change settles for its own call only, and answers a call that awaits it.
LEMMA Settled ==
  ASSUME TypeOK, ChangesOrdered, NEW c \in Calls, StoreStep(c)
  PROVE  /\ UNCHANGED <<phase, since, armed>>
         /\ \A d \in Calls : pending'[d] \subseteq pending[d]
         /\ \A d \in Calls : d # c \/ phase[d] = "idle" => reply'[d] = reply[d]
         /\ "admit" \in pending'[c] => reply'[c] = reply[c]
<1>1. ASSUME NEW op \in {"admit", "poll", "renew", "release"}, NEW answer,
             op \in pending[c], Settle(c, op, answer)
      PROVE  /\ UNCHANGED <<phase, since, armed>>
             /\ \A d \in Calls : pending'[d] \subseteq pending[d]
             /\ \A d \in Calls : d # c \/ phase[d] = "idle" => reply'[d] = reply[d]
             /\ "admit" \in pending'[c] => reply'[c] = reply[c]
  BY <1>1 DEF Settle, Awaits, TypeOK, ChangesOrdered
<1>2. CASE CommitAdmission(c)
  BY <1>1, <1>2 DEF CommitAdmission
<1>3. CASE CommitPoll(c)
  BY <1>1, <1>3 DEF CommitPoll
<1>4. CASE CommitRenewal(c)
  BY <1>1, <1>4 DEF CommitRenewal
<1>5. CASE CommitRelease(c)
  BY <1>1, <1>5 DEF CommitRelease
<1>6. CASE DropChange(c)
  BY <1>6 DEF DropChange, TypeOK
<1> QED
  BY <1>2, <1>3, <1>4, <1>5, <1>6 DEF StoreStep

\* A grant or a renewal is answered only with the row granted and extended.
LEMMA AnswerTrue ==
  ASSUME IInv, NEW c \in Calls, StoreStep(c)
  PROVE  \/ reply'[c] = reply[c]
         \/ /\ phase[c] \in {"admitting", "polling"} /\ reply'[c] = "running"
                 => rows'[c].state = "running" /\ rows'[c].expires = Lease
            /\ phase[c] = "holding" /\ reply'[c] = "renewed"
                 => rows'[c].expires = Lease
<1>0. TypeOK
  BY DEF IInv
<1>1. CASE CommitAdmission(c)
  <2>1. PICK granted \in SUBSET InState(Pruned(rows), "waiting") :
          LET rs == Promoted(Pruned(rows), granted) IN
          IF Refused(rs, c)
          THEN Settle(c, "admit", "refused") /\ UNCHANGED rows
          ELSE /\ Settle(c, "admit", NewRow(rs).state)
               /\ rows' = [rs EXCEPT ![c] = NewRow(rs)]
    BY <1>1 DEF CommitAdmission
  <2> DEFINE rs == Promoted(Pruned(rows), granted)
  <2>2. DOMAIN rs = Calls
    BY DEF Promoted
  <2> HIDE DEF rs
  <2>3. CASE Settle(c, "admit", "refused")
    BY <1>0, <2>3 DEF Settle, Awaits, TypeOK
  <2>4. CASE /\ Settle(c, "admit", NewRow(rs).state)
             /\ rows' = [rs EXCEPT ![c] = NewRow(rs)]
    <3>1. rows'[c] = NewRow(rs)
      BY <2>2, <2>4
    <3>2. /\ NewRow(rs).expires = Lease
          /\ NewRow(rs).state \in {"waiting", "running"}
      BY DEF NewRow
    <3>3. reply'[c] = IF Awaits(c, "admit") THEN NewRow(rs).state ELSE reply[c]
      BY <1>0, <2>4 DEF Settle, TypeOK
    <3> QED BY <3>1, <3>2, <3>3
  <2> QED BY <2>1, <2>3, <2>4 DEF rs
<1>2. CASE CommitPoll(c)
  <2>1. CASE Settle(c, "poll", "refused")
    BY <1>0, <2>1 DEF Settle, Awaits, TypeOK
  <2>2. ASSUME NEW granted \in SUBSET InState(Pruned(Extended(c)), "waiting"),
               rows[c].state # "none", ~Stale(rows[c]),
               Settle(c, "poll", Promoted(Pruned(Extended(c)), granted)[c].state),
               rows' = Promoted(Pruned(Extended(c)), granted)
        PROVE  \/ reply'[c] = reply[c]
               \/ rows'[c].state = reply'[c] /\ rows'[c].expires = Lease /\ phase[c] = "polling"
    <3> DEFINE kept == {d \in Present(Extended(c)) : ~Stale(Extended(c)[d])}
    <3>1. c \in kept /\ kept \in SUBSET Calls
      <4>1. Extended(c)[c].state # "none" /\ ~Stale(Extended(c)[c])
        BY <1>0, <2>2, ExtendedRows, ConstantsAssumption DEF Stale
      <4> QED BY <4>1 DEF Present
    <3>2. Pruned(Extended(c))[c].expires = Lease /\ Pruned(Extended(c)) \in [Calls -> Row]
      BY <1>0, <3>1, ExtendedRows, KeepRows DEF Pruned
    <3>3. rows'[c].expires = Lease
      BY <2>2, <3>2 DEF Promoted, Row
    <3>4. reply'[c] = IF Awaits(c, "poll") THEN rows'[c].state ELSE reply[c]
      BY <1>0, <2>2 DEF Settle, TypeOK
    <3> QED BY <3>3, <3>4 DEF Awaits
  <2> QED BY <1>2, <2>1, <2>2 DEF CommitPoll
<1>3. CASE CommitRenewal(c)
  <2>1. CASE Settle(c, "renew", "refused")
    BY <1>0, <2>1 DEF Settle, Awaits, TypeOK
  <2>2. CASE Settle(c, "renew", "renewed") /\ rows' = Extended(c)
    <3>1. rows'[c].expires = Lease
      BY <1>0, <2>2, ExtendedRows
    <3> QED BY <1>0, <2>2, <3>1 DEF Settle, Awaits, TypeOK
  <2> QED BY <1>3, <2>1, <2>2 DEF CommitRenewal
<1>4. CASE CommitRelease(c)
  BY <1>0, <1>4 DEF CommitRelease, Settle, Awaits, TypeOK
<1>5. CASE DropChange(c)
  BY <1>5 DEF DropChange
<1> QED
  BY <1>1, <1>2, <1>3, <1>4, <1>5 DEF StoreStep

LEMMA StoreStepInv ==
  ASSUME IInv, NEW c \in Calls, StoreStep(c)
  PROVE  IInv'
<1>1. TypeOK'
  BY StoreStepType DEF IInv
<1>2. /\ UNCHANGED <<phase, since, armed>>
      /\ \A d \in Calls : pending'[d] \subseteq pending[d]
      /\ \A d \in Calls : d # c \/ phase[d] = "idle" => reply'[d] = reply[d]
      /\ "admit" \in pending'[c] => reply'[c] = reply[c]
  BY Settled DEF IInv
<1>3. /\ RunningBounded'
      /\ SessionRows'
      /\ \A d \in Calls :
           /\ rows[d].state = "running" /\ rows[d].expires > 0
           /\ d = c => pending[c] \cap {"admit", "release"} = {}
           => rows'[d].state = "running" /\ rows'[d].expires >= rows[d].expires
  BY CommitRows
<1>4. \A d \in Calls : /\ rows[d].expires \in Int /\ rows'[d].expires \in Int
                      /\ since[d] \in Int /\ armed[d] \in Int /\ Lease \in Int
                      /\ since[d] >= 0
  BY <1>1, ConstantsAssumption DEF IInv, TypeOK, Row
<1>5. ChangesOrdered'
  BY <1>2 DEF IInv, ChangesOrdered
<1>6. HolderCovered'
  <2> SUFFICES ASSUME NEW d \in Calls, phase[d] = "holding"
               PROVE  /\ rows'[d].state = "running"
                      /\ armed[d] < Lease
                      /\ rows'[d].expires >= Lease - armed[d]
    BY <1>2 DEF HolderCovered, Holders
  <2>1. /\ rows[d].state = "running" /\ armed[d] < Lease
        /\ rows[d].expires >= Lease - armed[d]
    BY DEF IInv, HolderCovered, Holders
  <2>2. pending[d] \cap {"admit", "release"} = {}
    BY DEF IInv, ChangesOrdered
  <2>3. rows[d].expires > 0
    BY <1>4, <2>1
  <2>4. rows'[d].state = "running" /\ rows'[d].expires >= rows[d].expires
    BY <1>3, <2>1, <2>2, <2>3
  <2> QED BY <1>4, <2>1, <2>4
<1>7. AnswerCovered'
  <2> SUFFICES ASSUME NEW d \in Calls, since[d] < Lease
               PROVE  /\ phase[d] \in {"admitting", "polling"} /\ reply'[d] = "running"
                           => rows'[d].state = "running" /\ rows'[d].expires >= Lease - since[d]
                      /\ phase[d] = "holding" /\ reply'[d] = "renewed"
                           => rows'[d].expires >= Lease - since[d]
    BY <1>2 DEF AnswerCovered
  <2>1. CASE reply'[d] = reply[d]
    <3>1. ASSUME phase[d] \in {"admitting", "polling"}, reply[d] = "running"
          PROVE  rows'[d].state = "running" /\ rows'[d].expires >= Lease - since[d]
      <4>1. rows[d].state = "running" /\ rows[d].expires >= Lease - since[d]
        BY <3>1 DEF IInv, AnswerCovered
      <4>2. pending[d] \cap {"admit", "release"} = {}
        BY <3>1 DEF IInv, ChangesOrdered
      <4>3. rows[d].expires > 0
        BY <1>4, <4>1
      <4>4. rows'[d].state = "running" /\ rows'[d].expires >= rows[d].expires
        BY <1>3, <4>1, <4>2, <4>3
      <4> QED BY <1>4, <4>1, <4>4
    <3>2. ASSUME phase[d] = "holding", reply[d] = "renewed"
          PROVE  rows'[d].expires >= Lease - since[d]
      <4>1. rows[d].state = "running" /\ rows[d].expires >= Lease - since[d]
        BY <3>2 DEF IInv, AnswerCovered, HolderCovered, Holders
      <4>2. pending[d] \cap {"admit", "release"} = {}
        BY <3>2 DEF IInv, ChangesOrdered
      <4>3. rows[d].expires > 0
        BY <1>4, <4>1
      <4>4. rows'[d].expires >= rows[d].expires
        BY <1>3, <4>1, <4>2, <4>3
      <4> QED BY <1>4, <4>1, <4>4
    <3> QED BY <2>1, <3>1, <3>2
  <2>2. CASE reply'[d] # reply[d]
    <3>1. d = c
      BY <1>2, <2>2
    <3> QED BY <1>4, <2>2, <3>1, AnswerTrue
  <2> QED BY <2>1, <2>2
<1> QED
  BY <1>1, <1>3, <1>5, <1>6, <1>7 DEF IInv

\* The calls themselves never touch the rows.
LEMMA CallStepInv ==
  ASSUME IInv, NEW c \in Calls, CallStep(c)
  PROVE  IInv'
<1>1. TypeOK'
  BY CallStepType DEF IInv
<1>2. UNCHANGED rows
  BY DEF CallStep, Acquire, Queued, Poll, Granted, AdmissionFails, WaitFails, StartRenewal,
         Renewed, Abort, Watchdog, Release, Released, Crash, StartRelease
<1>3. RunningBounded' /\ SessionRows'
  BY <1>2 DEF IInv, RunningBounded, SessionRows, InState, Present
<1>4. ConstantsAssumption /\ \A d \in Calls : since[d] \in 0..Lease /\ armed[d] \in 0..Lease
  BY ConstantsAssumption DEF IInv, TypeOK
<1> USE <1>1, <1>2, <1>3, <1>4 DEF IInv, TypeOK, HolderCovered, Holders, AnswerCovered, ChangesOrdered,
                       Enter, Send, StartRelease
<1>5. CASE Acquire(c)
  BY <1>5 DEF Acquire
<1>6. CASE Queued(c)
  BY <1>6 DEF Queued
<1>7. CASE Poll(c)
  BY <1>7 DEF Poll
<1>8. CASE Granted(c)
  BY <1>8 DEF Granted, Exhausted
<1>9. CASE AdmissionFails(c)
  BY <1>9 DEF AdmissionFails
<1>10. CASE WaitFails(c)
  BY <1>10 DEF WaitFails
<1>11. CASE StartRenewal(c)
  BY <1>11 DEF StartRenewal
<1>12. CASE Renewed(c)
  BY <1>12 DEF Renewed, Exhausted
<1>13. CASE Abort(c) \/ Watchdog(c)
  BY <1>13 DEF Abort, Watchdog
<1>14. CASE Release(c)
  BY <1>14 DEF Release
<1>15. CASE Released(c)
  BY <1>15 DEF Released
<1>16. CASE Crash(c)
  BY <1>16 DEF Crash
<1> QED
  BY <1>5, <1>6, <1>7, <1>8, <1>9, <1>10, <1>11, <1>12, <1>13, <1>14, <1>15, <1>16
  DEF CallStep

\* Lease and watchdog run at the same pace; the tick waits for a due watchdog.
LEMMA TickInv ==
  ASSUME Punctual, IInv, Tick
  PROVE  IInv'
<1>1. TypeOK'
  BY TickType DEF IInv
<1>2. /\ \A c \in Calls : /\ rows'[c].state = rows[c].state
                          /\ rows'[c].expires >= rows[c].expires - 1
      /\ UNCHANGED <<phase, pending, reply>>
  BY TickRows DEF IInv, Tick
<1>3. RunningBounded' /\ SessionRows'
  BY <1>2 DEF IInv, RunningBounded, SessionRows, InState, Present
<1>4. ChangesOrdered'
  BY <1>2 DEF IInv, ChangesOrdered
<1>5. \A c \in Calls : /\ rows[c].expires \in Int /\ rows'[c].expires \in Int
                      /\ since[c] \in 0..Lease /\ armed[c] \in 0..Lease
                      /\ Lease \in Nat /\ Margin \in Nat /\ Lag \in Nat
  BY <1>1, ConstantsAssumption DEF IInv, TypeOK, Row
<1>6. HolderCovered'
  <2> SUFFICES ASSUME NEW c \in Calls, phase[c] = "holding"
               PROVE  /\ rows'[c].state = "running"
                      /\ armed'[c] < Lease
                      /\ rows'[c].expires >= Lease - armed'[c]
    BY <1>2 DEF HolderCovered, Holders
  <2>1. rows[c].state = "running" /\ rows[c].expires >= Lease - armed[c]
    BY DEF IInv, HolderCovered, Holders
  <2>2. armed[c] < Lease - Margin + Lag
    BY DEF Tick
  <2>3. armed[c] < Lease - 1
    BY <1>5, <2>2 DEF Punctual
  <2>4. armed'[c] = armed[c] + 1
    BY <1>5, <2>3 DEF Tick, More, IInv, TypeOK
  <2> QED BY <1>2, <1>5, <2>1, <2>3, <2>4
<1>7. AnswerCovered'
  <2> SUFFICES ASSUME NEW c \in Calls, since'[c] < Lease, reply[c] # "none",
                      phase[c] \in {"admitting", "polling", "holding"}
               PROVE  /\ phase[c] \in {"admitting", "polling"} /\ reply[c] = "running"
                           => rows'[c].state = "running" /\ rows'[c].expires >= Lease - since'[c]
                      /\ phase[c] = "holding" /\ reply[c] = "renewed"
                           => rows'[c].expires >= Lease - since'[c]
    BY <1>2 DEF AnswerCovered
  <2>1. since'[c] = More(since[c])
    BY DEF Tick, Timed
  <2>2. since[c] < Lease /\ since'[c] = since[c] + 1
    BY <1>5, <2>1 DEF More
  <2> QED BY <1>2, <1>5, <2>2 DEF IInv, AnswerCovered
<1> QED
  BY <1>1, <1>3, <1>4, <1>6, <1>7 DEF IInv

LEMMA InitInv == Init => IInv
<1> SUFFICES ASSUME Init PROVE IInv
  OBVIOUS
<1>1. InState(rows, "running") = {} /\ Present(rows) = {}
  BY DEF Init, InState, Present, NoRow
<1>2. RunningBounded /\ SessionRows
  BY <1>1, FS_EmptySet, ConstantsAssumption DEF RunningBounded, SessionRows
<1> QED
  BY <1>2, InitType DEF Init, IInv, HolderCovered, Holders, AnswerCovered, ChangesOrdered

LEMMA NextInv ==
  ASSUME Punctual, IInv, [Next]_vars
  PROVE  IInv'
<1>1. CASE UNCHANGED vars
  BY <1>1 DEF vars, IInv, TypeOK, HolderCovered, Holders, AnswerCovered, ChangesOrdered,
              RunningBounded, SessionRows, InState, Present
<1> QED
  BY <1>1, TickInv, StoreStepInv, CallStepInv DEF Next

\* The inductive invariant, for punctual watchdogs.
THEOREM Invariant ==
  ASSUME Punctual
  PROVE  Spec => []IInv
<1>1. Init => IInv
  BY InitInv
<1>2. IInv /\ [Next]_vars => IInv'
  BY NextInv
<1> QED
  BY <1>1, <1>2, PTL DEF Spec

-----------------------------------------------------------------------------
(* The theorems                                                              *)

\* The row of a live holder is granted and its lease outlives the watchdog.
THEOREM LeaseCoversHolder ==
  ASSUME Punctual
  PROVE  Spec => []HolderCovered
<1>1. IInv => HolderCovered
  BY DEF IInv
<1> QED
  BY <1>1, Invariant, PTL

\* Live holders are granted rows.
LEMMA HoldersHaveRows ==
  ASSUME IInv
  PROVE  /\ Holders \subseteq InState(rows, "running")
         /\ Holders \subseteq Present(rows)
         /\ Cardinality(Holders) <= Running
<1>1. Holders \subseteq InState(rows, "running") /\ Holders \subseteq Present(rows)
  BY DEF IInv, HolderCovered, Holders, InState, Present
<1>2. InState(rows, "running") \in SUBSET Calls
  BY DEF InState
<1>3. /\ Cardinality(Holders) <= Cardinality(InState(rows, "running"))
      /\ Cardinality(Holders) \in Nat
      /\ Cardinality(InState(rows, "running")) \in Nat
  BY <1>1, <1>2, CallSubset
<1> QED
  BY <1>1, <1>3, ConstantsAssumption DEF IInv, RunningBounded

\* No more calls than policy.running believe they hold a permit.
THEOREM HoldersStayBounded ==
  ASSUME Punctual
  PROVE  Spec => []HoldersBounded
<1>1. IInv => HoldersBounded
  BY HoldersHaveRows DEF HoldersBounded
<1> QED
  BY <1>1, Invariant, PTL

\* Under exclusiveResource no two live executions share a session.
THEOREM SessionsStayExclusive ==
  ASSUME Punctual
  PROVE  Spec => []SessionExclusive
<1>1. IInv => SessionExclusive
  BY HoldersHaveRows DEF IInv, SessionRows, SessionExclusive
<1> QED
  BY <1>1, Invariant, PTL

\* A call starts to hold only in Granted; it stops in five of its other steps.
LEMMA HolderSteps ==
  ASSUME TypeOK, [Next]_vars
  PROVE  \/ Holders' = Holders
         \/ \E c \in Calls : c \notin Holders /\ Holders' = Holders \cup {c}
         \/ \E c \in Calls : c \in Holders /\ Holders' = Holders \ {c}
<1>1. CASE UNCHANGED phase
  BY <1>1 DEF Holders
<1>2. ASSUME NEW c \in Calls, NEW p, phase' = [phase EXCEPT ![c] = p]
      PROVE  \/ Holders' = Holders
             \/ \E d \in Calls : d \notin Holders /\ Holders' = Holders \cup {d}
             \/ \E d \in Calls : d \in Holders /\ Holders' = Holders \ {d}
  <2>1. \A d \in Calls : phase'[d] = IF d = c THEN p ELSE phase[d]
    BY <1>2 DEF TypeOK
  <2>2. CASE p = "holding" /\ phase[c] # "holding"
    BY <2>1, <2>2 DEF Holders
  <2>3. CASE p # "holding" /\ phase[c] = "holding"
    BY <2>1, <2>3 DEF Holders
  <2>4. CASE p = "holding" <=> phase[c] = "holding"
    BY <2>1, <2>4 DEF Holders
  <2> QED BY <2>2, <2>3, <2>4
<1>3. ASSUME NEW c \in Calls, StoreStep(c)
      PROVE  UNCHANGED phase
  BY <1>3 DEF StoreStep, CommitAdmission, CommitPoll, CommitRenewal, CommitRelease,
              DropChange, Settle
<1>4. ASSUME NEW c \in Calls, CallStep(c)
      PROVE  UNCHANGED phase \/ \E p : phase' = [phase EXCEPT ![c] = p]
  BY <1>4 DEF CallStep, Acquire, Queued, Poll, Granted, AdmissionFails, WaitFails,
              StartRenewal, Renewed, Abort, Watchdog, Release, Released, Crash,
              StartRelease, Enter
<1> QED
  BY <1>1, <1>2, <1>3, <1>4 DEF Next, Tick, vars

LEMMA HoldersSafe == IInv => HoldersBounded /\ SessionExclusive
  BY HoldersHaveRows DEF HoldersBounded, IInv, SessionRows, SessionExclusive

\* CapacityScheduler implements the pool of permits.
THEOREM PermitsImplementPool ==
  ASSUME Punctual
  PROVE  Spec => ImplementsPool
<1>1. Init => Pool!Init
  BY DEF Init, Pool!Init, Holders
<1>2. IInv /\ IInv' /\ [Next]_vars => [Pool!Next]_Holders
  <2>0. IInv' => HoldersBounded' /\ SessionExclusive'
    BY HoldersSafe, PTL
  <2> SUFFICES ASSUME IInv, IInv', [Next]_vars
               PROVE  Pool!Next \/ Holders' = Holders
    OBVIOUS
  <2>1. ASSUME NEW c \in Calls, c \notin Holders, Holders' = Holders \cup {c}
        PROVE  Pool!Grant(c)
    <3>1. HoldersBounded' /\ SessionExclusive'
      BY <2>0
    <3>2. Cardinality(Holders \cup {c}) <= Running
      BY <2>1, <3>1 DEF HoldersBounded
    <3>3. Exclusive => \A d \in Holders : ResourceOf[d] # ResourceOf[c]
      <4>1. Exclusive => \A d, e \in Holders \cup {c} : ResourceOf[d] = ResourceOf[e] => d = e
        BY <2>1, <3>1, Zenon DEF SessionExclusive
      <4> QED BY <2>1, <4>1, Zenon
    <3>4. Pool!Cardinality(Holders \cup {c}) = Cardinality(Holders \cup {c})
      BY DEF Pool!Cardinality, Cardinality
    <3> QED BY <2>1, <3>2, <3>3, <3>4 DEF Pool!Grant, Pool!Compatible
  <2>2. ASSUME NEW c \in Calls, c \in Holders, Holders' = Holders \ {c}
        PROVE  Pool!Withdraw(c)
    BY <2>2 DEF Pool!Withdraw
  <2> QED BY <2>1, <2>2, HolderSteps DEF IInv, Pool!Next
<1> QED
  BY <1>1, <1>2, Invariant, PTL DEF Spec, ImplementsPool, Pool!Spec

-----------------------------------------------------------------------------
(* Order of the grants.  None of this needs punctual timers.                 *)

\* A call that asks for admission has no row yet, so that a commit inserts one.
AdmitsFresh == \A c \in Calls : "admit" \in pending[c] => rows[c].state = "none"

\* A row that is gone is gone entirely.
RowsClean == \A c \in Calls : rows[c].state = "none" => rows[c] = NoRow

OrderInv == TypeOK /\ ChangesOrdered /\ RowsClean /\ AdmitsFresh

\* prune() leaves in `behind' only calls that still have a row.
LEMMA PrunedBehind ==
  ASSUME NEW rs \in [Calls -> Row]
  PROVE  \A c \in Calls : \A d \in Pruned(rs)[c].behind :
           d \in Calls /\ Pruned(rs)[d].state \in {"waiting", "running"}
<1> DEFINE kept == {c \in Present(rs) : ~Stale(rs[c])}
<1>1. kept \in SUBSET Calls /\ \A d \in kept : rs[d].state \in {"waiting", "running"}
  BY DEF Present, Row
<1>2. \A d \in kept : Keep(rs, kept)[d].state = rs[d].state
  BY <1>1, KeepRows
<1>3. \A c \in Calls : Keep(rs, kept)[c].behind \subseteq kept
  <2> TAKE c \in Calls
  <2>1. CASE c \in kept
    <3>1. Keep(rs, kept)[c] = [rs[c] EXCEPT !.behind = @ \cap kept]
      BY <2>1 DEF Keep
    <3>2. rs[c] \in Row
      OBVIOUS
    <3> QED BY <3>1, <3>2 DEF Row
  <2>2. CASE c \notin kept
    BY <2>2 DEF Keep, NoRow
  <2> QED BY <2>1, <2>2
<1> QED
  BY <1>1, <1>2, <1>3 DEF Pruned

\* Nobody whom promote() grants a slot stands behind a row that still waits.
LEMMA PromotedInOrder ==
  ASSUME NEW rs \in [Calls -> Row], NEW granted \in SUBSET InState(Pruned(rs), "waiting"),
         IsPromotion(Pruned(rs), granted)
  PROVE  LET next == Promoted(Pruned(rs), granted) IN
         /\ \A c \in Calls : next[c].behind = Pruned(rs)[c].behind
         /\ \A c \in Calls : next[c].state = "running" /\ rs[c].state # "running" => c \in granted
         /\ \A c \in granted : \A d \in next[c].behind : next[d].state = "running"
         /\ InState(next, "running") = InState(Pruned(rs), "running") \cup granted
         /\ \A c \in Calls : next[c].state = "waiting" => Pruned(rs)[c].state = "waiting" /\ c \notin granted
<1> DEFINE P == Pruned(rs)
           next == Promoted(P, granted)
<1>1. P \in [Calls -> Row] /\ \A c \in Calls : P[c].state \in {rs[c].state, "none"}
  BY PrunedRows
<1>2. \A c \in Calls : \A d \in P[c].behind : d \in Calls /\ P[d].state \in {"waiting", "running"}
  BY PrunedBehind
<1>3. /\ granted \subseteq Calls /\ \A c \in granted : P[c].state = "waiting"
      /\ \A c \in granted : P[c].behind \cap InState(P, "waiting") \subseteq granted
  BY DEF InState, IsPromotion
<1> HIDE DEF P
<1>4. \A c \in Calls : next[c] = IF c \in granted THEN [P[c] EXCEPT !.state = "running"] ELSE P[c]
  BY DEF Promoted
<1>5. \A c \in Calls : /\ next[c].behind = P[c].behind
                       /\ next[c].state = IF c \in granted THEN "running" ELSE P[c].state
  BY <1>1, <1>4 DEF Row
<1>6. \A c \in granted : \A d \in next[c].behind : next[d].state = "running"
  <2> TAKE c \in granted
  <2> TAKE d \in next[c].behind
  <2>1. d \in Calls /\ d \in P[c].behind /\ P[d].state \in {"waiting", "running"}
    BY <1>2, <1>3, <1>5
  <2>2. P[d].state = "waiting" => d \in granted
    BY <1>3, <2>1 DEF InState
  <2> QED BY <1>5, <2>1, <2>2
<1>7. InState(next, "running") = InState(P, "running") \cup granted
  BY <1>3, <1>5 DEF InState
<1>8. \A c \in Calls : next[c].state = "running" /\ rs[c].state # "running" => c \in granted
  BY <1>1, <1>5
<1>9. \A c \in Calls : next[c].state = "waiting" => P[c].state = "waiting" /\ c \notin granted
  BY <1>5
<1> QED
  BY <1>5, <1>6, <1>7, <1>8, <1>9 DEF P

\* prune() leaves no trace of a row it drops; promote() grants rows that are there.
LEMMA PrunedPromotedClean ==
  ASSUME NEW rs \in [Calls -> Row], NEW granted \in SUBSET InState(Pruned(rs), "waiting")
  PROVE  LET next == Promoted(Pruned(rs), granted) IN
         \A d \in Calls : /\ next[d].state = "none" => next[d] = NoRow
                          /\ rs[d].state = "none" => next[d].state = "none"
<1> DEFINE P == Pruned(rs)
           next == Promoted(P, granted)
           kept == {c \in Present(rs) : ~Stale(rs[c])}
<1>1. P \in [Calls -> Row] /\ \A c \in Calls : P[c].state \in {rs[c].state, "none"}
  BY PrunedRows
<1>2. \A d \in Calls : P[d].state = "none" => P[d] = NoRow
  <2>1. kept \in SUBSET Calls /\ \A d \in kept : rs[d].state # "none"
    BY DEF Present
  <2> QED BY <2>1, KeepRows DEF Pruned
<1> HIDE DEF P
<1>3. \A d \in granted : P[d].state = "waiting"
  BY DEF InState, P
<1>4. \A c \in Calls : next[c] = IF c \in granted THEN [P[c] EXCEPT !.state = "running"] ELSE P[c]
  BY DEF Promoted
<1>5. \A c \in Calls : next[c].state = IF c \in granted THEN "running" ELSE P[c].state
  BY <1>1, <1>4 DEF Row
<1> QED BY <1>1, <1>2, <1>3, <1>4, <1>5 DEF P

\* Only an admission inserts a row, its own, and it leaves no other row of the
\* session under exclusiveResource.
LEMMA RowsAppear ==
  ASSUME TypeOK, RowsClean, NEW c \in Calls, StoreStep(c)
  PROVE  /\ RowsClean'
         /\ \A d \in Calls : rows[d].state = "none" /\ rows'[d].state # "none"
              => /\ d = c /\ "admit" \in pending[c] /\ pending'[c] = pending[c] \ {"admit"}
                 /\ Exclusive => \A e \in Calls : rows'[e].state # "none" /\ ResourceOf[e] = ResourceOf[c]
                                   => e = c
<1>0. rows \in [Calls -> Row]
  BY DEF TypeOK
<1>1. CASE UNCHANGED rows
  BY <1>1 DEF RowsClean
<1>2. CASE CommitAdmission(c)
  <2>1. PICK granted \in SUBSET InState(Pruned(rows), "waiting") :
          LET rs == Promoted(Pruned(rows), granted) IN
          /\ IsPromotion(Pruned(rows), granted)
          /\ IF Refused(rs, c)
             THEN Settle(c, "admit", "refused") /\ UNCHANGED rows
             ELSE /\ Settle(c, "admit", NewRow(rs).state)
                  /\ rows' = [rs EXCEPT ![c] = NewRow(rs)]
    BY <1>2 DEF CommitAdmission
  <2> DEFINE rs == Promoted(Pruned(rows), granted)
  <2>2. \A d \in Calls : /\ rs[d].state = "none" => rs[d] = NoRow
                         /\ rows[d].state = "none" => rs[d].state = "none"
    BY <1>0, PrunedPromotedClean
  <2>3. DOMAIN rs = Calls
    BY DEF Promoted
  <2> HIDE DEF rs
  <2>4. CASE UNCHANGED rows
    BY <1>1, <2>4
  <2>5. CASE /\ ~Refused(rs, c) /\ rows' = [rs EXCEPT ![c] = NewRow(rs)]
             /\ Settle(c, "admit", NewRow(rs).state)
    <3>1. \A d \in Calls : rows'[d] = IF d = c THEN NewRow(rs) ELSE rs[d]
      BY <2>3, <2>5
    <3>2. NewRow(rs).state # "none"
      BY DEF NewRow
    <3>3. Exclusive => \A e \in Calls : rs[e].state # "none" => ResourceOf[e] # ResourceOf[c]
      BY <2>5 DEF Refused, SessionBusy, Present
    <3>4. "admit" \in pending[c] /\ pending'[c] = pending[c] \ {"admit"}
      BY <1>2, <2>5 DEF CommitAdmission, Settle, TypeOK
    <3> QED BY <2>2, <3>1, <3>2, <3>3, <3>4 DEF RowsClean
  <2> QED BY <2>1, <2>4, <2>5 DEF rs
<1>3. CASE CommitPoll(c)
  <2>1. CASE UNCHANGED rows
    BY <1>1, <2>1
  <2>2. ASSUME NEW granted \in SUBSET InState(Pruned(Extended(c)), "waiting"),
               rows' = Promoted(Pruned(Extended(c)), granted)
        PROVE  /\ RowsClean'
               /\ \A d \in Calls : rows[d].state = "none" => rows'[d].state = "none"
    <3>1. Extended(c) \in [Calls -> Row] /\ \A d \in Calls : Extended(c)[d].state = rows[d].state
      BY ExtendedRows
    <3> QED BY <2>2, <3>1, PrunedPromotedClean DEF RowsClean
  <2> QED BY <1>3, <2>1, <2>2 DEF CommitPoll
<1>4. CASE CommitRenewal(c)
  <2>1. CASE UNCHANGED rows
    BY <1>1, <2>1
  <2>2. CASE rows' = Extended(c) /\ rows[c].state # "none"
    <3>1. \A d \in Calls : Extended(c)[d].state = rows[d].state
      BY ExtendedRows
    <3>2. \A d \in Calls \ {c} : Extended(c)[d] = rows[d]
      BY <1>0 DEF Extended
    <3> QED BY <2>2, <3>1, <3>2 DEF RowsClean
  <2> QED BY <1>4, <2>1, <2>2 DEF CommitRenewal
<1>5. CASE CommitRelease(c)
  <2> DEFINE kept == Present(rows) \ {c}
  <2>1. kept \in SUBSET Calls /\ \A d \in kept : rows[d].state # "none"
    BY DEF Present
  <2>2. /\ \A d \in kept : rows'[d].state = rows[d].state
        /\ \A d \in Calls \ kept : rows'[d] = NoRow
    BY <1>0, <1>5, <2>1, KeepRows DEF CommitRelease
  <2>3. \A d \in Calls \ kept : rows'[d].state = "none"
    BY <2>2 DEF NoRow
  <2> HIDE DEF kept
  <2> QED BY <2>1, <2>2, <2>3 DEF RowsClean
<1>6. CASE DropChange(c)
  BY <1>1, <1>6 DEF DropChange
<1> QED
  BY <1>2, <1>3, <1>4, <1>5, <1>6 DEF StoreStep


LEMMA OrderInit == Init => OrderInv
  BY InitType DEF Init, OrderInv, ChangesOrdered, RowsClean, AdmitsFresh, NoRow

LEMMA OrderStore ==
  ASSUME OrderInv, NEW c \in Calls, StoreStep(c)
  PROVE  OrderInv'
<1>1. TypeOK'
  BY StoreStepType DEF OrderInv
<1>2. /\ UNCHANGED <<phase, since, armed>>
      /\ \A d \in Calls : pending'[d] \subseteq pending[d]
      /\ \A d \in Calls : d # c \/ phase[d] = "idle" => reply'[d] = reply[d]
      /\ "admit" \in pending'[c] => reply'[c] = reply[c]
  BY Settled DEF OrderInv
<1>3. RowsClean'
  BY RowsAppear DEF OrderInv
<1>4. \A d \in Calls : rows[d].state = "none" /\ rows'[d].state # "none" => "admit" \notin pending'[d]
  BY RowsAppear DEF OrderInv
<1>5. ChangesOrdered'
  BY <1>2 DEF OrderInv, ChangesOrdered
<1>6. AdmitsFresh'
  BY <1>2, <1>4 DEF OrderInv, AdmitsFresh
<1> QED BY <1>1, <1>3, <1>5, <1>6 DEF OrderInv

LEMMA OrderCall ==
  ASSUME OrderInv, NEW c \in Calls, CallStep(c)
  PROVE  OrderInv'
<1>1. TypeOK'
  BY CallStepType DEF OrderInv
<1>2. UNCHANGED rows
  BY DEF CallStep, Acquire, Queued, Poll, Granted, AdmissionFails, WaitFails, StartRenewal,
         Renewed, Abort, Watchdog, Release, Released, Crash, StartRelease
<1>3. RowsClean'
  BY <1>2 DEF OrderInv, RowsClean
<1> SUFFICES ChangesOrdered' /\ AdmitsFresh'
  BY <1>1, <1>3 DEF OrderInv
<1> USE <1>2 DEF OrderInv, TypeOK, ChangesOrdered, AdmitsFresh, Enter, Send, StartRelease
<1>5. CASE Acquire(c)
  BY <1>5 DEF Acquire, NoRow
<1>6. CASE Queued(c)
  BY <1>6 DEF Queued
<1>7. CASE Poll(c)
  BY <1>7 DEF Poll
<1>8. CASE Granted(c)
  BY <1>8 DEF Granted
<1>9. CASE AdmissionFails(c)
  BY <1>9 DEF AdmissionFails
<1>10. CASE WaitFails(c)
  BY <1>10 DEF WaitFails
<1>11. CASE StartRenewal(c)
  BY <1>11 DEF StartRenewal
<1>12. CASE Renewed(c)
  BY <1>12 DEF Renewed
<1>13. CASE Abort(c) \/ Watchdog(c)
  BY <1>13 DEF Abort, Watchdog
<1>14. CASE Release(c)
  BY <1>14 DEF Release
<1>15. CASE Released(c)
  BY <1>15 DEF Released
<1>16. CASE Crash(c)
  BY <1>16 DEF Crash
<1> QED
  BY <1>5, <1>6, <1>7, <1>8, <1>9, <1>10, <1>11, <1>12, <1>13, <1>14, <1>15, <1>16
  DEF CallStep

LEMMA OrderStep == OrderInv /\ [Next]_vars => OrderInv'
<1> SUFFICES ASSUME OrderInv, [Next]_vars PROVE OrderInv'
  OBVIOUS
<1>1. CASE UNCHANGED vars
  BY <1>1 DEF vars, OrderInv, TypeOK, ChangesOrdered, RowsClean, AdmitsFresh
<1>2. CASE Tick
  <2>1. TypeOK' /\ UNCHANGED <<phase, pending, reply>>
    BY <1>2, TickType DEF OrderInv, Tick
  <2>2. \A c \in Calls : rows'[c].state = rows[c].state
    BY <1>2, TickRows DEF OrderInv
  <2>3. \A c \in Calls : rows[c] = NoRow => rows'[c] = NoRow
    <3>1. Less(0) = 0
      BY DEF Less
    <3>2. NoRow \in Row
      BY ConstantsAssumption DEF NoRow, Row
    <3>3. Aged(NoRow) \in Row /\ Aged(NoRow).state = NoRow.state
      BY <3>2, AgedRow
    <3>5. /\ Aged(NoRow).behind = NoRow.behind
          /\ Aged(NoRow).expires = NoRow.expires
          /\ Aged(NoRow).deadline = NoRow.deadline
      BY <3>1 DEF Aged, NoRow
    <3>4. Aged(NoRow) = NoRow
      BY <3>2, <3>3, <3>5 DEF Row
    <3> QED BY <1>2, <3>4 DEF Tick
  <2> QED BY <2>1, <2>2, <2>3 DEF OrderInv, ChangesOrdered, RowsClean, AdmitsFresh
<1> QED
  BY <1>1, <1>2, OrderStore, OrderCall DEF Next

\* In every step, whoever is granted a slot leaves nobody waiting before it.
LEMMA GrantStep ==
  ASSUME OrderInv, NEW c \in Calls, StoreStep(c), NEW e \in Calls,
         rows'[e].state = "running", rows[e].state # "running"
  PROVE  \A d \in rows'[e].behind : rows'[d].state = "running"
<1>0. TypeOK /\ rows \in [Calls -> Row] /\ AdmitsFresh
  BY DEF OrderInv, TypeOK
<1>1. CASE CommitAdmission(c)
  <2>1. PICK granted \in SUBSET InState(Pruned(rows), "waiting") :
          LET rs == Promoted(Pruned(rows), granted) IN
          /\ IsPromotion(Pruned(rows), granted)
          /\ IF Refused(rs, c)
             THEN Settle(c, "admit", "refused") /\ UNCHANGED rows
             ELSE /\ Settle(c, "admit", NewRow(rs).state)
                  /\ rows' = [rs EXCEPT ![c] = NewRow(rs)]
    BY <1>1 DEF CommitAdmission
  <2> DEFINE P == Pruned(rows)
             rs == Promoted(P, granted)
  <2>2. DOMAIN rs = Calls
    BY DEF Promoted
  <2>3. /\ \A d \in Calls : rs[d].behind = P[d].behind
        /\ \A d \in Calls : rs[d].state = "running" /\ rows[d].state # "running" => d \in granted
        /\ \A f \in granted : \A d \in rs[f].behind : rs[d].state = "running"
        /\ InState(rs, "running") = InState(P, "running") \cup granted
        /\ \A d \in Calls : rs[d].state = "waiting" => P[d].state = "waiting" /\ d \notin granted
    BY <1>0, <2>1, PromotedInOrder
  <2>4. \A f \in Calls : \A d \in rs[f].behind :
           d \in Calls /\ P[d].state \in {"waiting", "running"}
    BY <1>0, <2>3, PrunedBehind
  <2>5. rows' = [rs EXCEPT ![c] = NewRow(rs)]
    BY <2>1
  <2>6. rows[c].state = "none" /\ P[c].state = "none" /\ rs[c].state = "none"
    <3>1. rows[c].state = "none"
      BY <1>0, <1>1 DEF CommitAdmission, AdmitsFresh
    <3>2. P[c].state = "none"
      BY <1>0, <3>1, PrunedRows
    <3> QED BY <1>0, <3>1, <3>2, PrunedPromotedClean
  <2>7. granted \subseteq Calls /\ granted \subseteq InState(P, "waiting")
    BY DEF InState
  <2>8. IsPromotion(P, granted)
    BY <2>1
  <2>9. rs \in [Calls -> Row] /\ P \in [Calls -> Row]
    BY <1>0, PrunedRows DEF Promoted, Row
  <2> HIDE DEF rs, P
  <2>10. \A d \in Calls : rows'[d] = IF d = c THEN NewRow(rs) ELSE rs[d]
    BY <2>2, <2>5
  <2>11. CASE e # c
    <3>1. e \in granted
      BY <2>3, <2>10, <2>11
    <3>2. \A d \in rs[e].behind : d \in Calls /\ d # c /\ rs[d].state = "running"
      BY <2>3, <2>4, <2>6, <3>1
    <3> QED BY <2>10, <2>11, <3>2
  <2>12. CASE e = c
    <3>1. ~Busy(rs) /\ rows'[e].behind = Present(rs)
      BY <2>10, <2>12 DEF NewRow
    <3>2. granted = InState(P, "waiting")
      BY <2>3, <2>8, <3>1 DEF IsPromotion, Busy
    <3>3. \A d \in Calls : rs[d].state # "waiting"
      BY <2>3, <3>2 DEF InState
    <3>4. \A d \in Present(rs) : d \in Calls /\ d # c /\ rs[d].state = "running"
      BY <2>6, <2>9, <3>3 DEF Present, Row
    <3> QED BY <2>10, <3>1, <3>4
  <2> QED BY <2>11, <2>12
<1>2. CASE CommitPoll(c)
  <2>1. PICK granted \in SUBSET InState(Pruned(Extended(c)), "waiting") :
          /\ IsPromotion(Pruned(Extended(c)), granted)
          /\ rows' = Promoted(Pruned(Extended(c)), granted)
    BY <1>2 DEF CommitPoll
  <2>2. Extended(c) \in [Calls -> Row] /\ \A d \in Calls : Extended(c)[d].state = rows[d].state
    BY <1>0, ExtendedRows
  <2>3. e \in granted
    BY <2>1, <2>2, PromotedInOrder
  <2> QED BY <2>1, <2>2, <2>3, PromotedInOrder
<1>3. CASE CommitRenewal(c)
  BY <1>0, <1>3, ExtendedRows DEF CommitRenewal
<1>4. CASE CommitRelease(c)
  <2> DEFINE kept == Present(rows) \ {c}
  <2>1. kept \in SUBSET Calls
    BY DEF Present
  <2>2. /\ \A d \in kept : rows'[d].state = rows[d].state
        /\ \A d \in Calls \ kept : rows'[d] = NoRow
    BY <1>0, <1>4, <2>1, KeepRows DEF CommitRelease
  <2>3. rows'[e].state \in {rows[e].state, "none"}
    BY <2>2 DEF NoRow
  <2> QED BY <2>3
<1>5. CASE DropChange(c)
  BY <1>5 DEF DropChange
<1> QED
  BY <1>1, <1>2, <1>3, <1>4, <1>5 DEF StoreStep

\* First come, first served, for every number of calls and whatever they do.
THEOREM GrantsStayInOrder == Spec => GrantsInOrder
<1>1. Init => OrderInv
  BY OrderInit
<1>2. OrderInv /\ [Next]_vars => OrderInv'
  BY OrderStep
<1>3. OrderInv /\ [Next]_vars
        => [\A c \in Calls :
              rows'[c].state = "running" /\ rows[c].state # "running"
                => \A d \in rows'[c].behind : rows'[d].state = "running"]_vars
  <2> SUFFICES ASSUME OrderInv, Next, NEW c \in Calls,
                      rows'[c].state = "running", rows[c].state # "running"
               PROVE  \A d \in rows'[c].behind : rows'[d].state = "running"
    OBVIOUS
  <2>1. CASE Tick
    BY <2>1, TickRows DEF OrderInv
  <2>2. ASSUME NEW d \in Calls, CallStep(d) PROVE FALSE
    <3>1. UNCHANGED rows
      BY <2>2 DEF CallStep, Acquire, Queued, Poll, Granted, AdmissionFails, WaitFails,
                  StartRenewal, Renewed, Abort, Watchdog, Release, Released, Crash, StartRelease
    <3> QED BY <3>1
  <2> QED BY <2>1, <2>2, GrantStep DEF Next
<1> QED
  BY <1>1, <1>2, <1>3, PTL DEF Spec, GrantsInOrder


-----------------------------------------------------------------------------
(* Writes to a session                                                       *)

\* The row of a session, if it has one, is the row of its newest admission.
NewestRow ==
  /\ newest \in [Resources -> SUBSET Calls]
  /\ Exclusive => \A c \in Calls : rows[c].state # "none" => newest[ResourceOf[c]] = {c}

FenceInv == OrderInv /\ NewestRow

\* A write reaches neither rows nor history; a step of CapacityPermits records
\* every row it inserts.
LEMMA FenceStep == FenceInv /\ [NextWrites]_allVars => FenceInv'
<1> SUFFICES ASSUME FenceInv, [NextWrites]_allVars PROVE FenceInv'
  OBVIOUS
<1>0. OrderInv /\ TypeOK /\ RowsClean /\ ConstantsAssumption
  BY ConstantsAssumption DEF FenceInv, OrderInv
<1>1. CASE UNCHANGED <<vars, newest>>
  <2>1. OrderInv'
    BY <1>0, <1>1, OrderStep
  <2> QED BY <1>1, <2>1 DEF vars, FenceInv, NewestRow
<1>2. CASE Next /\ RecordNewest
  <2>1. OrderInv'
    BY <1>0, <1>2, OrderStep
  <2>2. newest' \in [Resources -> SUBSET Calls]
    BY <1>2 DEF FenceInv, NewestRow, RecordNewest
  <2>3. \A r \in Resources :
           LET admitted == {c \in Calls : ResourceOf[c] = r /\ rows[c] = NoRow /\ rows'[c] # NoRow}
           IN newest'[r] = IF admitted = {} THEN newest[r] ELSE admitted
    BY <1>2 DEF RecordNewest
  <2>4. \A c \in Calls : /\ rows[c] = NoRow <=> rows[c].state = "none"
                         /\ rows'[c] = NoRow <=> rows'[c].state = "none"
    BY <1>0, <2>1 DEF OrderInv, RowsClean, NoRow
  <2>5. ASSUME Exclusive, NEW d \in Calls, rows'[d].state # "none"
        PROVE  newest'[ResourceOf[d]] = {d}
    <3> DEFINE r == ResourceOf[d]
               admitted == {c \in Calls : ResourceOf[c] = r /\ rows[c] = NoRow /\ rows'[c] # NoRow}
    <3>1. r \in Resources /\ newest'[r] = IF admitted = {} THEN newest[r] ELSE admitted
      BY <1>0, <2>3 DEF ConstantsAssumption
    <3>2. \A c \in admitted : \A e \in Calls :
             rows'[e].state # "none" /\ ResourceOf[e] = ResourceOf[c] => e = c
      <4>1. ASSUME NEW c \in Calls, rows[c].state = "none", rows'[c].state # "none"
            PROVE  \A e \in Calls : rows'[e].state # "none" /\ ResourceOf[e] = ResourceOf[c] => e = c
        <5>1. CASE Tick
          BY <1>0, <4>1, <5>1, TickRows
        <5>2. ASSUME NEW b \in Calls, CallStep(b) PROVE FALSE
          <6>1. UNCHANGED rows
            BY <5>2 DEF CallStep, Acquire, Queued, Poll, Granted, AdmissionFails, WaitFails,
                        StartRenewal, Renewed, Abort, Watchdog, Release, Released, Crash,
                        StartRelease
          <6> QED BY <4>1, <6>1
        <5>3. ASSUME NEW b \in Calls, StoreStep(b)
              PROVE  \A e \in Calls : rows'[e].state # "none" /\ ResourceOf[e] = ResourceOf[c] => e = c
          BY <1>0, <2>5, <4>1, <5>3, RowsAppear
        <5> QED BY <1>2, <5>1, <5>2, <5>3 DEF Next
      <4> QED BY <2>4, <4>1
    <3>3. CASE admitted = {}
      <4>1. rows[d].state # "none"
        BY <2>4, <2>5, <3>3
      <4>2. newest[r] = {d}
        BY <2>5, <4>1 DEF FenceInv, NewestRow
      <4> QED BY <3>1, <3>3, <4>2
    <3>4. CASE admitted # {}
      <4>1. \A c \in admitted : c = d
        BY <2>5, <3>2
      <4>2. admitted = {d}
        BY <3>4, <4>1
      <4> QED BY <3>1, <3>4, <4>2
    <3> QED BY <3>3, <3>4
  <2> QED BY <2>1, <2>2, <2>5 DEF FenceInv, NewestRow
<1> QED
  BY <1>1, <1>2 DEF NextWrites, allVars, vars, WriteSession

\* Only WriteSession writes, and only while the row of its call is there.
LEMMA WriteStep ==
  ASSUME Exclusive, FenceInv, NextWrites, NEW r \in Resources,
         writer \in [Resources -> SUBSET Calls], writer'[r] # writer[r]
  PROVE  writer'[r] = newest[r]
<1>1. PICK c \in Calls : WriteSession(c)
  BY DEF NextWrites
<1>2. writer' = [writer EXCEPT ![ResourceOf[c]] = {c}] /\ rows[c].state # "none"
  BY <1>1 DEF WriteSession, Fenced
<1>3. r = ResourceOf[c] /\ writer'[r] = {c}
  BY <1>2
<1> QED BY <1>2, <1>3 DEF FenceInv, NewestRow

\* Under exclusiveResource, and however long a process pauses: no timer has to run
\* in time for the fence to hold.
THEOREM WritesStayFenced ==
  ASSUME Exclusive
  PROVE  SpecWrites => NoSupersededWrite
<1> DEFINE Inv == FenceInv /\ writer \in [Resources -> SUBSET Calls]
<1>1. InitWrites => Inv
  <2> SUFFICES ASSUME InitWrites PROVE Inv
    OBVIOUS
  <2>1. OrderInv /\ \A c \in Calls : rows[c].state = "none"
    BY OrderInit DEF InitWrites, Init, NoRow
  <2> QED BY <2>1 DEF InitWrites, FenceInv, NewestRow
<1>2. Inv /\ [NextWrites]_allVars => Inv'
  <2> SUFFICES ASSUME Inv, [NextWrites]_allVars PROVE writer' \in [Resources -> SUBSET Calls]
    BY FenceStep
  <2> QED BY DEF NextWrites, WriteSession, allVars
<1>3. Inv /\ [NextWrites]_allVars
        => [\A r \in Resources : writer'[r] # writer[r] => writer'[r] = newest[r]]_allVars
  BY WriteStep
<1> HIDE DEF Inv
<1> QED
  BY <1>1, <1>2, <1>3, PTL DEF SpecWrites, NoSupersededWrite

=============================================================================
