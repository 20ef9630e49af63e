--------------------- MODULE RepositoryUpdatesProofs ---------------------
(***************************************************************************)
(* Theorems about RepositoryUpdates, for any number of projects, clients,  *)
(* languages, jobs, updates and lost leases.  The budget, the leading of   *)
(* updates and the bindings of projects whose requests nobody overtakes    *)
(* are about every Slow and Deletable.  How updates end and the number of  *)
(* jobs are for requests whose calls to the store follow one another       *)
(* (Slow = {}): with a step in between they do not hold of the code.       *)
(***************************************************************************)
EXTENDS RepositoryUpdates, FiniteSetTheorems, SequenceTheorems, WellFoundedInduction, TLAPS

-----------------------------------------------------------------------------
(* Induction over a set of numbers, by its smallest member.                *)

LEMMA LessIsWellFounded ==
  \E R : IsWellFoundedOn(R, Nat) /\ \A x, y \in Nat : y < x => <<y, x>> \in R
<1>1. \A x, y \in Nat : y < x => <<y, x>> \in OpToRel(<, Nat)
  BY DEF OpToRel
<1> QED BY <1>1, NatLessThanWellFounded, Zenon

LEMMA SmallestMember ==
  ASSUME NEW S \in SUBSET Nat, S # {}
  PROVE  \E m \in S : \A n \in S : m <= n
<1> PICK R : IsWellFoundedOn(R, Nat) /\ \A x, y \in Nat : y < x => <<y, x>> \in R
  BY LessIsWellFounded
<1>1. PICK m \in S : \A n \in S : ~(<<n, m>> \in R)
  BY WFMin, Zenon
<1>2. ASSUME NEW n \in S PROVE m <= n
  <2>1. n \in Nat /\ m \in Nat
    OBVIOUS
  <2>2. ~(<<n, m>> \in R)
    BY <1>1, Zenon
  <2>3. ~(n < m)
    BY <2>1, <2>2, Zenon
  <2> QED BY <2>1, <2>3
<1> QED BY <1>2

LEMMA SetInduction ==
  ASSUME NEW T \in SUBSET Nat, 0 \in T, \A n \in T : n + 1 \in T
  PROVE  T = Nat
<1> DEFINE U == Nat \ T
<1>1. SUFFICES ASSUME U # {} PROVE FALSE
  OBVIOUS
<1>2. U \in SUBSET Nat
  OBVIOUS
<1>3. PICK x \in U : \A y \in U : x <= y
  <2> HIDE DEF U
  <2> QED BY <1>1, <1>2, SmallestMember
<1>4. x - 1 \in Nat /\ x - 1 < x /\ (x - 1) + 1 = x
  OBVIOUS
<1>5. x - 1 \in U
  BY <1>4
<1> QED BY <1>3, <1>4, <1>5

-----------------------------------------------------------------------------
(* Sets of numbers in order.                                               *)

InOrder(s, S, n) ==
  s \in [1..n -> S] /\ \A i, k \in 1..n : i < k => s[i] < s[k]

LEMMA OrderExists ==
  \A n \in Nat : \A S \in SUBSET Nat :
    IsFiniteSet(S) /\ Cardinality(S) = n => \E s : InOrder(s, S, n)
<1> DEFINE T == {n \in Nat : \A S \in SUBSET Nat :
                   IsFiniteSet(S) /\ Cardinality(S) = n => \E s : InOrder(s, S, n)}
<1>1. 0 \in T
  <2> SUFFICES ASSUME NEW S \in SUBSET Nat PROVE \E s : InOrder(s, S, 0)
    OBVIOUS
  <2>1. [i \in 1..0 |-> 0] \in [1..0 -> S]
    OBVIOUS
  <2>2. \A i \in 1..0 : FALSE
    OBVIOUS
  <2>3. InOrder([i \in 1..0 |-> 0], S, 0)
    BY <2>1, <2>2 DEF InOrder
  <2> QED BY <2>3
<1>2. ASSUME NEW n \in T
      PROVE  n + 1 \in T
  <2> SUFFICES ASSUME NEW S \in SUBSET Nat, IsFiniteSet(S), Cardinality(S) = n + 1
               PROVE  \E s : InOrder(s, S, n + 1)
    OBVIOUS
  <2>1. n \in Nat
    OBVIOUS
  <2>2. S # {}
    BY <2>1, FS_EmptySet
  <2>3. PICK m \in S : \A k \in S : m <= k
    BY <2>2, SmallestMember
  <2>4. IsFiniteSet(S \ {m}) /\ Cardinality(S \ {m}) = n
    BY <2>1, FS_RemoveElement
  <2>5. PICK s : InOrder(s, S \ {m}, n)
    BY <2>4
  <2> DEFINE t == [i \in 1..n + 1 |-> IF i = 1 THEN m ELSE s[i - 1]]
  <2>6. \A i \in 1..n + 1 : i = 1 \/ i - 1 \in 1..n
    BY <2>1
  <2>7. \A i \in 1..n : s[i] \in S \ {m} /\ m < s[i]
    <3>1. \A x \in S \ {m} : m < x
      BY <2>3
    <3> QED BY <2>5, <3>1 DEF InOrder
  <2>8. t \in [1..n + 1 -> S]
    BY <2>6, <2>7
  <2>9. ASSUME NEW i \in 1..n + 1, NEW k \in 1..n + 1, i < k
        PROVE  t[i] < t[k]
    <3>1. k # 1 /\ k - 1 \in 1..n /\ t[k] = s[k - 1]
      BY <2>1, <2>9
    <3>2. CASE i = 1
      BY <2>7, <3>1, <3>2
    <3>3. CASE i # 1
      <4>1. i - 1 \in 1..n /\ t[i] = s[i - 1] /\ i - 1 < k - 1
        BY <2>1, <2>9, <3>3
      <4> QED BY <2>5, <3>1, <4>1 DEF InOrder
    <3> QED BY <3>2, <3>3
  <2> QED BY <2>8, <2>9 DEF InOrder
<1> HIDE DEF T
<1>3. T = Nat
  <2>1. T \in SUBSET Nat
    BY DEF T
  <2> QED BY <1>1, <1>2, <2>1, SetInduction
<1> QED BY <1>3 DEF T

LEMMA AscendingLists ==
  ASSUME NEW S \in SUBSET Nat, IsFiniteSet(S)
  PROVE  /\ Cardinality(S) \in Nat
         /\ Ascending(S) \in [1..Cardinality(S) -> S]
         /\ \A x \in S : \E i \in 1..Cardinality(S) : Ascending(S)[i] = x
<1> DEFINE n == Cardinality(S)  s == Ascending(S)
<1>1. n \in Nat
  BY FS_CardinalityType
<1>2. \E t : InOrder(t, S, n)
  BY <1>1, OrderExists
<1>3. InOrder(s, S, n)
  <2>1. \E t \in [1..n -> S] : \A i, k \in 1..n : i < k => t[i] < t[k]
    BY <1>2 DEF InOrder
  <2> QED BY <2>1 DEF Ascending, InOrder
<1> HIDE DEF s
<1>4. s \in Injection(1..n, S)
  <2> HIDE DEF n
  <2> SUFFICES ASSUME NEW i \in 1..n, NEW k \in 1..n, s[i] = s[k]
               PROVE  i = k
    BY <1>3 DEF InOrder, Injection, IsInjective
  <2>1. s[i] \in Nat /\ s[k] \in Nat
    BY <1>3 DEF InOrder
  <2> QED BY <1>1, <1>3, <2>1 DEF InOrder
<1>5. Cardinality(1..n) = n
  <2>1. 1 \in Int /\ n \in Int /\ (1 > n => n = 0)
    BY <1>1
  <2> HIDE DEF n
  <2> QED BY <1>1, <2>1, FS_Interval
<1>6. s \in Surjection(1..n, S)
  BY <1>4, <1>5, FS_Injection
<1> QED BY <1>1, <1>3, <1>6 DEF InOrder, Surjection, s

LEMMA RemainingLists ==
  ASSUME NEW T, NEW list \in Seq(T), NEW S
  PROVE  /\ Remaining(list, S) \in Seq(T)
         /\ ToSet(Remaining(list, S)) = ToSet(list) \cap S
<1> DEFINE I == {i \in DOMAIN list : list[i] \in S}
           places == Ascending(I)
           n == Cardinality(I)
<1>1. I \in SUBSET Nat /\ IsFiniteSet(I)
  <2>1. Len(list) \in Int /\ DOMAIN list = 1..Len(list) /\ 1 \in Int
    OBVIOUS
  <2>2. IsFiniteSet(1..Len(list))
    BY <2>1, FS_Interval
  <2>3. I \in SUBSET (1..Len(list))
    BY <2>1
  <2> QED BY <2>2, <2>3, FS_Subset
<1>2. /\ n \in Nat /\ places \in [1..n -> I]
      /\ \A x \in I : \E i \in 1..n : places[i] = x
  <2> HIDE DEF I
  <2> QED BY <1>1, AscendingLists
<1> HIDE DEF places, n
<1>3. Remaining(list, S) = [i \in 1..n |-> list[places[i]]]
  <2>1. Remaining(list, S) = [i \in DOMAIN places |-> list[places[i]]]
    BY DEF Remaining, places
  <2> QED BY <1>2, <2>1
<1> DEFINE r == [i \in 1..n |-> list[places[i]]]
<1>4. r \in Seq(T) /\ DOMAIN r = 1..n
  BY <1>2
<1>5. \A i \in 1..n : r[i] = list[places[i]] /\ places[i] \in I
  BY <1>2
<1> HIDE DEF r
<1>6. ToSet(r) = ToSet(list) \cap S
  <2>1. ASSUME NEW x \in ToSet(r)
        PROVE  x \in ToSet(list) \cap S
    BY <1>4, <1>5 DEF ToSet
  <2>2. ASSUME NEW x \in ToSet(list) \cap S
        PROVE  x \in ToSet(r)
    <3>1. PICK k \in I : x = list[k]
      BY DEF ToSet
    <3>2. PICK i \in 1..n : places[i] = k
      BY <1>2
    <3> QED BY <1>4, <1>5, <3>1, <3>2 DEF ToSet
  <2> QED BY <2>1, <2>2
<1> QED BY <1>3, <1>4, <1>6 DEF r

-----------------------------------------------------------------------------
(* The invariant.                                                          *)

\* TypeOK without the number of jobs and publications.
AnyUpdate ==
  [status : {"active", "succeeded", "failed", "deleted"}, leader : Projects,
   joined : Seq(Projects), base : Int, budget : {"none", "reserved", "settled"}]

Tables ==
  /\ project \in [Projects -> ProjectRow]
  /\ job \in Seq(Job)
  /\ update \in Seq(AnyUpdate) /\ Len(update) <= MaxUpdates
  /\ overlay \in [1..MaxUpdates -> [Languages -> {"none", "pending", "ready", "failed"}]]
  /\ head \in 0..MaxUpdates /\ generation \in Nat
  /\ reserved \in Int /\ lapses \in 0..MaxLapses

\* Jobs name what is there.
References ==
  \A j \in DOMAIN job :
    /\ job[j].update \in {None} \cup DOMAIN update
    /\ job[j].role \in {"reuse", "overlay"} => job[j].overlay # None
    /\ job[j].status = "asked" => job[j].role \in {"reuse", "waiter"}

\* The reservations of updates.
Held(u) == update[u].budget = "reserved"
OnlyUnendedHold ==
  \A u \in DOMAIN update :
    /\ Held(u) => update[u].status \in {"active", "deleted"}
    /\ update[u].budget = "settled" => update[u].status # "active"

Books ==
  /\ OnlyUnendedHold
  /\ reserved = Cardinality({u \in DOMAIN update : Held(u)}) /\ reserved <= MaxReserved

\* A request between two calls is the youngest, and its copy of the project is current.
AskedWell(j) ==
  LET row == job[j] IN
  /\ row.role \in {"reuse", "waiter"} /\ row.update = None /\ row.follow = "no"
  /\ row.seen.key = project[row.project].key
  /\ row.seen.stage \in {"working", "done"}
  /\ row.role = "reuse" => row.overlay = head /\ head # None
  /\ row.role = "waiter" => row.overlay = None
FollowsWell(j) ==
  LET row == job[j] IN
  /\ Exists(row.project) /\ row.follow \in {"working", "done", "failed"}
  /\ row.seen.key \in {None, head} /\ (project[row.project].key # None => row.seen.key # None)
  /\ row.follow = "working" => Active(j)
OneMidway ==
  \A j \in Midway :
    /\ j = Len(job)
    /\ job[j].status = "asked" => AskedWell(j)
    /\ job[j].follow # "no" => FollowsWell(j)

\* Of every project, when no request is overtaken.
AllFollow == \A p \in Projects : project[p].key \in {None, head}
AllWork ==
  \A p \in Projects : project[p].stage = "working" =>
    \E j \in DOMAIN job : Active(j) /\ job[j].project = p

\* The published update is not the active one; who does not exist has no snapshot.
Bindings ==
  /\ AllFollow
  /\ \A p \in Projects : ~Exists(p) => project[p].key = None
  /\ head # None => head \in DOMAIN update /\ update[head].status # "active"

LastActive == \A u \in ActiveUpdates : u = Len(update)

\* A job of an update that is not ended is the newest of its project.
JobsOfUpdates ==
  \A j \in DOMAIN job : Active(j) /\ job[j].update # None =>
    /\ job[j].update \in ActiveUpdates /\ job[j].overlay = None
    /\ job[j].role \in {"leader", "waiter", "background"}
    /\ job[j].project \in ToSet(update[job[j].update].joined)
    /\ job[j].role # "waiter" => job[j].project = update[job[j].update].leader
    /\ \A i \in DOMAIN job : i > j => job[i].project # job[j].project

\* A job without an update is one of a language overlay, and its project has a snapshot.
JobsOfOverlays ==
  \A j \in DOMAIN job : Active(j) /\ job[j].update = None =>
    /\ job[j].role \in {"overlay", "waiter"} /\ job[j].overlay # None
    /\ project[job[j].project].key # None
    /\ job[j].role = "overlay" /\ job[j].status = "running" => job[j].seen.key # None

JobsAlive == \A j \in DOMAIN job : Active(j) => Exists(job[j].project)

\* Every project that is joined has a job in the update, and one job leads it.
Drives(j, u) == Active(j) /\ job[j].role \in {"leader", "background"} /\ job[j].update = u
Represented ==
  \A u \in ActiveUpdates :
    /\ \A p \in ToSet(update[u].joined) :
         project[p].stage # "absent" /\ (Exists(p) => JobsIn(p, u) # {})
    /\ \E j \in DOMAIN job : Drives(j, u)

\* Publications, at most one per update, add at most one job per project.
JobsCounted ==
  /\ generation <= head /\ \A u \in DOMAIN update : update[u].base \in -1..MaxUpdates
  /\ Len(job) <= MaxJobs + generation * Cardinality(Projects)

\* What the theorems about projects and waiters need.
OfUpdates == LastActive /\ JobsOfUpdates /\ Represented
OfProjects == JobsOfOverlays /\ JobsAlive /\ Bindings /\ AllWork

-----------------------------------------------------------------------------
(* What the steps do to the tables.                                        *)

LEMMA AppendedRow ==
  ASSUME NEW T, NEW s \in Seq(T), NEW x \in T, NEW t, t = Append(s, x)
  PROVE  /\ t \in Seq(T) /\ Len(t) = Len(s) + 1 /\ Len(s) \in Nat
         /\ DOMAIN s = 1..Len(s) /\ DOMAIN t = 1..Len(s) + 1
         /\ Len(s) + 1 \in DOMAIN t
         /\ \A i \in DOMAIN t : i \in DOMAIN s \/ i = Len(s) + 1
         /\ \A i \in DOMAIN s : i \in DOMAIN t /\ t[i] = s[i] /\ i < Len(s) + 1
         /\ t[Len(s) + 1] = x
OBVIOUS

LEMMA ReplacedRow ==
  ASSUME NEW T, NEW s \in Seq(T), NEW j \in DOMAIN s, NEW x \in T, NEW t, t = [s EXCEPT ![j] = x]
  PROVE  /\ t \in Seq(T) /\ Len(t) = Len(s) /\ DOMAIN t = DOMAIN s
         /\ \A i \in DOMAIN s \ {j} : t[i] = s[i]
         /\ t[j] = x
OBVIOUS

LEMMA RowType ==
  ASSUME NEW row \in Job
  PROVE  /\ row.project \in Projects /\ row.client \in Clients \cup {"scheduler"}
         /\ row.status \in {"asked", "succeeded", "failed", "dropped"} \cup InQueue
         /\ row.role \in {"reuse", "leader", "waiter", "background", "overlay"}
         /\ row.update \in 0..MaxUpdates /\ row.overlay \in 0..MaxUpdates
         /\ row.attempt \in 0..MaxAttempts /\ row.exhausted \in BOOLEAN
         /\ row.seen \in ProjectRow /\ row.follow \in Stages \cup {"no"}
BY DEF Job

LEMMA NewJobType ==
  ASSUME Tables, NEW p \in Projects, NEW c \in Clients \cup {"scheduler"},
         NEW status \in {"asked", "queued"}, NEW role \in {"reuse", "waiter", "background"}
  PROVE  /\ NewJob(p, c, status, role) \in Job
         /\ NewJob(p, c, status, role).project = p /\ NewJob(p, c, status, role).client = c
         /\ NewJob(p, c, status, role).status = status /\ NewJob(p, c, status, role).role = role
         /\ NewJob(p, c, status, role).update = None /\ NewJob(p, c, status, role).overlay = None
         /\ NewJob(p, c, status, role).seen = project[p]
         /\ NewJob(p, c, status, role).follow = "no"
<1>1. 0 \in 0..MaxUpdates /\ 0 \in 0..MaxAttempts
  BY UpdatesAssumption
<1>2. project[p] \in ProjectRow
  BY DEF Tables
<1> QED BY <1>1, <1>2 DEF NewJob, Job, None, InQueue, Stages

LEMMA AskEffect ==
  ASSUME Tables, NEW c \in Clients, NEW reuse \in BOOLEAN, Ask(c, reuse)
  PROVE  LET p == ProjectOf[c]  n == Len(job) + 1  row == job'[n] IN
         /\ UNCHANGED <<project, update, overlay, head, generation, reserved, lapses>>
         /\ job' = Append(job, row) /\ row \in Job
         /\ row.project = p /\ row.client = c /\ row.status = "asked"
         /\ row.role = IF reuse THEN "reuse" ELSE "waiter"
         /\ row.update = None /\ row.follow = "no"
         /\ row.seen = Copied(p) /\ row.overlay = (IF reuse THEN head ELSE None)
         /\ reuse => head # None
         /\ p \in Projects
<1> DEFINE p == ProjectOf[c]
           role == IF reuse THEN "reuse" ELSE "waiter"
           new == NewJob(p, c, "asked", role)
           row == [new EXCEPT !.seen = Copied(p), !.overlay = IF reuse THEN head ELSE None]
<1>1. p \in Projects
  BY UpdatesAssumption
<1>2. role \in {"reuse", "waiter", "background"}
  OBVIOUS
<1>3. /\ new \in Job /\ new.project = p /\ new.client = c /\ new.status = "asked" /\ new.role = role
      /\ new.update = None /\ new.follow = "no"
  <2> HIDE DEF p, role
  <2> QED BY <1>1, <1>2, NewJobType
<1>4. Copied(p) \in ProjectRow
  BY <1>1 DEF Copied, Tables, ProjectRow, Stages
<1>5. head \in 0..MaxUpdates /\ None \in 0..MaxUpdates
  BY UpdatesAssumption DEF Tables, None
<1>6. job' = Append(job, row)
  BY DEF Ask
<1> HIDE DEF new
<1>7. /\ row \in Job /\ row.project = new.project /\ row.client = new.client /\ row.status = new.status
      /\ row.role = new.role /\ row.update = new.update /\ row.follow = new.follow
      /\ row.seen = Copied(p) /\ row.overlay = (IF reuse THEN head ELSE None)
  <2> HIDE DEF p
  <2> QED BY <1>3, <1>4, <1>5 DEF Job
<1> HIDE DEF row
<1>8. job'[Len(job) + 1] = row
  BY <1>6, <1>7, AppendedRow DEF Tables
<1> QED BY <1>1, <1>3, <1>6, <1>7, <1>8 DEF Ask

\* One row of job, and only it, is changed.
OnlyRow(j) ==
  /\ j \in DOMAIN job /\ job' \in Seq(Job) /\ Len(job') = Len(job) /\ DOMAIN job' = DOMAIN job
  /\ job'[j] \in Job
  /\ \A i \in DOMAIN job \ {j} : job'[i] = job[i]
  /\ job'[j].project = job[j].project /\ job'[j].client = job[j].client

LEMMA RowChange ==
  ASSUME Tables, NEW j \in DOMAIN job, NEW row \in Job, job' = [job EXCEPT ![j] = row],
         row.project = job[j].project, row.client = job[j].client
  PROVE  OnlyRow(j) /\ job'[j] = row
<1>1. job \in Seq(Job)
  BY DEF Tables
<1> QED BY <1>1, ReplacedRow DEF OnlyRow

LEMMA RefuseEffect ==
  ASSUME Tables, NEW j, Refuse(j)
  PROVE  /\ UNCHANGED <<project, update, overlay, head, generation, reserved, lapses>>
         /\ OnlyRow(j) /\ job[j].status = "asked"
         /\ job'[j] = [job[j] EXCEPT !.status = "dropped"]
<1>1. j \in DOMAIN job /\ job[j].status = "asked" /\ job[j] \in Job
  BY DEF Refuse, Asked, Tables
<1> DEFINE row == [job[j] EXCEPT !.status = "dropped"]
<1>2. row \in Job /\ row.project = job[j].project /\ row.client = job[j].client
  BY <1>1 DEF Job
<1>3. job' = [job EXCEPT ![j] = row]
  BY <1>1 DEF Refuse
<1> HIDE DEF row
<1>4. OnlyRow(j) /\ job'[j] = row
  BY <1>1, <1>2, <1>3, RowChange
<1> QED BY <1>1, <1>4 DEF Refuse, row

LEMMA FollowEffect ==
  ASSUME Tables, NEW j, Follow(j)
  PROVE  /\ UNCHANGED <<update, overlay, head, generation, reserved, lapses>>
         /\ OnlyRow(j) /\ job[j].follow # "no" /\ job[j].follow \in Stages
         /\ job'[j] = [job[j] EXCEPT !.follow = "no"]
         /\ project' = [project EXCEPT ![job[j].project] = [stage |-> job[j].follow, key |-> job[j].seen.key]]
<1>1. j \in DOMAIN job /\ job[j].follow # "no" /\ job[j] \in Job
  BY DEF Follow, Tables
<1> DEFINE row == [job[j] EXCEPT !.follow = "no"]
<1>2. row \in Job /\ row.project = job[j].project /\ row.client = job[j].client
  BY <1>1 DEF Job
<1>3. job' = [job EXCEPT ![j] = row]
  BY <1>1 DEF Follow
<1> HIDE DEF row
<1>4. OnlyRow(j) /\ job'[j] = row
  BY <1>1, <1>2, <1>3, RowChange
<1>5. job[j].follow \in Stages
  BY <1>1, RowType
<1> QED BY <1>1, <1>4, <1>5 DEF Follow, row

LEMMA ClaimEffect ==
  ASSUME Tables, NEW j, Claim(j)
  PROVE  /\ UNCHANGED <<update, overlay, head, generation, reserved, lapses>>
         /\ OnlyRow(j) /\ (Midway = {} \/ Slow # {})
         /\ job[j].status \in {"queued", "lapsed"} /\ job[j].role # "waiter"
         /\ job'[j].status = "running" /\ job'[j].seen = project[job[j].project]
         /\ job'[j].role = job[j].role /\ job'[j].update = job[j].update
         /\ job'[j].overlay = job[j].overlay /\ job'[j].follow = job[j].follow
         /\ \E marked \in SUBSET Projects :
              /\ project' = [q \in Projects |-> IF q \in marked THEN [project[q] EXCEPT !.stage = "working"]
                                                ELSE project[q]]
              /\ \/ job[j].update # None /\ marked \subseteq Joined(job[j].update)
                 \/ job[j].update = None /\ marked \subseteq {job[j].project}
<1>1. j \in DOMAIN job /\ job[j] \in Job /\ job[j].status \in {"queued", "lapsed"} /\ job[j].role # "waiter"
  BY DEF Claim, Claimable, Tables
<1> DEFINE old == job[j]
           exhausted == old.attempt >= MaxAttempts
           row == [old EXCEPT !.status = "running", !.exhausted = exhausted,
                     !.attempt = Counted(old.attempt), !.seen = project[old.project]]
<1>2. /\ exhausted \in BOOLEAN /\ Counted(old.attempt) \in 0..MaxAttempts
      /\ project[old.project] \in ProjectRow
  <2>1. old.attempt \in 0..MaxAttempts /\ MaxAttempts \in Nat /\ old.project \in Projects
    BY <1>1, RowType, UpdatesAssumption
  <2> HIDE DEF old
  <2> QED BY <2>1 DEF Counted, Tables
<1>3. job' = [job EXCEPT ![j] = row]
  BY <1>1 DEF Claim
<1> HIDE DEF exhausted
<1>4. /\ row \in Job /\ row.project = old.project /\ row.client = old.client /\ row.status = "running"
      /\ row.seen = project[old.project] /\ row.role = old.role /\ row.update = old.update
      /\ row.overlay = old.overlay /\ row.follow = old.follow
  <2>1. old \in Job
    BY <1>1
  <2> HIDE DEF old
  <2> QED BY <1>2, <2>1 DEF Job, InQueue
<1> HIDE DEF row
<1>5. OnlyRow(j) /\ job'[j] = row
  BY <1>1, <1>3, <1>4, RowChange
<1> DEFINE p == old.project
           marked == IF old.attempt >= MaxAttempts THEN {}
                     ELSE IF old.update # None
                     THEN {q \in Joined(old.update) : ~Readable(project[q])}
                     ELSE IF Translates(project[p].key) THEN {p} ELSE {}
           real == marked \cap Projects
<1>6. project' = [q \in Projects |-> IF q \in marked THEN [project[q] EXCEPT !.stage = "working"]
                                     ELSE project[q]]
  BY DEF Claim
<1>7. project' = [q \in Projects |-> IF q \in real THEN [project[q] EXCEPT !.stage = "working"]
                                     ELSE project[q]]
  <2> HIDE DEF marked
  <2> QED BY <1>6
<1>8. \/ old.update # None /\ real \subseteq Joined(old.update)
      \/ old.update = None /\ real \subseteq {p}
  OBVIOUS
<1>9. UNCHANGED <<update, overlay, head, generation, reserved, lapses>> /\ (Midway = {} \/ Slow # {})
  BY DEF Claim, Undisturbed
<1>10. real \in SUBSET Projects
  OBVIOUS
<1> HIDE DEF marked, real
<1>11. \E m \in SUBSET Projects :
         /\ project' = [q \in Projects |-> IF q \in m THEN [project[q] EXCEPT !.stage = "working"]
                                           ELSE project[q]]
         /\ \/ old.update # None /\ m \subseteq Joined(old.update)
            \/ old.update = None /\ m \subseteq {p}
  BY <1>7, <1>8, <1>10
<1> QED BY <1>1, <1>4, <1>5, <1>9, <1>11

LEMMA RestEffect ==
  ASSUME Tables, NEW j, Lapse(j) \/ Retry(j)
  PROVE  /\ UNCHANGED <<project, update, overlay, head, generation, reserved>>
         /\ lapses' \in 0..MaxLapses
         /\ OnlyRow(j) /\ job[j].status = "running"
         /\ \E status \in {"lapsed", "queued"} : job'[j] = [job[j] EXCEPT !.status = status]
<1>1. j \in DOMAIN job /\ job[j] \in Job /\ job[j].status = "running"
  BY DEF Lapse, Retry, Executing, Tables
<1>2. PICK status \in {"lapsed", "queued"} : job' = [job EXCEPT ![j] = [job[j] EXCEPT !.status = status]]
  BY <1>1 DEF Lapse, Retry
<1> DEFINE row == [job[j] EXCEPT !.status = status]
<1>3. row \in Job /\ row.project = job[j].project /\ row.client = job[j].client
  BY <1>1 DEF Job, InQueue
<1>4. job' = [job EXCEPT ![j] = row]
  BY <1>2
<1> HIDE DEF row
<1>5. OnlyRow(j) /\ job'[j] = row
  BY <1>1, <1>3, <1>4, RowChange
<1>6. lapses' \in 0..MaxLapses
  BY UpdatesAssumption DEF Lapse, Retry, Tables
<1> QED BY <1>1, <1>5, <1>6 DEF Lapse, Retry, row

LEMMA UpdateType ==
  ASSUME NEW row \in AnyUpdate
  PROVE  /\ row.status \in {"active", "succeeded", "failed", "deleted"} /\ row.leader \in Projects
         /\ row.joined \in Seq(Projects) /\ row.base \in Int
         /\ row.budget \in {"none", "reserved", "settled"}
BY DEF AnyUpdate

\* A new update, of one project.
OneUpdateMore(p, budget) ==
  /\ ActiveUpdates = {} /\ Len(update) < MaxUpdates
  /\ update' \in Seq(AnyUpdate) /\ Len(update') = Len(update) + 1 /\ Len(update) + 1 \in 1..MaxUpdates
  /\ DOMAIN update' = DOMAIN update \cup {Len(update) + 1}
  /\ \A u \in DOMAIN update : update'[u] = update[u] /\ u # Len(update) + 1
  /\ update'[Len(update) + 1].status = "active" /\ update'[Len(update) + 1].leader = p
  /\ update'[Len(update) + 1].base = (IF generation = 0 THEN -1 ELSE generation)
  /\ update'[Len(update) + 1].budget = budget /\ ToSet(update'[Len(update) + 1].joined) = {p}

LEMMA OneUpdateMoreHolds ==
  ASSUME Tables, NEW p \in Projects, NEW budget \in {"none", "reserved"},
         ActiveUpdates = {}, Len(update) < MaxUpdates, update' = Append(update, NewUpdate(p, budget))
  PROVE  OneUpdateMore(p, budget)
<1> DEFINE new == NewUpdate(p, budget)
<1>1. /\ new \in AnyUpdate /\ new.status = "active" /\ new.leader = p /\ new.budget = budget
      /\ new.joined = <<p>> /\ new.base = (IF generation = 0 THEN -1 ELSE generation)
  <2>1. <<p>> \in Seq(Projects)
    OBVIOUS
  <2>2. (IF generation = 0 THEN -1 ELSE generation) \in Int
    BY DEF Tables
  <2> QED BY <2>1, <2>2 DEF NewUpdate, AnyUpdate
<1> HIDE DEF new
<1>2. update \in Seq(AnyUpdate) /\ update' = Append(update, new) /\ Len(update) \in Nat /\ MaxUpdates \in Nat
  BY UpdatesAssumption DEF Tables, new
<1>3. /\ update' \in Seq(AnyUpdate) /\ Len(update') = Len(update) + 1
      /\ DOMAIN update' = DOMAIN update \cup {Len(update) + 1}
      /\ \A u \in DOMAIN update : update'[u] = update[u] /\ u # Len(update) + 1
      /\ update'[Len(update) + 1] = new
  <2>1. /\ update' \in Seq(AnyUpdate) /\ Len(update') = Len(update) + 1
        /\ DOMAIN update = 1..Len(update) /\ DOMAIN update' = 1..Len(update) + 1
        /\ \A u \in DOMAIN update : update'[u] = update[u]
        /\ update'[Len(update) + 1] = new
    BY <1>1, <1>2, AppendedRow
  <2> QED BY <1>2, <2>1
<1>4. Len(update) + 1 \in 1..MaxUpdates
  BY <1>2
<1>5. ToSet(<<p>>) = {p}
  BY DEF ToSet
<1> QED BY <1>1, <1>3, <1>4, <1>5 DEF OneUpdateMore

\* A project joins an active update, if it has not joined it before.
OneJoins(v, p) ==
  /\ v \in ActiveUpdates
  /\ update' \in Seq(AnyUpdate) /\ Len(update') = Len(update) /\ DOMAIN update' = DOMAIN update
  /\ \A u \in DOMAIN update \ {v} : update'[u] = update[u]
  /\ update'[v].status = "active" /\ update'[v].leader = update[v].leader
  /\ update'[v].budget = update[v].budget /\ update'[v].base = update[v].base
  /\ ToSet(update'[v].joined) = ToSet(update[v].joined) \cup {p}

LEMMA JoinedMore ==
  ASSUME NEW p \in Projects, NEW list \in Seq(Projects),
         NEW more, more = IF p \in ToSet(list) THEN list ELSE Append(list, p)
  PROVE  more \in Seq(Projects) /\ ToSet(more) = ToSet(list) \cup {p}
<1>1. CASE p \in ToSet(list)
  BY <1>1
<1>2. CASE p \notin ToSet(list)
  <2>1. more = Append(list, p)
    BY <1>2
  <2>2. /\ more \in Seq(Projects) /\ DOMAIN list = 1..Len(list) /\ DOMAIN more = 1..Len(list) + 1
        /\ Len(list) + 1 \in DOMAIN more /\ \A i \in DOMAIN more : i \in DOMAIN list \/ i = Len(list) + 1
        /\ \A i \in DOMAIN list : i \in DOMAIN more /\ more[i] = list[i]
        /\ more[Len(list) + 1] = p
    BY <2>1, AppendedRow
  <2> QED BY <2>2 DEF ToSet
<1> QED BY <1>1, <1>2

LEMMA JoinActiveEffect ==
  ASSUME Tables, NEW p \in Projects, JoinActive(p)
  PROVE  \E v \in ActiveUpdates : OneJoins(v, p)
<1>1. PICK v \in ActiveUpdates :
        update' = [update EXCEPT ![v].joined = IF p \in ToSet(@) THEN @ ELSE Append(@, p)]
  BY DEF JoinActive
<1>2. v \in DOMAIN update /\ update[v].status = "active" /\ update \in Seq(AnyUpdate) /\ update[v] \in AnyUpdate
  BY DEF ActiveUpdates, Tables
<1> DEFINE list == update[v].joined
           more == IF p \in ToSet(list) THEN list ELSE Append(list, p)
           row == [update[v] EXCEPT !.joined = more]
<1>3. more \in Seq(Projects) /\ ToSet(more) = ToSet(list) \cup {p}
  <2>1. list \in Seq(Projects)
    BY <1>2, UpdateType
  <2> HIDE DEF list
  <2> QED BY <2>1, JoinedMore
<1>4. update' = [update EXCEPT ![v] = row]
  BY <1>1, <1>2
<1> HIDE DEF more
<1>5. /\ row \in AnyUpdate /\ row.status = update[v].status /\ row.leader = update[v].leader
      /\ row.budget = update[v].budget /\ row.joined = more /\ row.base = update[v].base
  BY <1>2, <1>3 DEF AnyUpdate
<1> HIDE DEF row
<1>6. /\ update' \in Seq(AnyUpdate) /\ Len(update') = Len(update) /\ DOMAIN update' = DOMAIN update
      /\ \A u \in DOMAIN update \ {v} : update'[u] = update[u]
      /\ update'[v] = row
  BY <1>2, <1>4, <1>5, ReplacedRow
<1>7. OneJoins(v, p)
  BY <1>2, <1>3, <1>5, <1>6 DEF OneJoins
<1> QED BY <1>7

LEMMA JoinEffect ==
  ASSUME Tables, NEW j, Join(j)
  PROVE  LET p == job[j].project  row == job'[j] IN
         /\ UNCHANGED <<overlay, head, generation, reserved, lapses>>
         /\ OnlyRow(j) /\ job[j].status = "asked" /\ job[j].role = "waiter" /\ p \in Projects
         /\ Admissible(p, job[j].seen)
         /\ project' = [project EXCEPT ![p] = job[j].seen]
         /\ row.status = "queued" /\ row.seen = job[j].seen /\ row.overlay = job[j].overlay
         /\ \/ /\ OneUpdateMore(p, "none")
               /\ row.role = "leader" /\ row.update = Len(update) + 1 /\ row.follow = "no"
            \/ /\ \E v \in ActiveUpdates : OneJoins(v, p)
               /\ row.role = "waiter" /\ row.update \in ActiveUpdates
               /\ \/ row.follow = "no"
                  \/ /\ ~Readable(row.seen) /\ row.follow = project'[update'[row.update].leader].stage
                     /\ update'[row.update].leader \in ToSet(update'[row.update].joined)
<1> DEFINE p == job[j].project
           leads == ActiveUpdates = {}
           u == IF leads THEN Len(update) + 1 ELSE CHOOSE v \in ActiveUpdates : TRUE
           leader == update'[u].leader
           copies == ~leads /\ ~Readable(job[j].seen) /\ leader \in ToSet(update'[u].joined)
           role == IF leads THEN "leader" ELSE "waiter"
           follow == IF copies THEN project'[leader].stage ELSE "no"
           row == [job[j] EXCEPT !.status = "queued", !.role = role, !.update = u, !.follow = follow]
<1>1. j \in DOMAIN job /\ job[j] \in Job /\ job[j].status = "asked" /\ job[j].role = "waiter"
  BY DEF Join, Asked, Tables
<1>2. p \in Projects /\ job[j].seen \in ProjectRow
  BY <1>1, RowType
<1>3. /\ UNCHANGED <<overlay, head, generation, reserved, lapses>> /\ Admissible(p, job[j].seen)
      /\ project' = [project EXCEPT ![p] = job[j].seen]
      /\ IF leads THEN Lead(p) ELSE JoinActive(p)
      /\ job' = [job EXCEPT ![j] = row]
  BY DEF Join
<1>4. leads => OneUpdateMore(p, "none") /\ u = Len(update) + 1 /\ u \in DOMAIN update'
  <2> HIDE DEF p, u
  <2>1. SUFFICES ASSUME leads PROVE OneUpdateMore(p, "none") /\ u = Len(update) + 1
    BY DEF OneUpdateMore
  <2>2. Lead(p) /\ u = Len(update) + 1
    BY <1>3, <2>1 DEF u
  <2> QED BY <1>2, <2>2, OneUpdateMoreHolds DEF Lead
<1>5. ~leads => /\ \E v \in ActiveUpdates : OneJoins(v, p)
                /\ u \in ActiveUpdates /\ u \in DOMAIN update'
  <2> HIDE DEF p, u
  <2>1. SUFFICES ASSUME ~leads
                 PROVE  (\E v \in ActiveUpdates : OneJoins(v, p)) /\ u \in ActiveUpdates
    BY DEF OneJoins, ActiveUpdates
  <2>2. JoinActive(p)
    BY <1>3, <2>1
  <2>3. u \in ActiveUpdates
    BY <2>1 DEF u
  <2> QED BY <1>2, <2>2, <2>3, JoinActiveEffect
<1>6. u \in 0..MaxUpdates
  <2> HIDE DEF u
  <2>1. leads => u \in 0..MaxUpdates
    BY <1>4, UpdatesAssumption DEF OneUpdateMore
  <2>2. ~leads => u \in 0..MaxUpdates
    BY <1>5, UpdatesAssumption DEF Tables, ActiveUpdates
  <2> QED BY <2>1, <2>2
<1>7. follow \in Stages \cup {"no"}
  <2>1. ASSUME copies PROVE project'[leader].stage \in Stages
    <3>1. update' \in Seq(AnyUpdate) /\ u \in DOMAIN update'
      <4> HIDE DEF u, p
      <4> QED BY <1>4, <1>5 DEF OneUpdateMore, OneJoins
    <3>2. leader \in Projects
      <4> HIDE DEF u
      <4> QED BY <3>1, UpdateType
    <3>3. project' \in [Projects -> ProjectRow]
      BY <1>2, <1>3 DEF Tables
    <3> HIDE DEF leader
    <3> QED BY <3>2, <3>3 DEF ProjectRow
  <2> HIDE DEF copies
  <2> QED BY <2>1
<1> HIDE DEF u
<1>8. role \in {"leader", "waiter"}
  OBVIOUS
<1>9. /\ row \in Job /\ row.project = job[j].project /\ row.client = job[j].client
      /\ row.status = "queued" /\ row.role = role /\ row.update = u /\ row.follow = follow
      /\ row.seen = job[j].seen /\ row.overlay = job[j].overlay
  <2> HIDE DEF role, follow
  <2> QED BY <1>1, <1>6, <1>7, <1>8 DEF Job, InQueue
<1> HIDE DEF row
<1>10. OnlyRow(j) /\ job'[j] = row
  BY <1>1, <1>3, <1>9, RowChange
<1>11. CASE leads
  <2>1. role = "leader" /\ follow = "no" /\ u = Len(update) + 1 /\ OneUpdateMore(p, "none")
    BY <1>4, <1>11
  <2> HIDE DEF role, follow, leads
  <2> QED BY <1>1, <1>2, <1>3, <1>9, <1>10, <2>1
<1>12. CASE ~leads
  <2>1. /\ role = "waiter" /\ u \in ActiveUpdates /\ \E v \in ActiveUpdates : OneJoins(v, p)
        /\ \/ follow = "no"
           \/ /\ ~Readable(job[j].seen) /\ follow = project'[update'[u].leader].stage
              /\ update'[u].leader \in ToSet(update'[u].joined)
    BY <1>5, <1>12
  <2> HIDE DEF role, follow, leads
  <2> QED BY <1>1, <1>2, <1>3, <1>9, <1>10, <2>1
<1> QED BY <1>11, <1>12

LEMMA ReuseEffect ==
  ASSUME Tables, References, NEW j, Reuse(j)
  PROVE  LET p == job[j].project  k == job[j].overlay  row == job'[j] IN
         /\ UNCHANGED <<update, head, generation, reserved, lapses>>
         /\ OnlyRow(j) /\ job[j].status = "asked" /\ job[j].role = "reuse" /\ p \in Projects
         /\ k \in 1..MaxUpdates /\ Admissible(p, job[j].seen)
         /\ overlay' \in [1..MaxUpdates -> [Languages -> {"none", "pending", "ready", "failed"}]]
         /\ row.update = job[j].update
         /\ \/ /\ row.status = "succeeded" /\ row.seen.key = k /\ row.role = "waiter"
               /\ \/ project' = project /\ row.follow = "done" /\ project[p].stage # "absent"
                  \/ project' = [project EXCEPT ![p] = [stage |-> "done", key |-> k]] /\ row.follow = "no"
            \/ /\ row.status = "queued" /\ row.overlay = k /\ row.seen = job[j].seen
               /\ row.follow = job[j].follow
               /\ row.role = "overlay" \/ (row.role = "waiter" /\ OverlayRunner(k, LanguageOf[p]))
               /\ project' = [project EXCEPT ![p] = [stage |-> "working", key |-> k]]
<1> DEFINE p == job[j].project  k == job[j].overlay  l == LanguageOf[p]
           creates == project[p].stage = "absent"
<1>1. j \in DOMAIN job /\ job[j] \in Job /\ job[j].status = "asked" /\ job[j].role = "reuse"
  BY DEF Reuse, Asked, Tables
<1>2. p \in Projects /\ k \in 1..MaxUpdates /\ l \in Languages /\ job[j].seen \in ProjectRow
  <2>1. p \in Projects /\ k \in 0..MaxUpdates /\ k # 0 /\ job[j].seen \in ProjectRow
    BY <1>1, RowType DEF References, None
  <2> HIDE DEF p, k
  <2> QED BY <2>1, UpdatesAssumption
<1>3. UNCHANGED <<update, head, generation, reserved, lapses>> /\ Admissible(p, job[j].seen)
  BY DEF Reuse
<1>4. CASE overlay[k][l] = "ready"
  <2> DEFINE follow == IF creates THEN "no" ELSE "done"
             new == [job[j].seen EXCEPT !.key = k]
             row == [job[j] EXCEPT !.status = "succeeded", !.exhausted = FALSE, !.overlay = None,
                       !.seen = new, !.role = "waiter", !.follow = follow]
  <2>1. job' = [job EXCEPT ![j] = [Ended(job[j], "succeeded") EXCEPT
                  !.overlay = None, !.seen.key = k, !.role = "waiter", !.follow = follow]]
    BY <1>1, <1>4 DEF Reuse
  <2>2. [Ended(job[j], "succeeded") EXCEPT
           !.overlay = None, !.seen.key = k, !.role = "waiter", !.follow = follow] = row
    <3> HIDE DEF k, follow
    <3> QED BY <1>1 DEF Ended, Job
  <2>3. job' = [job EXCEPT ![j] = row]
    BY <2>1, <2>2
  <2>4. follow \in {"no", "done"} /\ follow \in Stages \cup {"no"} /\ 0 \in 0..MaxUpdates
    BY UpdatesAssumption DEF Stages
  <2>5. new \in ProjectRow /\ new.key = k
    <3> HIDE DEF k
    <3> QED BY <1>2, UpdatesAssumption DEF ProjectRow
  <2> HIDE DEF new
  <2>6. /\ row \in Job /\ row.project = job[j].project /\ row.client = job[j].client
        /\ row.status = "succeeded" /\ row.seen = new /\ row.role = "waiter" /\ row.follow = follow
        /\ row.update = job[j].update
    <3> HIDE DEF follow
    <3> QED BY <1>1, <2>4, <2>5 DEF Job, None
  <2> HIDE DEF row
  <2>7. OnlyRow(j) /\ job'[j] = row
    BY <1>1, <2>3, <2>6, RowChange
  <2>8. overlay' = overlay
    BY <1>4 DEF Reuse
  <2>9. \/ project' = project /\ follow = "done" /\ project[p].stage # "absent"
        \/ project' = [project EXCEPT ![p] = [stage |-> "done", key |-> k]] /\ follow = "no"
    BY <1>4 DEF Reuse
  <2> HIDE DEF follow, k, p
  <2> QED BY <1>1, <1>2, <1>3, <2>5, <2>6, <2>7, <2>8, <2>9 DEF k, p, Tables
<1>5. CASE overlay[k][l] # "ready"
  <2> DEFINE role == IF OverlayRunner(k, l) THEN "waiter" ELSE "overlay"
             row == [job[j] EXCEPT !.status = "queued", !.role = role]
  <2>1. job' = [job EXCEPT ![j] = row]
    BY <1>1, <1>5 DEF Reuse
  <2>2. role = "overlay" \/ (role = "waiter" /\ OverlayRunner(k, l))
    OBVIOUS
  <2>3. /\ project' = [project EXCEPT ![p] = [stage |-> "working", key |-> k]]
        /\ overlay' = [overlay EXCEPT ![k][l] = "pending"]
    BY <1>5 DEF Reuse
  <2> HIDE DEF role
  <2>4. /\ row \in Job /\ row.project = job[j].project /\ row.client = job[j].client
        /\ row.status = "queued" /\ row.seen = job[j].seen /\ row.role = role /\ row.follow = job[j].follow
        /\ row.update = job[j].update /\ row.overlay = job[j].overlay
    BY <1>1, <2>2 DEF Job, InQueue
  <2> HIDE DEF row
  <2>5. OnlyRow(j) /\ job'[j] = row
    BY <1>1, <2>1, <2>4, RowChange
  <2>6. overlay' \in [1..MaxUpdates -> [Languages -> {"none", "pending", "ready", "failed"}]]
    <3> HIDE DEF p, k, l
    <3> QED BY <1>2, <2>3 DEF Tables
  <2> HIDE DEF l
  <2> QED BY <1>1, <1>2, <1>3, <2>2, <2>3, <2>4, <2>5, <2>6 DEF l
<1> QED BY <1>4, <1>5

LEMMA BackgroundEffect ==
  ASSUME Tables, NEW p \in Projects, StartBackground(p)
  PROVE  LET n == Len(job) + 1  row == job'[n] IN
         /\ UNCHANGED <<project, overlay, head, generation, lapses>>
         /\ job' = Append(job, row) /\ row \in Job
         /\ row.project = p /\ row.status = "queued" /\ row.role = "background"
         /\ row.update = Len(update) + 1 /\ row.follow = "no" /\ row.overlay = None
         /\ Exists(p) /\ project[p].key # None /\ (Midway = {} \/ Slow # {})
         /\ OneUpdateMore(p, "reserved")
         /\ reserved < MaxReserved /\ reserved' = reserved + 1
         /\ Len(job) < MaxJobs
<1> DEFINE new == NewJob(p, "scheduler", "queued", "background")
           row == [new EXCEPT !.update = Len(update) + 1]
<1>1. OneUpdateMore(p, "reserved")
  <2>1. /\ ActiveUpdates = {} /\ Len(update) < MaxUpdates
        /\ update' = Append(update, NewUpdate(p, "reserved"))
    BY DEF StartBackground
  <2> QED BY <2>1, OneUpdateMoreHolds
<1>2. /\ new \in Job /\ new.project = p /\ new.status = "queued" /\ new.role = "background"
      /\ new.follow = "no" /\ new.overlay = None
  BY NewJobType
<1>3. Len(update) + 1 \in 0..MaxUpdates
  BY <1>1, UpdatesAssumption DEF OneUpdateMore
<1> HIDE DEF new
<1>4. /\ row \in Job /\ row.project = p /\ row.status = "queued" /\ row.role = "background"
      /\ row.update = Len(update) + 1 /\ row.follow = "no" /\ row.overlay = None
  BY <1>2, <1>3 DEF Job
<1>5. job' = Append(job, row)
  BY DEF StartBackground, new
<1> HIDE DEF row
<1>6. job'[Len(job) + 1] = row
  BY <1>4, <1>5, AppendedRow DEF Tables
<1>7. /\ UNCHANGED <<project, overlay, head, generation, lapses>>
      /\ Exists(p) /\ project[p].key # None /\ (Midway = {} \/ Slow # {})
      /\ reserved < MaxReserved /\ reserved' = reserved + 1 /\ Len(job) < MaxJobs
  BY DEF StartBackground, Undisturbed
<1> QED BY <1>1, <1>4, <1>5, <1>6, <1>7

\* An execution ends its update.
OneEnds(u, status) ==
  /\ u \in DOMAIN update
  /\ update' \in Seq(AnyUpdate) /\ Len(update') = Len(update) /\ DOMAIN update' = DOMAIN update
  /\ \A v \in DOMAIN update \ {u} : update'[v] = update[v]
  /\ update'[u].status = status /\ update'[u].base = update[u].base
  /\ update'[u].joined = update[u].joined /\ update'[u].leader = update[u].leader
  /\ update'[u].budget = IF update[u].budget = "reserved" THEN "settled" ELSE update[u].budget
  /\ reserved' = IF update[u].budget = "reserved" THEN reserved - 1 ELSE reserved

LEMMA OneEndsHolds ==
  ASSUME Tables, NEW u \in DOMAIN update, NEW status \in {"succeeded", "failed"},
         update' = [update EXCEPT ![u] = Settled(u, status)], Freed(u)
  PROVE  OneEnds(u, status)
<1> DEFINE new == Settled(u, status)
           budget == IF update[u].budget = "reserved" THEN "settled" ELSE update[u].budget
<1>1. update \in Seq(AnyUpdate) /\ update[u] \in AnyUpdate
  BY DEF Tables
<1>2. /\ new \in AnyUpdate /\ new.status = status /\ new.base = update[u].base
      /\ new.joined = update[u].joined /\ new.leader = update[u].leader /\ new.budget = budget
  BY <1>1 DEF Settled, AnyUpdate
<1> HIDE DEF new
<1>3. /\ update' \in Seq(AnyUpdate) /\ Len(update') = Len(update) /\ DOMAIN update' = DOMAIN update
      /\ \A v \in DOMAIN update \ {u} : update'[v] = update[v]
      /\ update'[u] = new
  <2>1. update' = [update EXCEPT ![u] = new]
    BY DEF new
  <2> QED BY <1>1, <1>2, <2>1, ReplacedRow
<1> QED BY <1>2, <1>3 DEF OneEnds, Freed

\* Some rows of job end and the others stay.
EndedRows(S, status) ==
  /\ job' \in Seq(Job) /\ Len(job') = Len(job) /\ DOMAIN job' = DOMAIN job
  /\ \A i \in DOMAIN job :
       /\ i \notin S => job'[i] = job[i]
       /\ i \in S => job'[i].status = status
       /\ job'[i].project = job[i].project /\ job'[i].update = job[i].update
       /\ job'[i].role = job[i].role /\ job'[i].overlay = job[i].overlay
       /\ job'[i].follow = job[i].follow /\ job'[i].seen = job[i].seen
       /\ job'[i].client = job[i].client

LEMMA EndedRow ==
  ASSUME NEW row \in Job, NEW status \in {"succeeded", "failed"}
  PROVE  /\ Ended(row, status) \in Job /\ Ended(row, status).status = status
         /\ Ended(row, status).project = row.project /\ Ended(row, status).update = row.update
         /\ Ended(row, status).role = row.role /\ Ended(row, status).overlay = row.overlay
         /\ Ended(row, status).follow = row.follow /\ Ended(row, status).seen = row.seen
         /\ Ended(row, status).client = row.client
BY DEF Ended, Job

LEMMA EndAllRows ==
  ASSUME Tables, NEW S, NEW status \in {"succeeded", "failed"}, job' = EndAll(S, status)
  PROVE  EndedRows(S, status)
<1>1. job' = [i \in DOMAIN job |-> IF i \in S THEN Ended(job[i], status) ELSE job[i]]
  BY DEF EndAll
<1>2. \A i \in DOMAIN job : job[i] \in Job
  BY DEF Tables
<1>3. \A i \in DOMAIN job : job'[i] = IF i \in S THEN Ended(job[i], status) ELSE job[i]
  BY <1>1
<1>4. \A i \in DOMAIN job : job'[i] \in Job
  BY <1>2, <1>3, EndedRow
<1>5. job' \in Seq(Job) /\ Len(job') = Len(job) /\ DOMAIN job' = DOMAIN job
  <2>1. DOMAIN job = 1..Len(job) /\ Len(job) \in Nat
    BY DEF Tables
  <2> QED BY <1>1, <1>4, <2>1
<1> QED BY <1>2, <1>3, <1>5, EndedRow DEF EndedRows

LEMMA FailUpdateEffect ==
  ASSUME Tables, References, NEW j, FailUpdate(j)
  PROVE  LET u == job[j].update IN
         /\ UNCHANGED <<overlay, head, generation, lapses>>
         /\ j \in DOMAIN job /\ job[j].status = "running" /\ u # None /\ (Midway = {} \/ Slow # {})
         /\ OneEnds(u, "failed")
         /\ EndedRows({i \in DOMAIN job : Active(i) /\ job[i].update = u}, "failed")
         /\ project' = [p \in Projects |-> IF p \notin Joined(u) THEN project[p] ELSE
                          [project[p] EXCEPT !.stage = StageAfterFailure(p)]]
<1> DEFINE u == job[j].update
<1>1. /\ UNCHANGED <<overlay, head, generation, lapses>>
      /\ j \in DOMAIN job /\ job[j].status = "running" /\ u # None /\ (Midway = {} \/ Slow # {})
      /\ update' = [update EXCEPT ![u] = Settled(u, "failed")] /\ Freed(u)
      /\ job' = EndAll({i \in DOMAIN job : Active(i) /\ job[i].update = u}, "failed")
      /\ project' = [p \in Projects |-> IF p \notin Joined(u) THEN project[p] ELSE
                          [project[p] EXCEPT !.stage = StageAfterFailure(p)]]
  BY DEF FailUpdate, Executing, Undisturbed
<1>2. u \in DOMAIN update
  BY <1>1 DEF References
<1> HIDE DEF u
<1>3. OneEnds(u, "failed")
  BY <1>1, <1>2, OneEndsHolds
<1>4. EndedRows({i \in DOMAIN job : Active(i) /\ job[i].update = u}, "failed")
  BY <1>1, EndAllRows
<1> QED BY <1>1, <1>3, <1>4 DEF u

\* An execution of an overlay ends the jobs of S; its own lapses if it is not in S.
OverlayRows(S, j, status) ==
  /\ job' \in Seq(Job) /\ Len(job') = Len(job) /\ DOMAIN job' = DOMAIN job
  /\ \A i \in DOMAIN job :
       /\ i \notin S /\ i # j => job'[i] = job[i]
       /\ i \in S => job'[i].status = status
       /\ i \notin S /\ i = j => job'[i].status = "lapsed"
       /\ job'[i].project = job[i].project /\ job'[i].update = job[i].update
       /\ job'[i].role = job[i].role /\ job'[i].overlay = job[i].overlay
       /\ job'[i].follow = job[i].follow /\ job'[i].seen = job[i].seen
       /\ job'[i].client = job[i].client

LEMMA EndOverlayEffect ==
  ASSUME Tables, NEW j \in DOMAIN job, job[j].seen.key # None,
         NEW status \in {"succeeded", "failed"}, NEW stage \in {"done", "failed"}, EndOverlay(j, status, stage)
  PROVE  LET k == job[j].seen.key  l == LanguageOf[job[j].project]  S == OverlayJobs(k, l) IN
         /\ UNCHANGED <<update, head, generation, reserved, lapses>>
         /\ overlay' \in [1..MaxUpdates -> [Languages -> {"none", "pending", "ready", "failed"}]]
         /\ OverlayRows(S, j, status)
         /\ project' = [p \in Projects |-> IF \E i \in S : job[i].project = p
                                           THEN [project[p] EXCEPT !.stage = stage] ELSE project[p]]
<1> DEFINE k == job[j].seen.key  l == LanguageOf[job[j].project]  S == OverlayJobs(k, l)
           ended == EndAll(S, status)
<1>1. /\ UNCHANGED <<update, head, generation, reserved, lapses>>
      /\ overlay' = [overlay EXCEPT ![k][l] = IF status = "succeeded" THEN "ready" ELSE "failed"]
      /\ project' = [p \in Projects |-> IF \E i \in S : job[i].project = p
                                        THEN [project[p] EXCEPT !.stage = stage] ELSE project[p]]
      /\ job' = [ended EXCEPT ![j].status = IF j \in S THEN @ ELSE "lapsed"]
  BY DEF EndOverlay
<1>2. k \in 1..MaxUpdates /\ l \in Languages /\ job[j] \in Job
  <2>1. job[j] \in Job
    BY DEF Tables
  <2>2. job[j].seen \in ProjectRow /\ job[j].project \in Projects
    BY <2>1, RowType
  <2>3. k \in 0..MaxUpdates /\ k # 0
    BY <2>2 DEF ProjectRow, None
  <2>4. l \in Languages
    BY <2>2, UpdatesAssumption
  <2>5. MaxUpdates \in Nat
    BY UpdatesAssumption
  <2> HIDE DEF k, l
  <2> QED BY <2>1, <2>3, <2>4, <2>5
<1>3. overlay' \in [1..MaxUpdates -> [Languages -> {"none", "pending", "ready", "failed"}]]
  <2> HIDE DEF k, l
  <2> QED BY <1>1, <1>2 DEF Tables
<1> HIDE DEF S
<1>4. \A i \in DOMAIN job : job[i] \in Job
  BY DEF Tables
<1>5. /\ DOMAIN ended = DOMAIN job
      /\ \A i \in DOMAIN job : ended[i] = IF i \in S THEN Ended(job[i], status) ELSE job[i]
  BY DEF EndAll
<1>6. \A i \in DOMAIN job : ended[i] \in Job
  BY <1>4, <1>5, EndedRow
<1>7. ended \in Seq(Job) /\ Len(ended) = Len(job)
  <2>1. DOMAIN job = 1..Len(job) /\ Len(job) \in Nat
    BY DEF Tables
  <2>2. ended = [i \in 1..Len(job) |-> ended[i]]
    BY <2>1 DEF EndAll
  <2> HIDE DEF ended
  <2> QED BY <1>5, <1>6, <2>1, <2>2
<1> HIDE DEF ended
<1> DEFINE row == IF j \in S THEN ended[j] ELSE [ended[j] EXCEPT !.status = "lapsed"]
<1>8. job' = [ended EXCEPT ![j] = row]
  <2>1. CASE j \in S
    <3>1. ended[j] = [ended[j] EXCEPT !.status = ended[j].status]
      BY <1>6 DEF Job
    <3>2. row = ended[j]
      BY <2>1
    <3>3. job' = [ended EXCEPT ![j] = [ended[j] EXCEPT !.status = ended[j].status]]
      BY <1>1, <1>5, <2>1
    <3> HIDE DEF row
    <3> QED BY <3>1, <3>2, <3>3
  <2>2. CASE j \notin S
    BY <1>1, <1>5, <2>2
  <2> QED BY <2>1, <2>2
<1>9. /\ row \in Job
      /\ j \notin S => row.status = "lapsed"
      /\ j \in S => row.status = ended[j].status
      /\ row.project = ended[j].project /\ row.update = ended[j].update
      /\ row.role = ended[j].role /\ row.overlay = ended[j].overlay
      /\ row.follow = ended[j].follow /\ row.seen = ended[j].seen
      /\ row.client = ended[j].client
  BY <1>6 DEF Job, InQueue
<1> HIDE DEF row
<1>10. /\ job' \in Seq(Job) /\ Len(job') = Len(job) /\ DOMAIN job' = DOMAIN job
       /\ \A i \in DOMAIN job \ {j} : job'[i] = ended[i]
       /\ job'[j] = row
  <2>1. j \in DOMAIN ended
    BY <1>5
  <2> QED BY <1>5, <1>7, <1>8, <1>9, <2>1, ReplacedRow
<1>11. OverlayRows(S, j, status)
  <2>1. ASSUME NEW i \in DOMAIN job
        PROVE  /\ i \notin S /\ i # j => job'[i] = job[i]
               /\ i \in S => job'[i].status = status
               /\ i \notin S /\ i = j => job'[i].status = "lapsed"
               /\ job'[i].project = job[i].project /\ job'[i].update = job[i].update
               /\ job'[i].role = job[i].role /\ job'[i].overlay = job[i].overlay
               /\ job'[i].follow = job[i].follow /\ job'[i].seen = job[i].seen
               /\ job'[i].client = job[i].client
    <3>1. /\ ended[i].status = (IF i \in S THEN status ELSE job[i].status)
          /\ i \notin S => ended[i] = job[i]
          /\ ended[i].project = job[i].project /\ ended[i].update = job[i].update
          /\ ended[i].role = job[i].role /\ ended[i].overlay = job[i].overlay
          /\ ended[i].follow = job[i].follow /\ ended[i].seen = job[i].seen
          /\ ended[i].client = job[i].client
      BY <1>4, <1>5, EndedRow
    <3>2. CASE i = j
      BY <1>9, <1>10, <3>1, <3>2
    <3>3. CASE i # j
      BY <1>10, <3>1, <3>3
    <3> QED BY <3>2, <3>3
  <2> QED BY <1>10, <2>1 DEF OverlayRows
<1> QED BY <1>1, <1>3, <1>11 DEF S

LEMMA OverlayEffect ==
  ASSUME Tables, NEW j, PublishOverlay(j) \/ FailOverlay(j)
  PROVE  LET k == job[j].seen.key  l == LanguageOf[job[j].project]  S == OverlayJobs(k, l) IN
         /\ j \in DOMAIN job /\ job[j].status = "running" /\ job[j].role = "overlay"
         /\ (Midway = {} \/ Slow # {})
         /\ UNCHANGED <<update, head, generation, reserved, lapses>>
         /\ overlay' \in [1..MaxUpdates -> [Languages -> {"none", "pending", "ready", "failed"}]]
         /\ \/ k # None /\ \E status \in {"succeeded", "failed"}, stage \in {"done", "failed"} :
                 /\ OverlayRows(S, j, status)
                 /\ project' = [p \in Projects |-> IF \E i \in S : job[i].project = p
                                                   THEN [project[p] EXCEPT !.stage = stage] ELSE project[p]]
            \/ /\ k = None /\ EndedRows({j}, "failed")
               /\ project' = project \/ project' = [project EXCEPT ![job[j].project].stage = "failed"]
<1>1. j \in DOMAIN job /\ job[j].status = "running" /\ job[j].role = "overlay" /\ (Midway = {} \/ Slow # {})
  BY DEF PublishOverlay, FailOverlay, Executing, Undisturbed
<1>2. CASE job[j].seen.key # None
  <2>1. PICK status \in {"succeeded", "failed"}, stage \in {"done", "failed"} : EndOverlay(j, status, stage)
    BY <1>2 DEF PublishOverlay, FailOverlay
  <2> QED BY <1>1, <1>2, <2>1, EndOverlayEffect
<1>3. CASE job[j].seen.key = None
  <2>1. FailOverlay(j)
    BY <1>3 DEF PublishOverlay, Translates
  <2>2. /\ job' = EndAll({j}, "failed")
        /\ project' = project \/ project' = [project EXCEPT ![job[j].project].stage = "failed"]
        /\ UNCHANGED <<update, overlay, head, generation, reserved, lapses>>
    BY <1>3, <2>1 DEF FailOverlay
  <2>3. EndedRows({j}, "failed")
    BY <2>2, EndAllRows
  <2> QED BY <1>1, <1>3, <2>2, <2>3 DEF Tables
<1> QED BY <1>2, <1>3

\* The names of the definition of Publish.
Waiting(j) ==
  LET u == job[j].update IN
  {p \in Affected(u) : /\ LanguageOf[p] # LanguageOf[job[j].project]
                       /\ overlay[u][LanguageOf[p]] # "ready"}
RoleOf(j, p) == IF OverlayRunner(job[j].update, LanguageOf[p])
                   \/ ~(\A q \in Waiting(j) : q < p => LanguageOf[q] # LanguageOf[p])
                THEN "waiter" ELSE "overlay"
Requeued(j, row, p) ==
  [row EXCEPT !.status = "queued", !.role = RoleOf(j, p), !.update = None,
              !.overlay = job[j].update, !.attempt = 0, !.exhausted = FALSE]
RowAfter(j, i) ==
  IF job[i].project \in Affected(job[j].update) /\ Represents(i, job[j].update)
  THEN IF job[i].project \in Waiting(j) THEN Requeued(j, job[i], job[i].project)
       ELSE Ended(job[i], "succeeded")
  ELSE IF Active(i) /\ job[i].update = job[j].update /\ job[i].role = "background"
  THEN Ended(job[i], "succeeded")
  ELSE IF i = j THEN [job[i] EXCEPT !.status = "lapsed"] ELSE job[i]
Jobless(j) == {p \in Waiting(j) : JobsIn(p, job[j].update) = {}}

LEMMA PublishUnfolds ==
  ASSUME NEW j, Publish(j)
  PROVE  LET u == job[j].update IN
         /\ Executing(j) /\ u # None /\ update[u].base \in {-1, generation}
         /\ head' = u /\ generation' = generation + 1 /\ UNCHANGED lapses
         /\ overlay' = [overlay EXCEPT ![u] = [l \in Languages |->
                   IF l = LanguageOf[job[j].project] THEN "ready"
                   ELSE IF \E p \in Waiting(j) : LanguageOf[p] = l THEN "pending" ELSE overlay[u][l]]]
         /\ project' = [p \in Projects |->
              IF p \in Affected(u) THEN [stage |-> IF p \in Waiting(j) THEN "working" ELSE "done", key |-> u]
              ELSE project[p]]
         /\ job' = [i \in DOMAIN job |-> RowAfter(j, i)] \o
                   [n \in DOMAIN Ascending(Jobless(j)) |->
                      Requeued(j, NewJob(Ascending(Jobless(j))[n], "scheduler", "queued", "waiter"),
                               Ascending(Jobless(j))[n])]
         /\ update' = [update EXCEPT ![u] = Settled(u, "succeeded")] /\ Freed(u)
BY Zenon DEF Publish, Waiting, RoleOf, Requeued, RowAfter, Jobless

LEMMA RequeuedRow ==
  ASSUME NEW j, job[j].update \in 0..MaxUpdates, NEW row \in Job, NEW p
  PROVE  LET new == Requeued(j, row, p) IN
         /\ new \in Job /\ new.status = "queued" /\ new.role = RoleOf(j, p)
         /\ new.update = None /\ new.overlay = job[j].update
         /\ new.project = row.project /\ new.follow = row.follow /\ new.seen = row.seen
         /\ new.client = row.client
<1> DEFINE role == RoleOf(j, p)
<1>1. role \in {"waiter", "overlay"}
  BY DEF RoleOf
<1>2. 0 \in 0..MaxUpdates /\ 0 \in 0..MaxAttempts
  BY UpdatesAssumption
<1> HIDE DEF role
<1>3. Requeued(j, row, p) =
        [row EXCEPT !.status = "queued", !.role = role, !.update = None,
                    !.overlay = job[j].update, !.attempt = 0, !.exhausted = FALSE]
  BY DEF Requeued, role
<1> QED BY <1>1, <1>2, <1>3 DEF Job, InQueue, None, role

\* What a publication leaves of the jobs that were there, and of those it adds.
KeptRow(j, i) ==
  LET u == job[j].update
      represents == job[i].project \in Affected(u) /\ Represents(i, u) IN
  /\ job'[i].project = job[i].project /\ job'[i].follow = job[i].follow /\ job'[i].seen = job[i].seen
  /\ job'[i].client = job[i].client
  /\ represents /\ job[i].project \in Waiting(j) =>
       /\ job'[i].status = "queued" /\ job'[i].role = RoleOf(j, job[i].project)
       /\ job'[i].update = None /\ job'[i].overlay = u
  /\ represents /\ job[i].project \notin Waiting(j) =>
       /\ job'[i].status = "succeeded"
       /\ job'[i].role = job[i].role /\ job'[i].update = job[i].update /\ job'[i].overlay = job[i].overlay
  /\ ~represents =>
       /\ job'[i].role = job[i].role /\ job'[i].update = job[i].update /\ job'[i].overlay = job[i].overlay
       /\ ((job[i].update # u \/ ~Active(i)) /\ i # j) => job'[i] = job[i]
       /\ job'[i].status \in {job[i].status, "succeeded", "lapsed"}
AddedRow(j, i) ==
  /\ job'[i].project \in Jobless(j)
  /\ job'[i].status = "queued" /\ job'[i].role = RoleOf(j, job'[i].project)
  /\ job'[i].update = None /\ job'[i].overlay = job[j].update /\ job'[i].follow = "no"

LEMMA KeptRowHolds ==
  ASSUME Tables, NEW j \in DOMAIN job, NEW i \in DOMAIN job, job'[i] = RowAfter(j, i)
  PROVE  job'[i] \in Job /\ KeptRow(j, i)
<1> DEFINE u == job[j].update
           represents == job[i].project \in Affected(u) /\ Represents(i, u)
<1>1. job[i] \in Job /\ job[j] \in Job
  BY DEF Tables
<1>2. u \in 0..MaxUpdates
  BY <1>1, RowType
<1>3. CASE represents /\ job[i].project \in Waiting(j)
  <2>1. job'[i] = Requeued(j, job[i], job[i].project)
    BY <1>3 DEF RowAfter
  <2> HIDE DEF represents, u
  <2>2. /\ job'[i] \in Job /\ job'[i].status = "queued" /\ job'[i].role = RoleOf(j, job[i].project)
        /\ job'[i].update = None /\ job'[i].overlay = u
        /\ job'[i].project = job[i].project /\ job'[i].follow = job[i].follow /\ job'[i].seen = job[i].seen
        /\ job'[i].client = job[i].client
    BY <1>1, <1>2, <2>1, RequeuedRow DEF u
  <2> QED BY <1>3, <2>2 DEF KeptRow, represents, u
<1>4. CASE represents /\ job[i].project \notin Waiting(j)
  <2>1. job'[i] = Ended(job[i], "succeeded")
    BY <1>4 DEF RowAfter
  <2>2. /\ job'[i] \in Job /\ job'[i].status = "succeeded"
        /\ job'[i].project = job[i].project /\ job'[i].follow = job[i].follow /\ job'[i].seen = job[i].seen
        /\ job'[i].client = job[i].client
        /\ job'[i].role = job[i].role /\ job'[i].update = job[i].update /\ job'[i].overlay = job[i].overlay
    BY <1>1, <2>1, EndedRow
  <2> QED BY <1>4, <2>2 DEF KeptRow
<1>5. CASE ~represents
  <2> DEFINE bg == Active(i) /\ job[i].update = u /\ job[i].role = "background"
  <2>1. job'[i] = IF bg THEN Ended(job[i], "succeeded")
                  ELSE IF i = j THEN [job[i] EXCEPT !.status = "lapsed"] ELSE job[i]
    BY <1>5 DEF RowAfter
  <2> DEFINE lapsed == [job[i] EXCEPT !.status = "lapsed"]
  <2>2. /\ lapsed \in Job /\ lapsed.status = "lapsed"
        /\ lapsed.project = job[i].project /\ lapsed.follow = job[i].follow /\ lapsed.seen = job[i].seen
        /\ lapsed.client = job[i].client
        /\ lapsed.role = job[i].role /\ lapsed.update = job[i].update /\ lapsed.overlay = job[i].overlay
    BY <1>1 DEF Job, InQueue
  <2> HIDE DEF lapsed, represents
  <2>3. /\ job'[i] \in Job /\ job'[i].status \in {job[i].status, "succeeded", "lapsed"}
        /\ job'[i].project = job[i].project /\ job'[i].follow = job[i].follow /\ job'[i].seen = job[i].seen
        /\ job'[i].client = job[i].client
        /\ job'[i].role = job[i].role /\ job'[i].update = job[i].update /\ job'[i].overlay = job[i].overlay
        /\ ((job[i].update # u \/ ~Active(i)) /\ i # j) => job'[i] = job[i]
    <3>1. CASE bg
      BY <1>1, <2>1, <3>1, EndedRow
    <3>2. CASE ~bg /\ i = j
      BY <2>1, <2>2, <3>2 DEF lapsed
    <3>3. CASE ~bg /\ i # j
      BY <1>1, <2>1, <3>3
    <3> QED BY <3>1, <3>2, <3>3
  <2> QED BY <1>5, <2>3 DEF KeptRow, represents
<1> QED BY <1>3, <1>4, <1>5

LEMMA JoinedLists ==
  ASSUME NEW T, NEW s \in Seq(T), NEW n \in Nat, NEW g \in [1..n -> T]
  PROVE  /\ s \o g \in Seq(T) /\ Len(s \o g) = Len(s) + n
         /\ \A i \in 1..Len(s) + n : (s \o g)[i] = IF i <= Len(s) THEN s[i] ELSE g[i - Len(s)]
<1>1. g \in Seq(T) /\ Len(g) = n
  OBVIOUS
<1> QED BY <1>1, ConcatProperties

\* The list t is s followed by the n members of g.
Continued(s, n, g, t) ==
  /\ DOMAIN t = 1..Len(s) + n
  /\ Len(s) \in Nat /\ DOMAIN s = 1..Len(s)
  /\ \A i \in DOMAIN s : i \in DOMAIN t /\ t[i] = s[i]
  /\ \A i \in 1..n : Len(s) + i \in DOMAIN t /\ t[Len(s) + i] = g[i]
  /\ \A i \in DOMAIN t : i \in DOMAIN s \/ (i - Len(s) \in 1..n /\ i > Len(s) /\ t[i] = g[i - Len(s)])

LEMMA ListContinued ==
  ASSUME NEW T, NEW s \in Seq(T), NEW n \in Nat, NEW g \in [1..n -> T], NEW t, t = s \o g
  PROVE  t \in Seq(T) /\ Len(t) = Len(s) + n /\ Continued(s, n, g, t)
<1>1. /\ t \in Seq(T) /\ Len(t) = Len(s) + n
      /\ \A i \in 1..Len(s) + n : t[i] = IF i <= Len(s) THEN s[i] ELSE g[i - Len(s)]
  BY JoinedLists
<1> QED BY <1>1 DEF Continued

LEMMA PublishEffect ==
  ASSUME Tables, References, NEW j, Publish(j)
  PROVE  LET u == job[j].update IN
         /\ j \in DOMAIN job /\ job[j].status = "running" /\ u # None /\ (Midway = {} \/ Slow # {})
         /\ head' = u /\ generation' = generation + 1 /\ UNCHANGED lapses
         /\ OneEnds(u, "succeeded")
         /\ overlay' \in [1..MaxUpdates -> [Languages -> {"none", "pending", "ready", "failed"}]]
         /\ project' = [p \in Projects |->
              IF p \in Affected(u) THEN [stage |-> IF p \in Waiting(j) THEN "working" ELSE "done", key |-> u]
              ELSE project[p]]
         /\ job' \in Seq(Job) /\ DOMAIN job \subseteq DOMAIN job'
         /\ Len(job') <= Len(job) + Cardinality(Projects)
         /\ \A i \in DOMAIN job : KeptRow(j, i)
         /\ \A i \in DOMAIN job' \ DOMAIN job : AddedRow(j, i)
         /\ \A p \in Jobless(j) : \E i \in DOMAIN job' \ DOMAIN job : job'[i].project = p
<1> DEFINE u == job[j].update
           added == Ascending(Jobless(j))
           n == Cardinality(Jobless(j))
           s == [i \in DOMAIN job |-> RowAfter(j, i)]
           New(q) == NewJob(q, "scheduler", "queued", "waiter")
           g == [i \in 1..n |-> Requeued(j, New(added[i]), added[i])]
<1>1. /\ j \in DOMAIN job /\ job[j].status = "running" /\ u # None /\ (Midway = {} \/ Slow # {})
      /\ head' = u /\ generation' = generation + 1 /\ UNCHANGED lapses
      /\ update' = [update EXCEPT ![u] = Settled(u, "succeeded")] /\ Freed(u)
      /\ project' = [p \in Projects |->
              IF p \in Affected(u) THEN [stage |-> IF p \in Waiting(j) THEN "working" ELSE "done", key |-> u]
              ELSE project[p]]
  BY PublishUnfolds DEF Executing, Undisturbed
<1>2. OneEnds(u, "succeeded")
  <2>1. u \in DOMAIN update
    BY <1>1 DEF References
  <2> QED BY <1>1, <2>1, OneEndsHolds
<1>3. overlay' \in [1..MaxUpdates -> [Languages -> {"none", "pending", "ready", "failed"}]]
  <2> DEFINE F == {"none", "pending", "ready", "failed"}
             row == [l \in Languages |->
                      IF l = LanguageOf[job[j].project] THEN "ready"
                      ELSE IF \E p \in Waiting(j) : LanguageOf[p] = l THEN "pending" ELSE overlay[u][l]]
  <2>1. u \in 1..MaxUpdates
    <3>1. u \in DOMAIN update /\ DOMAIN update = 1..Len(update) /\ Len(update) \in Nat
          /\ Len(update) <= MaxUpdates /\ MaxUpdates \in Nat
      BY <1>2, UpdatesAssumption DEF OneEnds, Tables
    <3> HIDE DEF u
    <3> QED BY <3>1
  <2>2. overlay \in [1..MaxUpdates -> [Languages -> F]]
    BY DEF Tables
  <2>3. row \in [Languages -> F]
    BY <2>1, <2>2
  <2>4. overlay' = [overlay EXCEPT ![u] = row]
    BY PublishUnfolds
  <2> HIDE DEF row, u
  <2> QED BY <2>1, <2>2, <2>3, <2>4
<1>4. /\ n \in Nat /\ n <= Cardinality(Projects) /\ added \in [1..n -> Jobless(j)]
      /\ \A p \in Jobless(j) : \E i \in 1..n : added[i] = p
      /\ Jobless(j) \subseteq Projects
  <2>1. Jobless(j) \in SUBSET Projects
    BY DEF Jobless, Waiting, Affected
  <2>2. IsFiniteSet(Projects) /\ Projects \in SUBSET Nat
    BY UpdatesAssumption
  <2>3. IsFiniteSet(Jobless(j)) /\ Cardinality(Jobless(j)) <= Cardinality(Projects)
    BY <2>1, <2>2, FS_Subset
  <2> QED BY <2>1, <2>2, <2>3, AscendingLists
<1>5. job' = s \o g
  <2>1. DOMAIN added = 1..n
    BY <1>4
  <2> HIDE DEF n, added
  <2>2. job' = s \o [i \in DOMAIN added |-> Requeued(j, New(added[i]), added[i])]
    BY PublishUnfolds DEF added
  <2> QED BY <2>1, <2>2
<1> HIDE DEF n, added
<1>6. ASSUME NEW i \in 1..n
      PROVE  /\ g[i] \in Job /\ g[i].project = added[i] /\ g[i].status = "queued"
             /\ g[i].role = RoleOf(j, added[i]) /\ g[i].update = None /\ g[i].overlay = u /\ g[i].follow = "no"
  <2>1. added[i] \in Projects
    BY <1>4
  <2>2. New(added[i]) \in Job /\ New(added[i]).project = added[i] /\ New(added[i]).follow = "no"
    BY <2>1, NewJobType
  <2>3. u \in 0..MaxUpdates
    BY <1>1, RowType DEF Tables
  <2>4. g[i] = Requeued(j, New(added[i]), added[i])
    OBVIOUS
  <2> HIDE DEF g, New
  <2> QED BY <2>2, <2>3, <2>4, RequeuedRow
<1>7. \A i \in DOMAIN job : RowAfter(j, i) \in Job
  <2> SUFFICES ASSUME NEW i \in DOMAIN job PROVE RowAfter(j, i) \in Job
    OBVIOUS
  <2>1. job[i] \in Job /\ u \in 0..MaxUpdates
    BY <1>1, RowType DEF Tables
  <2>2. [job[i] EXCEPT !.status = "lapsed"] \in Job
    BY <2>1 DEF Job, InQueue
  <2>3. Ended(job[i], "succeeded") \in Job
    BY <2>1, EndedRow
  <2>4. Requeued(j, job[i], job[i].project) \in Job
    BY <2>1, RequeuedRow
  <2> QED BY <2>1, <2>2, <2>3, <2>4 DEF RowAfter
<1>8. s \in Seq(Job) /\ Len(s) = Len(job) /\ DOMAIN s = DOMAIN job
  <2>1. DOMAIN job = 1..Len(job) /\ Len(job) \in Nat
    BY DEF Tables
  <2> QED BY <1>7, <2>1
<1>9. /\ job' \in Seq(Job) /\ Len(job') = Len(job) + n /\ DOMAIN job' = 1..Len(job) + n
      /\ Len(job) \in Nat /\ DOMAIN job = 1..Len(job)
      /\ \A i \in DOMAIN job : i \in DOMAIN job' /\ job'[i] = s[i]
      /\ \A i \in 1..n : Len(job) + i \in DOMAIN job' /\ job'[Len(job) + i] = g[i]
      /\ \A i \in DOMAIN job' : i \in DOMAIN job \/ (i - Len(job) \in 1..n /\ i > Len(job) /\ job'[i] = g[i - Len(job)])
  <2>1. g \in [1..n -> Job]
    BY <1>6
  <2> HIDE DEF s, g
  <2>2. s \in Seq(Job) /\ n \in Nat
    BY <1>4, <1>8
  <2> PICK t : t = job'
    OBVIOUS
  <2>5. t = s \o g
    BY <1>5
  <2>3. t \in Seq(Job) /\ Len(t) = Len(s) + n /\ Continued(s, n, g, t)
    BY <2>1, <2>2, <2>5, ListContinued
  <2> QED BY <1>8, <2>3 DEF Continued
<1>10. \A i \in DOMAIN job : KeptRow(j, i)
  <2> SUFFICES ASSUME NEW i \in DOMAIN job PROVE KeptRow(j, i)
    OBVIOUS
  <2>1. job'[i] = RowAfter(j, i)
    BY <1>9
  <2> QED BY <1>1, <2>1, KeptRowHolds
<1> HIDE DEF g, s
<1>11. \A i \in DOMAIN job' \ DOMAIN job : AddedRow(j, i)
  <2> SUFFICES ASSUME NEW i \in DOMAIN job' \ DOMAIN job PROVE AddedRow(j, i)
    OBVIOUS
  <2>1. i - Len(job) \in 1..n /\ job'[i] = g[i - Len(job)]
    BY <1>9
  <2>2. added[i - Len(job)] \in Jobless(j)
    BY <1>4, <2>1
  <2> QED BY <1>6, <2>1, <2>2 DEF AddedRow
<1>12. \A p \in Jobless(j) : \E i \in DOMAIN job' \ DOMAIN job : job'[i].project = p
  <2> SUFFICES ASSUME NEW p \in Jobless(j) PROVE \E i \in DOMAIN job' \ DOMAIN job : job'[i].project = p
    OBVIOUS
  <2>1. PICK i \in 1..n : added[i] = p
    BY <1>4
  <2>2. Len(job) + i \in DOMAIN job' \ DOMAIN job
    BY <1>9, <2>1
  <2> QED BY <1>6, <1>9, <2>1, <2>2
<1>13. Len(job') <= Len(job) + Cardinality(Projects) /\ DOMAIN job \subseteq DOMAIN job'
  <2>1. Cardinality(Projects) \in Nat
    BY FS_CardinalityType, UpdatesAssumption
  <2> QED BY <1>4, <1>9, <2>1
<1> QED BY <1>1, <1>2, <1>3, <1>9, <1>10, <1>11, <1>12, <1>13

\* Who remains in an update.
Rest(u, p) == {q \in ToSet(update[u].joined) : q # p /\ Exists(q)}

LEMMA ReplacementRest ==
  ASSUME Tables, NEW u \in DOMAIN update, NEW p
  PROVE  /\ Replacement(u, p) \in Seq(Projects) /\ ToSet(Replacement(u, p)) = Rest(u, p)
         /\ Rest(u, p) = {} => Replacement(u, p) = <<>>
         /\ Rest(u, p) # {} => Replacement(u, p) # <<>> /\ Replacement(u, p)[1] \in Rest(u, p)
<1> DEFINE list == update[u].joined
           S == {q \in Projects \ {p} : Exists(q)}
           r == Replacement(u, p)
<1>1. list \in Seq(Projects)
  BY UpdateType DEF Tables
<1>2. r = Remaining(list, S)
  BY DEF Replacement
<1>3. r \in Seq(Projects) /\ ToSet(r) = ToSet(list) \cap S
  <2> HIDE DEF list, S, r
  <2> QED BY <1>1, <1>2, RemainingLists
<1>4. ToSet(list) \subseteq Projects
  <2> HIDE DEF list
  <2> QED BY <1>1 DEF ToSet
<1>5. ToSet(r) = Rest(u, p)
  BY <1>3, <1>4 DEF Rest
<1> HIDE DEF r
<1>6. /\ r = <<>> => ToSet(r) = {}
      /\ r # <<>> => 1 \in DOMAIN r /\ r[1] \in ToSet(r)
  BY <1>3 DEF ToSet
<1> QED BY <1>3, <1>5, <1>6 DEF r

\* An update after a deletion.
UpdateWithout(u, p) ==
  /\ update'[u].base = update[u].base /\ update'[u].budget = update[u].budget
  /\ update[u].leader # p => /\ update'[u].status = update[u].status /\ update'[u].leader = update[u].leader
                             /\ ToSet(update'[u].joined) = Rest(u, p)
  /\ update[u].leader = p /\ Rest(u, p) = {} => update'[u].status = "deleted"
  /\ update[u].leader = p /\ Rest(u, p) # {} =>
       /\ update'[u].status = update[u].status /\ update'[u].leader = Replacement(u, p)[1]
       /\ Replacement(u, p) # <<>> /\ Replacement(u, p)[1] \in Rest(u, p)
       /\ ToSet(update'[u].joined) = Rest(u, p)

LEMMA WithoutProjectHolds ==
  ASSUME Tables, NEW u \in DOMAIN update, NEW p, update'[u] = WithoutProject(u, p)
  PROVE  update'[u] \in AnyUpdate /\ UpdateWithout(u, p)
<1> DEFINE r == Replacement(u, p)
<1>1. /\ r \in Seq(Projects) /\ ToSet(r) = Rest(u, p)
      /\ Rest(u, p) = {} => r = <<>>
      /\ Rest(u, p) # {} => r # <<>> /\ r[1] \in Rest(u, p)
  BY ReplacementRest
<1>2. update[u] \in AnyUpdate /\ <<>> \in Seq(Projects)
  BY DEF Tables
<1>3. update'[u] = IF update[u].leader # p THEN [update[u] EXCEPT !.joined = r]
                   ELSE IF r = <<>> THEN [update[u] EXCEPT !.status = "deleted", !.joined = <<>>]
                   ELSE [update[u] EXCEPT !.leader = r[1], !.joined = r]
  BY DEF WithoutProject
<1> HIDE DEF r
<1>4. r # <<>> => Rest(u, p) # {} /\ r[1] \in Projects
  <2>1. r # <<>> => 1 \in DOMAIN r
    BY <1>1
  <2> QED BY <1>1, <2>1 DEF ToSet
<1>5. CASE update[u].leader # p
  BY <1>1, <1>2, <1>3, <1>5 DEF UpdateWithout, AnyUpdate, r
<1>6. CASE update[u].leader = p /\ r = <<>>
  <2>1. Rest(u, p) = {}
    BY <1>1, <1>6
  <2>2. update'[u] = [update[u] EXCEPT !.status = "deleted", !.joined = <<>>]
    BY <1>3, <1>6
  <2>3. update'[u] \in AnyUpdate /\ update'[u].base = update[u].base /\ update'[u].budget = update[u].budget
        /\ update'[u].status = "deleted"
    BY <1>2, <2>2 DEF AnyUpdate
  <2> QED BY <1>6, <2>1, <2>3 DEF UpdateWithout
<1>7. CASE update[u].leader = p /\ r # <<>>
  <2>1. update'[u] = [update[u] EXCEPT !.leader = r[1], !.joined = r]
    BY <1>3, <1>7
  <2>2. /\ update'[u] \in AnyUpdate /\ update'[u].base = update[u].base /\ update'[u].budget = update[u].budget
        /\ update'[u].status = update[u].status /\ update'[u].leader = r[1] /\ update'[u].joined = r
    BY <1>1, <1>2, <1>4, <1>7, <2>1 DEF AnyUpdate
  <2> QED BY <1>1, <1>4, <1>7, <2>2 DEF UpdateWithout, r
<1> QED BY <1>5, <1>6, <1>7

\* A job after a deletion.
JobWithout(i, p) ==
  /\ job'[i].project = job[i].project /\ job'[i].update = job[i].update
  /\ job'[i].overlay = job[i].overlay /\ job'[i].follow = job[i].follow /\ job'[i].seen = job[i].seen
  /\ job'[i].client = job[i].client
  /\ job[i].project = p /\ job[i].status # "asked" => job'[i].status = "dropped" /\ job'[i].role = job[i].role
  /\ ~(job[i].project = p /\ job[i].status # "asked") =>
       /\ job'[i].status = job[i].status
       /\ job'[i].role = IF i \in Promoted(p) THEN "leader" ELSE job[i].role

LEMMA DeleteEffect ==
  ASSUME Tables, NEW p \in Projects, Delete(p)
  PROVE  /\ p \in Deletable /\ Exists(p) /\ (Midway = {} \/ Slow # {})
         /\ UNCHANGED <<overlay, head, generation, reserved, lapses>>
         /\ project' = [project EXCEPT ![p] = [stage |-> "deleted", key |-> None]]
         /\ job' \in Seq(Job) /\ Len(job') = Len(job) /\ DOMAIN job' = DOMAIN job
         /\ \A i \in DOMAIN job : JobWithout(i, p)
         /\ update' \in Seq(AnyUpdate) /\ Len(update') = Len(update) /\ DOMAIN update' = DOMAIN update
         /\ \A u \in DOMAIN update : UpdateWithout(u, p)
<1>1. /\ p \in Deletable /\ Exists(p) /\ (Midway = {} \/ Slow # {})
      /\ UNCHANGED <<overlay, head, generation, reserved, lapses>>
      /\ project' = [project EXCEPT ![p] = [stage |-> "deleted", key |-> None]]
      /\ update' = [u \in DOMAIN update |-> WithoutProject(u, p)]
      /\ job' = [i \in DOMAIN job |->
           IF job[i].project = p /\ job[i].status # "asked"
           THEN [job[i] EXCEPT !.status = "dropped"]
           ELSE IF i \in Promoted(p) THEN [job[i] EXCEPT !.role = "leader"] ELSE job[i]]
  BY DEF Delete, Undisturbed
<1>2. ASSUME NEW i \in DOMAIN job
      PROVE  job'[i] \in Job /\ JobWithout(i, p)
  <2> DEFINE row == job[i]
             gone == row.project = p /\ row.status # "asked"
             promoted == i \in Promoted(p)
  <2>1. row \in Job
    BY DEF Tables
  <2>2. job'[i] = IF gone THEN [row EXCEPT !.status = "dropped"]
                  ELSE IF promoted THEN [row EXCEPT !.role = "leader"] ELSE row
    BY <1>1
  <2> HIDE DEF promoted, row
  <2>3. /\ job'[i] \in Job
        /\ job'[i].project = row.project /\ job'[i].update = row.update
        /\ job'[i].overlay = row.overlay /\ job'[i].follow = row.follow /\ job'[i].seen = row.seen
        /\ job'[i].client = row.client
        /\ gone => job'[i].status = "dropped" /\ job'[i].role = row.role
        /\ ~gone => job'[i].status = row.status /\ job'[i].role = IF promoted THEN "leader" ELSE row.role
    <3>1. CASE gone
      <4>1. job'[i] = [row EXCEPT !.status = "dropped"]
        BY <2>2, <3>1
      <4> QED BY <2>1, <3>1, <4>1 DEF Job
    <3>2. CASE ~gone /\ promoted
      <4>1. job'[i] = [row EXCEPT !.role = "leader"]
        BY <2>2, <3>2
      <4> QED BY <2>1, <3>2, <4>1 DEF Job
    <3>3. CASE ~gone /\ ~promoted
      BY <2>1, <2>2, <3>3
    <3> QED BY <3>1, <3>2, <3>3
  <2> QED BY <2>3 DEF JobWithout, row, promoted
<1>3. job' \in Seq(Job) /\ Len(job') = Len(job) /\ DOMAIN job' = DOMAIN job
  <2>1. DOMAIN job = 1..Len(job) /\ Len(job) \in Nat
    BY DEF Tables
  <2>2. DOMAIN job' = DOMAIN job /\ job' = [i \in DOMAIN job |-> job'[i]]
    BY <1>1
  <2> QED BY <1>2, <2>1, <2>2
<1>4. \A u \in DOMAIN update : update'[u] \in AnyUpdate /\ UpdateWithout(u, p)
  <2>1. \A u \in DOMAIN update : update'[u] = WithoutProject(u, p)
    BY <1>1
  <2> QED BY <2>1, WithoutProjectHolds
<1>5. update' \in Seq(AnyUpdate) /\ Len(update') = Len(update) /\ DOMAIN update' = DOMAIN update
  <2>1. DOMAIN update = 1..Len(update) /\ Len(update) \in Nat
    BY DEF Tables
  <2>2. DOMAIN update' = DOMAIN update /\ update' = [u \in DOMAIN update |-> update'[u]]
    BY <1>1
  <2> QED BY <1>4, <2>1, <2>2
<1> QED BY <1>1, <1>2, <1>3, <1>4, <1>5

-----------------------------------------------------------------------------
(* The daily budget, whatever happens between the calls of requests.       *)

HeldUpdates == {u \in DOMAIN update : Held(u)}

LEMMA HeldFinite ==
  ASSUME Tables
  PROVE  IsFiniteSet(HeldUpdates) /\ Cardinality(HeldUpdates) \in Nat /\ HeldUpdates \subseteq 1..Len(update)
<1>1. Len(update) \in Int /\ 1 \in Int /\ HeldUpdates \in SUBSET (1..Len(update))
  BY DEF Tables, HeldUpdates
<1>2. IsFiniteSet(1..Len(update))
  BY <1>1, FS_Interval
<1> QED BY <1>1, <1>2, FS_Subset, FS_CardinalityType

LEMMA BooksKept ==
  ASSUME Tables, Books, DOMAIN update' = DOMAIN update, reserved' = reserved,
         \A u \in DOMAIN update :
           update'[u].budget = update[u].budget /\ update'[u].status \in {update[u].status, "deleted"}
  PROVE  Books'
<1>1. HeldUpdates' = HeldUpdates
  BY DEF HeldUpdates, Held
<1>2. OnlyUnendedHold'
  BY DEF Books, OnlyUnendedHold, Held
<1> QED BY <1>1, <1>2 DEF Books, HeldUpdates

LEMMA BooksMore ==
  ASSUME Tables, Books, NEW p, NEW budget \in {"none", "reserved"}, OneUpdateMore(p, budget),
         reserved' = IF budget = "reserved" THEN reserved + 1 ELSE reserved,
         budget = "reserved" => reserved < MaxReserved
  PROVE  Books'
<1> DEFINE n == Len(update) + 1
<1>1. /\ DOMAIN update' = DOMAIN update \cup {n} /\ n \notin DOMAIN update
      /\ \A u \in DOMAIN update : update'[u] = update[u]
      /\ update'[n].budget = budget /\ update'[n].status = "active"
  BY DEF OneUpdateMore
<1> HIDE DEF n
<1>2. HeldUpdates' = IF budget = "reserved" THEN HeldUpdates \cup {n} ELSE HeldUpdates
  BY <1>1 DEF HeldUpdates, Held
<1>3. n \notin HeldUpdates
  BY <1>1 DEF HeldUpdates
<1>4. OnlyUnendedHold'
  BY <1>1 DEF Books, OnlyUnendedHold, Held
<1>5. reserved = Cardinality(HeldUpdates) /\ reserved <= MaxReserved
  BY DEF Books, HeldUpdates
<1>6. reserved' = Cardinality(HeldUpdates') /\ reserved' <= MaxReserved
  <2>1. CASE budget = "reserved"
    <3>1. Cardinality(HeldUpdates \cup {n}) = Cardinality(HeldUpdates) + 1
      BY <1>3, HeldFinite, FS_AddElement
    <3> QED BY <1>2, <1>5, <2>1, <3>1, HeldFinite, UpdatesAssumption
  <2>2. CASE budget = "none"
    BY <1>2, <1>5, <2>2
  <2> QED BY <2>1, <2>2
<1> QED BY <1>4, <1>6 DEF Books, HeldUpdates

LEMMA BooksEnd ==
  ASSUME Tables, Books, NEW u, NEW status \in {"succeeded", "failed"}, OneEnds(u, status)
  PROVE  Books'
<1>1. /\ u \in DOMAIN update /\ DOMAIN update' = DOMAIN update
      /\ \A v \in DOMAIN update \ {u} : update'[v] = update[v]
      /\ update'[u].budget # "reserved" /\ update'[u].status # "active"
      /\ reserved' = IF Held(u) THEN reserved - 1 ELSE reserved
  BY DEF OneEnds, Held
<1>2. HeldUpdates' = HeldUpdates \ {u}
  BY <1>1 DEF HeldUpdates, Held
<1>3. OnlyUnendedHold'
  BY <1>1 DEF Books, OnlyUnendedHold, Held
<1>4. reserved = Cardinality(HeldUpdates) /\ reserved <= MaxReserved
  BY DEF Books, HeldUpdates
<1>5. Cardinality(HeldUpdates \ {u}) = IF u \in HeldUpdates THEN Cardinality(HeldUpdates) - 1
                                       ELSE Cardinality(HeldUpdates)
  BY HeldFinite, FS_RemoveElement
<1>6. u \in HeldUpdates <=> Held(u)
  BY <1>1 DEF HeldUpdates
<1>7. reserved' = Cardinality(HeldUpdates')
  BY <1>1, <1>2, <1>4, <1>5, <1>6
<1>8. reserved' <= MaxReserved
  BY <1>1, <1>4, HeldFinite, UpdatesAssumption
<1> QED BY <1>3, <1>7, <1>8 DEF Books, HeldUpdates

Ledgers == Tables /\ References /\ Books

\* A new row, or a changed one, that refers to what is there.
Refers(row, U) ==
  /\ row.update \in {None} \cup U
  /\ row.role \in {"reuse", "overlay"} => row.overlay # None
  /\ row.status = "asked" => row.role \in {"reuse", "waiter"}

LEMMA RowRefers ==
  ASSUME Ledgers, DOMAIN update \subseteq DOMAIN update', NEW j, OnlyRow(j), Refers(job[j], DOMAIN update) => Refers(job'[j], DOMAIN update')
  PROVE  References'
<1>1. \A i \in DOMAIN job : Refers(job[i], DOMAIN update)
  BY DEF Ledgers, References, Refers
<1>2. \A i \in DOMAIN job : i \in DOMAIN job \ {j} \/ i = j
  OBVIOUS
<1>3. ASSUME NEW i \in DOMAIN job'
      PROVE  Refers(job'[i], DOMAIN update')
  <2>1. i \in DOMAIN job
    BY DEF OnlyRow
  <2>2. CASE i = j
    BY <1>1, <2>1, <2>2
  <2>3. CASE i # j
    <3>1. job'[i] = job[i] /\ Refers(job[i], DOMAIN update)
      BY <1>1, <2>1, <2>3 DEF OnlyRow
    <3> QED BY <3>1 DEF Refers
  <2> QED BY <2>2, <2>3
<1> QED BY <1>3 DEF References, Refers

LEMMA MoreRefers ==
  ASSUME Ledgers, DOMAIN update \subseteq DOMAIN update', NEW row \in Job, job' = Append(job, row), Refers(row, DOMAIN update')
  PROVE  References' /\ job' \in Seq(Job)
<1>1. \A i \in DOMAIN job : Refers(job[i], DOMAIN update)
  BY DEF Ledgers, References, Refers
<1>2. /\ job' \in Seq(Job)
      /\ \A i \in DOMAIN job' : i \in DOMAIN job \/ i = Len(job) + 1
      /\ \A i \in DOMAIN job : job'[i] = job[i]
      /\ job'[Len(job) + 1] = row
  BY AppendedRow DEF Ledgers, Tables
<1>3. \A i \in DOMAIN job' : Refers(job'[i], DOMAIN update')
  <2>1. ASSUME NEW i \in DOMAIN job PROVE Refers(job[i], DOMAIN update')
    BY <1>1 DEF Refers
  <2> QED BY <1>2, <2>1
<1> QED BY <1>2, <1>3 DEF References, Refers

LEMMA RequestsKeepLedgers ==
  ASSUME Ledgers, NEW j, Refuse(j) \/ Join(j) \/ Reuse(j) \/ Follow(j)
  PROVE  Ledgers'
<1> USE DEF Ledgers
<1>1. CASE Refuse(j)
  <2>1. /\ UNCHANGED <<project, update, overlay, head, generation, reserved, lapses>>
        /\ OnlyRow(j) /\ job'[j] = [job[j] EXCEPT !.status = "dropped"] /\ job[j] \in Job
    BY <1>1, RefuseEffect DEF OnlyRow, Tables
  <2>2. Refers(job[j], DOMAIN update) => Refers(job'[j], DOMAIN update')
    BY <2>1 DEF Refers, Job
  <2>3. References'
    BY <2>1, <2>2, RowRefers
  <2>4. Tables'
    BY <2>1 DEF Tables, OnlyRow
  <2>5. Books'
    BY <2>1, BooksKept
  <2> QED BY <2>3, <2>4, <2>5
<1>2. CASE Follow(j)
  <2>1. /\ UNCHANGED <<update, overlay, head, generation, reserved, lapses>>
        /\ OnlyRow(j) /\ job'[j] = [job[j] EXCEPT !.follow = "no"] /\ job[j] \in Job
        /\ job[j].follow \in Stages
        /\ project' = [project EXCEPT ![job[j].project] = [stage |-> job[j].follow, key |-> job[j].seen.key]]
    BY <1>2, FollowEffect DEF OnlyRow, Tables
  <2>2. Refers(job[j], DOMAIN update) => Refers(job'[j], DOMAIN update')
    BY <2>1 DEF Refers, Job
  <2>3. References'
    BY <2>1, <2>2, RowRefers
  <2>4. project' \in [Projects -> ProjectRow]
    <3>1. job[j].seen.key \in 0..MaxUpdates
      BY <2>1, RowType DEF ProjectRow
    <3>2. [stage |-> job[j].follow, key |-> job[j].seen.key] \in ProjectRow
      BY <2>1, <3>1 DEF ProjectRow
    <3> QED BY <2>1, <3>2 DEF Tables
  <2>5. Tables'
    BY <2>1, <2>4 DEF Tables, OnlyRow
  <2>6. Books'
    BY <2>1, BooksKept
  <2> QED BY <2>3, <2>5, <2>6
<1>3. CASE Join(j)
  <2> DEFINE p == job[j].project
  <2>1. /\ UNCHANGED <<overlay, head, generation, reserved, lapses>>
        /\ OnlyRow(j) /\ job[j].role = "waiter" /\ p \in Projects
        /\ project' = [project EXCEPT ![p] = job[j].seen]
        /\ job'[j].status = "queued"
        /\ \/ OneUpdateMore(p, "none") /\ job'[j].role = "leader" /\ job'[j].update = Len(update) + 1
           \/ /\ \E v \in ActiveUpdates : OneJoins(v, p)
              /\ job'[j].role = "waiter" /\ job'[j].update \in ActiveUpdates
    BY <1>3, JoinEffect
  <2>2. project' \in [Projects -> ProjectRow]
    <3>1. job[j].seen \in ProjectRow
      BY <2>1, RowType DEF Tables, OnlyRow
    <3> QED BY <2>1, <3>1 DEF Tables
  <2> HIDE DEF p
  <2>3. CASE OneUpdateMore(p, "none") /\ job'[j].role = "leader" /\ job'[j].update = Len(update) + 1
    <3>1. /\ DOMAIN update \subseteq DOMAIN update' /\ Len(update) + 1 \in DOMAIN update'
          /\ update' \in Seq(AnyUpdate) /\ Len(update') <= MaxUpdates
      BY <2>3, UpdatesAssumption DEF OneUpdateMore
    <3>2. Refers(job'[j], DOMAIN update')
      BY <2>1, <2>3, <3>1 DEF Refers
    <3>3. References'
      BY <2>1, <3>1, <3>2, RowRefers
    <3>4. Books'
      BY <2>1, <2>3, BooksMore
    <3>5. Tables'
      BY <2>1, <2>2, <3>1 DEF Tables, OnlyRow
    <3> QED BY <3>3, <3>4, <3>5
  <2>4. CASE /\ \E v \in ActiveUpdates : OneJoins(v, p)
             /\ job'[j].role = "waiter" /\ job'[j].update \in ActiveUpdates
    <3>1. PICK v \in ActiveUpdates : OneJoins(v, p)
      BY <2>4
    <3>2. /\ DOMAIN update = DOMAIN update' /\ v \in DOMAIN update /\ update[v].status = "active"
          /\ update' \in Seq(AnyUpdate) /\ Len(update') <= MaxUpdates
      BY <3>1, UpdatesAssumption DEF OneJoins, ActiveUpdates, Tables
    <3>3. Refers(job'[j], DOMAIN update')
      BY <2>1, <2>4, <3>2 DEF Refers, ActiveUpdates
    <3>4. References'
      BY <2>1, <3>2, <3>3, RowRefers
    <3>5. \A w \in DOMAIN update : update'[w].budget = update[w].budget /\ update'[w].status \in {update[w].status, "deleted"}
      BY <3>1, <3>2 DEF OneJoins
    <3>6. Books'
      BY <2>1, <3>2, <3>5, BooksKept
    <3>7. Tables'
      BY <2>1, <2>2, <3>2 DEF Tables, OnlyRow
    <3> QED BY <3>4, <3>6, <3>7
  <2> QED BY <2>1, <2>3, <2>4
<1>4. CASE Reuse(j)
  <2> DEFINE p == job[j].project  k == job[j].overlay  row == job'[j]
  <2>1. /\ UNCHANGED <<update, head, generation, reserved, lapses>>
        /\ OnlyRow(j) /\ job[j].role = "reuse" /\ p \in Projects /\ k \in 1..MaxUpdates
        /\ overlay' \in [1..MaxUpdates -> [Languages -> {"none", "pending", "ready", "failed"}]]
        /\ row.update = job[j].update
        /\ \/ /\ row.status = "succeeded" /\ row.role = "waiter"
              /\ \/ project' = project
                 \/ project' = [project EXCEPT ![p] = [stage |-> "done", key |-> k]]
           \/ /\ row.status = "queued" /\ row.overlay = k
              /\ row.role = "overlay" \/ (row.role = "waiter" /\ OverlayRunner(k, LanguageOf[p]))
              /\ project' = [project EXCEPT ![p] = [stage |-> "working", key |-> k]]
    BY <1>4, ReuseEffect
  <2> HIDE DEF p, k
  <2>2. project' \in [Projects -> ProjectRow]
    <3>1. k \in 0..MaxUpdates
      BY <2>1, UpdatesAssumption
    <3>2. [stage |-> "done", key |-> k] \in ProjectRow /\ [stage |-> "working", key |-> k] \in ProjectRow
      BY <3>1 DEF ProjectRow, Stages
    <3> QED BY <2>1, <3>2 DEF Tables
  <2>3. Refers(job[j], DOMAIN update) => Refers(job'[j], DOMAIN update')
    <3>1. k # None /\ DOMAIN update' = DOMAIN update
      BY <2>1, UpdatesAssumption DEF None
    <3> QED BY <2>1, <3>1 DEF Refers
  <2>4. References'
    BY <2>1, <2>3, RowRefers
  <2>5. Tables'
    BY <2>1, <2>2 DEF Tables, OnlyRow
  <2>6. Books'
    BY <2>1, BooksKept
  <2> QED BY <2>4, <2>5, <2>6
<1> QED BY <1>1, <1>2, <1>3, <1>4

LEMMA MoreKeepsLedgers ==
  ASSUME Ledgers,
         \/ \E c \in Clients, reuse \in BOOLEAN : Ask(c, reuse)
         \/ \E p \in Projects : StartBackground(p)
  PROVE  Ledgers'
<1> USE DEF Ledgers
<1>1. ASSUME NEW c \in Clients, NEW reuse \in BOOLEAN, Ask(c, reuse)
      PROVE  Ledgers'
  <2> DEFINE row == job'[Len(job) + 1]
  <2>1. /\ UNCHANGED <<project, update, overlay, head, generation, reserved, lapses>>
        /\ job' = Append(job, row) /\ row \in Job /\ row.status = "asked"
        /\ row.role = (IF reuse THEN "reuse" ELSE "waiter") /\ row.update = None
        /\ row.overlay = (IF reuse THEN head ELSE None) /\ (reuse => head # None)
    BY <1>1, AskEffect
  <2> HIDE DEF row
  <2>2. Refers(row, DOMAIN update')
    BY <2>1 DEF Refers
  <2>3. References' /\ job' \in Seq(Job)
    BY <2>1, <2>2, MoreRefers
  <2>4. Tables'
    BY <2>1, <2>3 DEF Tables
  <2>5. Books'
    BY <2>1, BooksKept
  <2> QED BY <2>3, <2>4, <2>5
<1>2. ASSUME NEW p \in Projects, StartBackground(p)
      PROVE  Ledgers'
  <2> DEFINE row == job'[Len(job) + 1]
  <2>1. /\ UNCHANGED <<project, overlay, head, generation, lapses>>
        /\ job' = Append(job, row) /\ row \in Job /\ row.status = "queued" /\ row.role = "background"
        /\ row.update = Len(update) + 1 /\ OneUpdateMore(p, "reserved")
        /\ reserved < MaxReserved /\ reserved' = reserved + 1
    BY <1>2, BackgroundEffect
  <2> HIDE DEF row
  <2>2. /\ DOMAIN update \subseteq DOMAIN update' /\ Len(update) + 1 \in DOMAIN update'
        /\ update' \in Seq(AnyUpdate) /\ Len(update') <= MaxUpdates
    BY <2>1, UpdatesAssumption DEF OneUpdateMore
  <2>3. Refers(row, DOMAIN update')
    BY <2>1, <2>2 DEF Refers
  <2>4. References' /\ job' \in Seq(Job)
    BY <2>1, <2>2, <2>3, MoreRefers
  <2>5. Tables'
    BY <2>1, <2>2, <2>4 DEF Tables
  <2>6. Books'
    BY <2>1, BooksMore
  <2> QED BY <2>4, <2>5, <2>6
<1> QED BY <1>1, <1>2

\* Rows that keep their update, and become waiters or leaders at most.
LEMMA RowsRefer ==
  ASSUME Ledgers, DOMAIN job' = DOMAIN job, DOMAIN update' = DOMAIN update,
         \A i \in DOMAIN job :
           /\ job'[i].update = job[i].update /\ job'[i].overlay = job[i].overlay
           /\ job'[i].role \in {job[i].role, "leader"}
           /\ job'[i].status = "asked" => job[i].status = "asked" /\ job'[i].role = job[i].role
  PROVE  References'
BY DEF Ledgers, References

LEMMA ExecutionsKeepLedgers ==
  ASSUME Ledgers, NEW j, Claim(j) \/ Lapse(j) \/ Retry(j) \/ FailUpdate(j) \/ PublishOverlay(j) \/ FailOverlay(j)
  PROVE  Ledgers'
<1> USE DEF Ledgers
<1>1. CASE Claim(j)
  <2>1. /\ UNCHANGED <<update, overlay, head, generation, reserved, lapses>> /\ OnlyRow(j)
        /\ job'[j].status = "running"
        /\ job'[j].role = job[j].role /\ job'[j].update = job[j].update /\ job'[j].overlay = job[j].overlay
        /\ \E marked \in SUBSET Projects :
              project' = [q \in Projects |-> IF q \in marked THEN [project[q] EXCEPT !.stage = "working"]
                                                ELSE project[q]]
    BY <1>1, ClaimEffect
  <2>2. PICK marked \in SUBSET Projects :
              project' = [q \in Projects |-> IF q \in marked THEN [project[q] EXCEPT !.stage = "working"]
                                                ELSE project[q]]
    BY <2>1
  <2>3. project' \in [Projects -> ProjectRow]
    BY <2>2 DEF Tables, ProjectRow, Stages
  <2>4. References'
    BY <2>1, RowRefers DEF Refers
  <2>5. Tables'
    BY <2>1, <2>3 DEF Tables, OnlyRow
  <2>6. Books'
    BY <2>1, BooksKept
  <2> QED BY <2>4, <2>5, <2>6
<1>2. CASE Lapse(j) \/ Retry(j)
  <2>1. /\ UNCHANGED <<project, update, overlay, head, generation, reserved>> /\ lapses' \in 0..MaxLapses
        /\ OnlyRow(j) /\ \E status \in {"lapsed", "queued"} : job'[j] = [job[j] EXCEPT !.status = status]
    BY <1>2, RestEffect
  <2>2. job[j] \in Job
    BY <2>1 DEF OnlyRow, Tables
  <2>3. Refers(job[j], DOMAIN update) => Refers(job'[j], DOMAIN update')
    BY <2>1, <2>2 DEF Refers, Job
  <2>4. References'
    BY <2>1, <2>3, RowRefers
  <2>5. Tables'
    BY <2>1 DEF Tables, OnlyRow
  <2>6. Books'
    BY <2>1, BooksKept
  <2> QED BY <2>4, <2>5, <2>6
<1>3. CASE FailUpdate(j)
  <2> DEFINE u == job[j].update  S == {i \in DOMAIN job : Active(i) /\ job[i].update = u}
  <2>1. /\ UNCHANGED <<overlay, head, generation, lapses>>
        /\ OneEnds(u, "failed") /\ EndedRows(S, "failed")
        /\ project' = [p \in Projects |-> IF p \notin Joined(u) THEN project[p] ELSE
                          [project[p] EXCEPT !.stage = StageAfterFailure(p)]]
    BY <1>3, FailUpdateEffect
  <2> HIDE DEF u, S
  <2>2. project' \in [Projects -> ProjectRow]
    BY <2>1 DEF Tables, ProjectRow, Stages, StageAfterFailure
  <2>3. /\ DOMAIN update' = DOMAIN update /\ update' \in Seq(AnyUpdate) /\ Len(update') <= MaxUpdates
        /\ reserved' \in Int
    BY <2>1 DEF OneEnds, Tables
  <2>4. References'
    BY <2>1, <2>3, RowsRefer DEF EndedRows
  <2>5. Tables'
    BY <2>1, <2>2, <2>3 DEF Tables, EndedRows
  <2>6. Books'
    BY <2>1, BooksEnd
  <2> QED BY <2>4, <2>5, <2>6
<1>4. CASE PublishOverlay(j) \/ FailOverlay(j)
  <2> DEFINE k == job[j].seen.key  S == OverlayJobs(k, LanguageOf[job[j].project])
  <2>1. /\ UNCHANGED <<update, head, generation, reserved, lapses>> /\ j \in DOMAIN job
        /\ overlay' \in [1..MaxUpdates -> [Languages -> {"none", "pending", "ready", "failed"}]]
        /\ \/ \E status \in {"succeeded", "failed"}, stage \in {"done", "failed"} :
                 /\ OverlayRows(S, j, status)
                 /\ project' = [p \in Projects |-> IF \E i \in S : job[i].project = p
                                                   THEN [project[p] EXCEPT !.stage = stage] ELSE project[p]]
           \/ /\ EndedRows({j}, "failed")
              /\ project' = project \/ project' = [project EXCEPT ![job[j].project].stage = "failed"]
    BY <1>4, OverlayEffect
  <2> HIDE DEF k, S
  <2>2. CASE /\ EndedRows({j}, "failed")
             /\ project' = project \/ project' = [project EXCEPT ![job[j].project].stage = "failed"]
    <3>1. project' \in [Projects -> ProjectRow]
      BY <2>2 DEF Tables, ProjectRow, Stages
    <3>2. References'
      BY <2>1, <2>2, RowsRefer DEF EndedRows
    <3>3. Tables'
      BY <2>1, <2>2, <3>1 DEF Tables, EndedRows
    <3>4. Books'
      BY <2>1, BooksKept
    <3> QED BY <3>2, <3>3, <3>4
  <2>3. ASSUME NEW status \in {"succeeded", "failed"}, NEW stage \in {"done", "failed"},
               OverlayRows(S, j, status),
               project' = [p \in Projects |-> IF \E i \in S : job[i].project = p
                                              THEN [project[p] EXCEPT !.stage = stage] ELSE project[p]]
        PROVE  Ledgers'
    <3>1. project' \in [Projects -> ProjectRow]
      BY <2>3 DEF Tables, ProjectRow, Stages
    <3>2. References'
      BY <2>1, <2>3, RowsRefer DEF OverlayRows
    <3>3. Tables'
      BY <2>1, <2>3, <3>1 DEF Tables, OverlayRows
    <3>4. Books'
      BY <2>1, BooksKept
    <3> QED BY <3>2, <3>3, <3>4
  <2> QED BY <2>1, <2>2, <2>3
<1> QED BY <1>1, <1>2, <1>3, <1>4

LEMMA PublishKeepsLedgers ==
  ASSUME Ledgers, NEW j, Publish(j)
  PROVE  Ledgers'
<1> USE DEF Ledgers
<1> DEFINE u == job[j].update
<1>1. /\ j \in DOMAIN job /\ u # None
      /\ head' = u /\ generation' = generation + 1 /\ UNCHANGED lapses
      /\ OneEnds(u, "succeeded")
      /\ overlay' \in [1..MaxUpdates -> [Languages -> {"none", "pending", "ready", "failed"}]]
      /\ project' = [p \in Projects |->
           IF p \in Affected(u) THEN [stage |-> IF p \in Waiting(j) THEN "working" ELSE "done", key |-> u]
           ELSE project[p]]
      /\ job' \in Seq(Job)
      /\ \A i \in DOMAIN job : KeptRow(j, i)
      /\ \A i \in DOMAIN job' \ DOMAIN job : AddedRow(j, i)
  BY PublishEffect
<1>2. u \in 1..MaxUpdates /\ MaxUpdates \in Nat
  <2>1. u \in DOMAIN update /\ DOMAIN update = 1..Len(update) /\ Len(update) \in Nat
        /\ Len(update) <= MaxUpdates /\ MaxUpdates \in Nat
    BY <1>1, UpdatesAssumption DEF OneEnds, Tables
  <2> HIDE DEF u
  <2> QED BY <2>1
<1>3. /\ DOMAIN update' = DOMAIN update /\ update' \in Seq(AnyUpdate) /\ Len(update') <= MaxUpdates
      /\ reserved' \in Int
  BY <1>1 DEF OneEnds, Tables
<1>4. project' \in [Projects -> ProjectRow]
  <2>1. [stage |-> "working", key |-> u] \in ProjectRow /\ [stage |-> "done", key |-> u] \in ProjectRow
    BY <1>2 DEF ProjectRow, Stages
  <2> HIDE DEF u
  <2> QED BY <1>1, <2>1 DEF Tables
<1>5. References'
  <2>1. ASSUME NEW i \in DOMAIN job'
        PROVE  Refers(job'[i], DOMAIN update')
    <3>1. CASE i \in DOMAIN job
      <4>1. Refers(job[i], DOMAIN update)
        BY <3>1 DEF References, Refers
      <4>2. KeptRow(j, i)
        BY <1>1, <3>1
      <4>3. RoleOf(j, job[i].project) \in {"waiter", "overlay"}
        BY DEF RoleOf
      <4>4. CASE job[i].project \in Affected(u) /\ Represents(i, u)
        <5>1. CASE job[i].project \in Waiting(j)
          BY <1>1, <4>2, <4>3, <4>4, <5>1 DEF KeptRow, Refers
        <5>2. CASE job[i].project \notin Waiting(j)
          BY <1>3, <4>1, <4>2, <4>4, <5>2 DEF KeptRow, Refers
        <5> QED BY <5>1, <5>2
      <4>5. CASE ~(job[i].project \in Affected(u) /\ Represents(i, u))
        <5>1. /\ job'[i].role = job[i].role /\ job'[i].update = job[i].update /\ job'[i].overlay = job[i].overlay
              /\ job'[i].status \in {job[i].status, "succeeded", "lapsed"}
          BY <4>2, <4>5 DEF KeptRow
        <5> QED BY <1>3, <4>1, <5>1 DEF Refers
      <4> QED BY <4>4, <4>5
    <3>2. CASE i \notin DOMAIN job
      <4>1. AddedRow(j, i) /\ RoleOf(j, job'[i].project) \in {"waiter", "overlay"}
        BY <1>1, <3>2 DEF RoleOf
      <4> QED BY <1>1, <4>1 DEF AddedRow, Refers
    <3> QED BY <3>1, <3>2
  <2> QED BY <2>1 DEF References, Refers
<1>6. Tables'
  <2>1. head' \in 0..MaxUpdates
    BY <1>1, <1>2
  <2> QED BY <1>1, <1>3, <1>4, <2>1 DEF Tables
<1>7. Books'
  BY <1>1, BooksEnd
<1> QED BY <1>5, <1>6, <1>7

LEMMA DeleteKeepsLedgers ==
  ASSUME Ledgers, NEW p \in Projects, Delete(p)
  PROVE  Ledgers'
<1> USE DEF Ledgers
<1>1. /\ UNCHANGED <<overlay, head, generation, reserved, lapses>>
      /\ project' = [project EXCEPT ![p] = [stage |-> "deleted", key |-> None]]
      /\ job' \in Seq(Job) /\ DOMAIN job' = DOMAIN job
      /\ \A i \in DOMAIN job : JobWithout(i, p)
      /\ update' \in Seq(AnyUpdate) /\ Len(update') = Len(update) /\ DOMAIN update' = DOMAIN update
      /\ \A u \in DOMAIN update : UpdateWithout(u, p)
  BY DeleteEffect
<1>2. project' \in [Projects -> ProjectRow]
  BY <1>1, UpdatesAssumption DEF Tables, ProjectRow, Stages, None
<1>3. Tables'
  BY <1>1, <1>2 DEF Tables
<1>4. Books'
  <2>1. \A u \in DOMAIN update : update'[u].budget = update[u].budget /\ update'[u].status \in {update[u].status, "deleted"}
    BY <1>1 DEF UpdateWithout
  <2> QED BY <1>1, <2>1, BooksKept
<1>5. References'
  <2>1. \A i \in DOMAIN job :
          /\ job'[i].update = job[i].update /\ job'[i].overlay = job[i].overlay
          /\ job[i].project = p /\ job[i].status # "asked" => job'[i].status = "dropped"
          /\ ~(job[i].project = p /\ job[i].status # "asked") =>
               /\ job'[i].status = job[i].status
               /\ job'[i].role = IF i \in Promoted(p) THEN "leader" ELSE job[i].role
    BY <1>1 DEF JobWithout
  <2>2. ASSUME NEW i \in DOMAIN job PROVE Refers(job'[i], DOMAIN update')
    <3>1. Refers(job[i], DOMAIN update)
      BY DEF References, Refers
    <3>2. i \in Promoted(p) => job[i].status \in InQueue
      BY DEF Promoted, Active
    <3>3. CASE ~(job[i].project = p /\ job[i].status # "asked")
      BY <1>1, <2>1, <3>1, <3>2, <3>3 DEF Refers, InQueue
    <3>4. CASE job[i].project = p /\ job[i].status # "asked"
      <4>1. job'[i].status = "dropped" /\ job'[i].role = job[i].role
        BY <1>1, <3>4 DEF JobWithout
      <4> QED BY <1>1, <2>1, <3>1, <4>1 DEF Refers
    <3> QED BY <3>3, <3>4
  <2> QED BY <1>1, <2>2 DEF References, Refers
<1> QED BY <1>3, <1>4, <1>5

LEMMA InitLedgers == Init => Ledgers
<1> SUFFICES ASSUME Init PROVE Ledgers
  OBVIOUS
<1>1. {u \in DOMAIN update : Held(u)} = {} /\ DOMAIN update = {} /\ DOMAIN job = {}
  BY DEF Init
<1>2. Books
  BY <1>1, FS_EmptySet, UpdatesAssumption DEF Init, Books, OnlyUnendedHold
<1>3. References
  BY <1>1 DEF References
<1>4. Tables
  <2>1. MaxUpdates \in Nat /\ MaxLapses \in Nat
    BY UpdatesAssumption
  <2>2. project \in [Projects -> ProjectRow]
    <3>1. [stage |-> "absent", key |-> None] \in ProjectRow
      BY <2>1 DEF ProjectRow, Stages, None
    <3> QED BY <3>1 DEF Init
  <2>3. overlay \in [1..MaxUpdates -> [Languages -> {"none", "pending", "ready", "failed"}]]
    BY DEF Init
  <2>4. job \in Seq(Job) /\ update \in Seq(AnyUpdate) /\ Len(update) = 0
    BY DEF Init
  <2> QED BY <2>1, <2>2, <2>3, <2>4 DEF Init, Tables, None
<1> QED BY <1>2, <1>3, <1>4 DEF Ledgers

LEMMA StepKeepsLedgers == Ledgers /\ [Next]_vars => Ledgers'
<1> SUFFICES ASSUME Ledgers, [Next]_vars PROVE Ledgers'
  OBVIOUS
<1>1. CASE UNCHANGED vars
  BY <1>1 DEF vars, Ledgers, Tables, References, Books, OnlyUnendedHold, Held
<1>2. CASE \E c \in Clients, reuse \in BOOLEAN : Ask(c, reuse)
  BY <1>2, MoreKeepsLedgers
<1>3. CASE \E p \in Projects : StartBackground(p)
  BY <1>3, MoreKeepsLedgers
<1>4. CASE \E j \in JobIds : Refuse(j) \/ Join(j) \/ Reuse(j) \/ Follow(j)
  BY <1>4, RequestsKeepLedgers
<1>5. CASE \E j \in JobIds : Claim(j) \/ Lapse(j) \/ Retry(j) \/ FailUpdate(j) \/ PublishOverlay(j) \/ FailOverlay(j)
  BY <1>5, ExecutionsKeepLedgers
<1>6. CASE \E j \in JobIds : Publish(j)
  BY <1>6, PublishKeepsLedgers
<1>7. CASE \E p \in Projects : Delete(p)
  BY <1>7, DeleteKeepsLedgers
<1> QED BY <1>1, <1>2, <1>3, <1>4, <1>5, <1>6, <1>7 DEF Next

\* The daily budget, however requests, executions, lost leases, retries and deletions
\* interleave: what is reserved are the reservations of the background update that
\* runs and of those deleted with their only project while they ran.  An update that
\* was published or failed has given its reservation back, and none that runs has.
\* (settleBackgroundUpdateBudget(), createBackgroundRepositoryUpdate(), deleteProject().)
THEOREM BudgetStaysAccounted == Spec => []BudgetAccounted
<1>1. Ledgers => BudgetAccounted
  <2> SUFFICES ASSUME Ledgers PROVE BudgetAccounted
    OBVIOUS
  <2>1. HeldUpdates = Unsettled("active") \cup Unsettled("deleted")
    BY DEF Ledgers, Books, OnlyUnendedHold, Held, HeldUpdates, Unsettled
  <2>2. Unsettled("active") \cap Unsettled("deleted") = {}
    BY DEF Unsettled
  <2>3. IsFiniteSet(HeldUpdates)
    BY HeldFinite DEF Ledgers
  <2>4. IsFiniteSet(Unsettled("active")) /\ IsFiniteSet(Unsettled("deleted"))
    <3>1. Unsettled("active") \in SUBSET HeldUpdates /\ Unsettled("deleted") \in SUBSET HeldUpdates
      BY <2>1
    <3> QED BY <2>3, <3>1, FS_Subset
  <2>5. Cardinality(HeldUpdates) = Cardinality(Unsettled("active")) + Cardinality(Unsettled("deleted"))
    <3>1. Cardinality(Unsettled("active") \cup Unsettled("deleted"))
            = Cardinality(Unsettled("active")) + Cardinality(Unsettled("deleted"))
              - Cardinality(Unsettled("active") \cap Unsettled("deleted"))
      BY <2>4, FS_Union
    <3>2. Cardinality(Unsettled("active")) \in Nat /\ Cardinality(Unsettled("deleted")) \in Nat
      BY <2>4, FS_CardinalityType
    <3>3. Cardinality(Unsettled("active") \cap Unsettled("deleted")) = 0
      BY <2>2, FS_EmptySet
    <3> QED BY <2>1, <3>1, <3>2, <3>3
  <2>6. reserved = Cardinality(HeldUpdates)
    BY DEF Ledgers, Books, HeldUpdates
  <2>7. Unsettled("succeeded") = {} /\ Unsettled("failed") = {}
    BY DEF Ledgers, Books, OnlyUnendedHold, Held, Unsettled
  <2>8. \A u \in ActiveUpdates : update[u].budget # "settled"
    BY DEF Ledgers, Books, OnlyUnendedHold, ActiveUpdates
  <2> QED BY <2>5, <2>6, <2>7, <2>8 DEF BudgetAccounted
<1> QED BY <1>1, InitLedgers, StepKeepsLedgers, PTL DEF Spec

-----------------------------------------------------------------------------
(* Updates and their jobs, when requests are not interrupted.              *)

LEMMA LastOfIs ==
  ASSUME NEW S \in SUBSET Int, NEW h \in S, \A i \in S : i <= h
  PROVE  LastOf(S) = h
<1>1. PICK m \in S : m = LastOf(S) /\ \A i \in S : i <= m
  BY DEF LastOf
<1> QED BY <1>1

LEMMA AskGuards ==
  ASSUME Slow = {}, NEW c \in Clients, NEW reuse \in BOOLEAN, Ask(c, reuse)
  PROVE  /\ Midway = {} /\ Len(job) < MaxJobs
         /\ project[ProjectOf[c]].stage # "deleted" /\ ~HasActiveJob(ProjectOf[c])
BY DEF Ask, Undisturbed

\* A project that may ask has no job in an update.
LEMMA AsksWithoutUpdate ==
  ASSUME Tables, JobsOfUpdates, NEW p, ~HasActiveJob(p), NEW h \in DOMAIN job, Active(h), job[h].update # None
  PROVE  job[h].project # p
<1> SUFFICES ASSUME job[h].project = p PROVE FALSE
  OBVIOUS
<1> DEFINE rows == {j \in DOMAIN job : job[j].project = p /\ job[j].status \notin {"asked", "dropped"}}
<1>1. h \in rows
  BY DEF Active, InQueue
<1>2. DOMAIN job \subseteq Int
  BY DEF Tables
<1>3. \A i \in rows : i <= h
  BY <1>2 DEF JobsOfUpdates
<1>4. LastOf(rows) = h
  BY <1>1, <1>2, <1>3, LastOfIs
<1> QED BY <1>1, <1>4 DEF HasActiveJob

\* A step that leaves the updates and their jobs alone.
LEMMA UpdatesUntouched ==
  ASSUME Tables, OfUpdates, update' = update, DOMAIN job \subseteq DOMAIN job',
         \A i \in DOMAIN job : job'[i].project = job[i].project,
         \A i \in DOMAIN job : job[i].status \in InQueue /\ job[i].update # None =>
           /\ job'[i].status \in InQueue /\ job'[i].update = job[i].update
           /\ job'[i].role = job[i].role /\ job'[i].overlay = job[i].overlay,
         \A i \in DOMAIN job' : job'[i].status \in InQueue /\ job'[i].update # None =>
           i \in DOMAIN job /\ job[i].status \in InQueue /\ job[i].update # None,
         \A i \in DOMAIN job' \ DOMAIN job, h \in DOMAIN job :
           job[h].status \in InQueue /\ job[h].update # None => job'[i].project # job[h].project,
         \A p \in Projects : /\ project'[p].stage = "absent" => project[p].stage = "absent"
                             /\ project'[p].stage \notin {"absent", "deleted"} =>
                                  project[p].stage # "deleted"
  PROVE  OfUpdates'
<1>1. LastActive'
  BY DEF OfUpdates, LastActive, ActiveUpdates
<1>2. JobsOfUpdates'
  <2> SUFFICES ASSUME NEW j \in DOMAIN job', job'[j].status \in InQueue, job'[j].update # None
               PROVE  /\ job'[j].update \in ActiveUpdates' /\ job'[j].overlay = None
                      /\ job'[j].role \in {"leader", "waiter", "background"}
                      /\ job'[j].project \in ToSet(update'[job'[j].update].joined)
                      /\ job'[j].role # "waiter" => job'[j].project = update'[job'[j].update].leader
                      /\ \A i \in DOMAIN job' : i > j => job'[i].project # job'[j].project
    BY DEF JobsOfUpdates, Active
  <2>1. j \in DOMAIN job /\ job[j].status \in InQueue /\ job[j].update # None
    OBVIOUS
  <2>2. /\ job'[j].update = job[j].update /\ job'[j].role = job[j].role /\ job'[j].overlay = job[j].overlay
        /\ job'[j].project = job[j].project
    BY <2>1
  <2>3. /\ job[j].update \in ActiveUpdates /\ job[j].overlay = None
        /\ job[j].role \in {"leader", "waiter", "background"}
        /\ job[j].project \in ToSet(update[job[j].update].joined)
        /\ job[j].role # "waiter" => job[j].project = update[job[j].update].leader
        /\ \A i \in DOMAIN job : i > j => job[i].project # job[j].project
    BY <2>1 DEF OfUpdates, JobsOfUpdates, Active
  <2>4. ActiveUpdates' = ActiveUpdates
    BY DEF ActiveUpdates
  <2>5. ASSUME NEW i \in DOMAIN job', i > j PROVE job'[i].project # job'[j].project
    <3>1. CASE i \in DOMAIN job
      BY <2>2, <2>3, <2>5, <3>1
    <3>2. CASE i \notin DOMAIN job
      BY <2>1, <2>2, <3>2
    <3> QED BY <3>1, <3>2
  <2> QED BY <2>2, <2>3, <2>4, <2>5
<1>3. Represented'
  <2> SUFFICES ASSUME NEW u \in ActiveUpdates'
               PROVE  /\ \A p \in ToSet(update'[u].joined) :
                           /\ project'[p].stage # "absent"
                           /\ Exists(p)' => JobsIn(p, u)' # {}
                      /\ \E j \in DOMAIN job' : Drives(j, u)'
    BY DEF Represented
  <2>1. u \in ActiveUpdates /\ u # None /\ update[u].joined \in Seq(Projects)
    <3>1. u \in ActiveUpdates
      BY DEF ActiveUpdates
    <3> QED BY <3>1, UpdateType DEF ActiveUpdates, Tables, None
  <2>2. ASSUME NEW p \in ToSet(update[u].joined)
        PROVE  project'[p].stage # "absent" /\ (Exists(p)' => JobsIn(p, u)' # {})
    <3>1. p \in Projects /\ project[p].stage # "absent" /\ (Exists(p) => JobsIn(p, u) # {})
      BY <2>1 DEF OfUpdates, Represented, ToSet
    <3>2. ASSUME Exists(p)' PROVE JobsIn(p, u)' # {}
      <4>1. Exists(p)
        BY <3>1, <3>2 DEF Exists
      <4>2. PICK h \in DOMAIN job : job[h].project = p /\ job[h].update = u /\ job[h].status \in InQueue
        BY <3>1, <4>1 DEF JobsIn, Active
      <4>3. /\ h \in DOMAIN job' /\ job'[h].project = p /\ job'[h].update = u
            /\ job'[h].status \in InQueue
        BY <2>1, <4>2
      <4>4. h \in JobsIn(p, u)'
        BY <4>3 DEF JobsIn, Active
      <4> QED BY <4>4
    <3> QED BY <3>1, <3>2
  <2>3. PICK j \in DOMAIN job : Drives(j, u)
    BY <2>1 DEF OfUpdates, Represented
  <2>4. Drives(j, u)' /\ j \in DOMAIN job'
    BY <2>1, <2>3 DEF Drives, Active
  <2> QED BY <2>2, <2>4
<1> QED BY <1>1, <1>2, <1>3 DEF OfUpdates

\* A step after which no update is active.
LEMMA UpdatesOver ==
  ASSUME \A u \in DOMAIN update' : update'[u].status # "active",
         \A i \in DOMAIN job' : job'[i].status \in InQueue => job'[i].update = None
  PROVE  OfUpdates'
<1>1. ActiveUpdates' = {}
  BY DEF ActiveUpdates
<1>2. LastActive' /\ Represented'
  BY <1>1 DEF LastActive, Represented
<1>3. JobsOfUpdates'
  BY DEF JobsOfUpdates, Active
<1> QED BY <1>2, <1>3 DEF OfUpdates

\* The invariant of the theorems about projects and waiters.
Shared == Ledgers /\ OfUpdates /\ OfProjects /\ OneMidway

\* The request whose call it is: it is the youngest and its row is not in the queue.
LEMMA AskedIsLast ==
  ASSUME Shared, NEW j \in DOMAIN job, job[j].status = "asked"
  PROVE  /\ Midway = {j} /\ j = Len(job) /\ AskedWell(j) /\ job[j].update = None /\ ~Active(j)
         /\ job[j].project \in Projects /\ job[j].seen \in ProjectRow
<1>1. \A i \in Midway : i = Len(job)
  BY DEF Shared, OneMidway
<1>2. j \in Midway
  BY DEF Midway
<1>3. AskedWell(j)
  BY <1>2 DEF Shared, OneMidway
<1>4. job[j] \in Job
  BY DEF Shared, Ledgers, Tables
<1> QED BY <1>1, <1>2, <1>3, <1>4, RowType DEF AskedWell, Active, InQueue

\* A row of a job that is not changed in what matters to updates.
LEMMA RowUntouched ==
  ASSUME Tables, OfUpdates, NEW j, OnlyRow(j), update' = update,
         job[j].status \in InQueue /\ job[j].update # None =>
           /\ job'[j].status \in InQueue /\ job'[j].update = job[j].update
           /\ job'[j].role = job[j].role /\ job'[j].overlay = job[j].overlay,
         job'[j].status \in InQueue /\ job'[j].update # None =>
           job[j].status \in InQueue /\ job[j].update # None,
         \A p \in Projects : /\ project'[p].stage = "absent" => project[p].stage = "absent"
                             /\ project'[p].stage \notin {"absent", "deleted"} =>
                                  project[p].stage # "deleted"
  PROVE  OfUpdates'
<1>1. DOMAIN job' = DOMAIN job /\ \A i \in DOMAIN job : i = j \/ job'[i] = job[i]
  BY DEF OnlyRow
<1>2. \A i \in DOMAIN job : job'[i].project = job[i].project
  BY <1>1 DEF OnlyRow
<1>3. \A i \in DOMAIN job : job[i].status \in InQueue /\ job[i].update # None =>
           /\ job'[i].status \in InQueue /\ job'[i].update = job[i].update
           /\ job'[i].role = job[i].role /\ job'[i].overlay = job[i].overlay
  BY <1>1
<1>4. \A i \in DOMAIN job' : job'[i].status \in InQueue /\ job'[i].update # None =>
           i \in DOMAIN job /\ job[i].status \in InQueue /\ job[i].update # None
  BY <1>1
<1>5. \A i \in DOMAIN job' \ DOMAIN job, h \in DOMAIN job :
           job[h].status \in InQueue /\ job[h].update # None => job'[i].project # job[h].project
  BY <1>1
<1> QED BY <1>1, <1>2, <1>3, <1>4, <1>5, UpdatesUntouched

LEMMA RequestsKeepUpdates ==
  ASSUME Shared, Slow = {}, NEW j, Refuse(j) \/ Reuse(j) \/ Follow(j)
  PROVE  OfUpdates'
<1> USE DEF Shared, Ledgers
<1>1. CASE Refuse(j)
  <2>1. /\ project' = project /\ update' = update /\ OnlyRow(j) /\ job[j].status = "asked"
        /\ job'[j] = [job[j] EXCEPT !.status = "dropped"] /\ job[j] \in Job
    BY <1>1, RefuseEffect DEF Tables, OnlyRow
  <2>2. job[j].status \notin InQueue /\ job'[j].status \notin InQueue
    BY <2>1 DEF Job, InQueue
  <2> QED BY <2>1, <2>2, RowUntouched
<1>2. CASE Reuse(j)
  <2> DEFINE p == job[j].project  k == job[j].overlay
  <2>1. /\ update' = update /\ OnlyRow(j) /\ job[j].status = "asked" /\ p \in Projects
        /\ Admissible(p, job[j].seen) /\ job'[j].update = job[j].update
        /\ \/ project' = project
           \/ \E stage \in {"done", "working"} : project' = [project EXCEPT ![p] = [stage |-> stage, key |-> k]]
    BY <1>2, ReuseEffect
  <2>2. job[j].update = None /\ ~Active(j)
    BY <2>1, AskedIsLast DEF OnlyRow
  <2>3. project[p].stage # "deleted"
    BY <2>1 DEF Admissible, Exists
  <2>4. \A q \in Projects : /\ project'[q].stage = "absent" => project[q].stage = "absent"
                            /\ project'[q].stage \notin {"absent", "deleted"} => project[q].stage # "deleted"
    <3> HIDE DEF p, k
    <3>1. project \in [Projects -> ProjectRow]
      BY DEF Tables
    <3>2. CASE project' = project
      BY <3>2
    <3>3. ASSUME NEW stage \in {"done", "working"}, project' = [project EXCEPT ![p] = [stage |-> stage, key |-> k]]
          PROVE  \A q \in Projects :
                   /\ project'[q].stage = "absent" => project[q].stage = "absent"
                   /\ project'[q].stage \notin {"absent", "deleted"} => project[q].stage # "deleted"
      BY <2>1, <2>3, <3>1, <3>3
    <3> QED BY <2>1, <3>2, <3>3
  <2> QED BY <2>1, <2>2, <2>4, RowUntouched DEF Active
<1>3. CASE Follow(j)
  <2> DEFINE p == job[j].project
  <2>1. /\ update' = update /\ OnlyRow(j) /\ job[j].follow # "no"
        /\ job'[j] = [job[j] EXCEPT !.follow = "no"] /\ job[j] \in Job
        /\ project' = [project EXCEPT ![p] = [stage |-> job[j].follow, key |-> job[j].seen.key]]
    BY <1>3, FollowEffect DEF Tables, OnlyRow
  <2>2. FollowsWell(j) /\ p \in Projects
    BY <2>1, RowType DEF OneMidway, Midway, OnlyRow
  <2>3. /\ job'[j].status = job[j].status /\ job'[j].update = job[j].update
        /\ job'[j].role = job[j].role /\ job'[j].overlay = job[j].overlay
    BY <2>1 DEF Job
  <2>4. \A q \in Projects : /\ project'[q].stage = "absent" => project[q].stage = "absent"
                            /\ project'[q].stage \notin {"absent", "deleted"} => project[q].stage # "deleted"
    BY <2>1, <2>2 DEF Tables, FollowsWell, Exists
  <2> QED BY <2>1, <2>3, <2>4, RowUntouched
<1> QED BY <1>1, <1>2, <1>3

LEMMA AskKeepsUpdates ==
  ASSUME Shared, Slow = {}, NEW c \in Clients, NEW reuse \in BOOLEAN, Ask(c, reuse)
  PROVE  OfUpdates'
<1> USE DEF Shared, Ledgers
<1> DEFINE n == Len(job) + 1
<1>1. /\ UNCHANGED <<project, update>> /\ job' = Append(job, job'[n]) /\ job'[n] \in Job
      /\ job'[n].project = ProjectOf[c] /\ job'[n].status = "asked"
  BY AskEffect
<1>2. /\ DOMAIN job \subseteq DOMAIN job' /\ \A i \in DOMAIN job : job'[i] = job[i]
      /\ \A i \in DOMAIN job' : i \in DOMAIN job \/ i = n
  BY <1>1, AppendedRow DEF Tables
<1>3. \A h \in DOMAIN job : Active(h) /\ job[h].update # None => job[h].project # ProjectOf[c]
  BY AskGuards, AsksWithoutUpdate DEF OfUpdates
<1>4. job'[n].status \notin InQueue
  BY <1>1 DEF InQueue
<1> HIDE DEF n
<1>5. \A i \in DOMAIN job : job'[i].project = job[i].project
  BY <1>2
<1>6. \A i \in DOMAIN job' : job'[i].status \in InQueue /\ job'[i].update # None =>
           i \in DOMAIN job /\ job[i].status \in InQueue /\ job[i].update # None
  BY <1>2, <1>4
<1>7. \A i \in DOMAIN job' \ DOMAIN job, h \in DOMAIN job :
           job[h].status \in InQueue /\ job[h].update # None => job'[i].project # job[h].project
  BY <1>1, <1>2, <1>3 DEF Active
<1> QED BY <1>1, <1>2, <1>5, <1>6, <1>7, UpdatesUntouched

LEMMA ExecutionsLeaveUpdates ==
  ASSUME Shared, Slow = {}, NEW j, Claim(j) \/ Lapse(j) \/ Retry(j) \/ PublishOverlay(j) \/ FailOverlay(j)
  PROVE  OfUpdates'
<1> USE DEF Shared, Ledgers
<1>0. project \in [Projects -> ProjectRow]
  BY DEF Tables
<1>1. CASE Claim(j)
  <2>1. /\ update' = update /\ OnlyRow(j) /\ job[j].status \in {"queued", "lapsed"} /\ job'[j].status = "running"
        /\ job'[j].role = job[j].role /\ job'[j].update = job[j].update /\ job'[j].overlay = job[j].overlay
    BY <1>1, ClaimEffect
  <2>2. PICK marked \in SUBSET Projects :
          /\ project' = [q \in Projects |-> IF q \in marked THEN [project[q] EXCEPT !.stage = "working"]
                                            ELSE project[q]]
          /\ \/ job[j].update # None /\ marked \subseteq Joined(job[j].update)
             \/ job[j].update = None /\ marked \subseteq {job[j].project}
    BY <1>1, ClaimEffect
  <2>3. \A q \in marked : Exists(q)
    BY <2>1, <2>2 DEF Joined, OfProjects, JobsAlive, Active, InQueue, OnlyRow
  <2>4. \A q \in Projects : /\ project'[q].stage = "absent" => project[q].stage = "absent"
                            /\ project'[q].stage \notin {"absent", "deleted"} => project[q].stage # "deleted"
    BY <1>0, <2>2, <2>3 DEF Exists, ProjectRow
  <2>5. job[j].status \in InQueue /\ job'[j].status \in InQueue
    BY <2>1 DEF InQueue
  <2> QED BY <2>1, <2>4, <2>5, RowUntouched
<1>2. CASE Lapse(j) \/ Retry(j)
  <2>0. /\ update' = update /\ project' = project /\ OnlyRow(j) /\ job[j].status = "running"
        /\ \E status \in {"lapsed", "queued"} : job'[j] = [job[j] EXCEPT !.status = status]
    BY <1>2, RestEffect
  <2>1. job[j] \in Job
    BY <2>0 DEF Tables, OnlyRow
  <2>2. /\ job'[j].role = job[j].role /\ job'[j].update = job[j].update /\ job'[j].overlay = job[j].overlay
        /\ job[j].status \in InQueue /\ job'[j].status \in InQueue
    BY <2>0, <2>1 DEF Job, InQueue
  <2> QED BY <2>0, <2>2, RowUntouched
<1>3. CASE PublishOverlay(j) \/ FailOverlay(j)
  <2> DEFINE k == job[j].seen.key  l == LanguageOf[job[j].project]  S == OverlayJobs(k, l)
  <2>1. j \in DOMAIN job /\ job[j].status = "running" /\ job[j].role = "overlay" /\ update' = update
    BY <1>3, OverlayEffect
  <2>2. job[j].update = None
    BY <2>1 DEF OfUpdates, JobsOfUpdates, Active, InQueue
  <2>3. k # None
    BY <2>1, <2>2 DEF OfProjects, JobsOfOverlays, Active, InQueue
  <2>4. PICK status \in {"succeeded", "failed"}, stage \in {"done", "failed"} :
          /\ OverlayRows(S, j, status)
          /\ project' = [p \in Projects |-> IF \E i \in S : job[i].project = p
                                            THEN [project[p] EXCEPT !.stage = stage] ELSE project[p]]
    BY <1>3, <2>3, OverlayEffect
  <2>5. \A i \in S : Active(i) /\ job[i].update = None
    BY <2>3 DEF OverlayJobs, OfUpdates, JobsOfUpdates
  <2>6. \A q \in Projects : /\ project'[q].stage = "absent" => project[q].stage = "absent"
                            /\ project'[q].stage \notin {"absent", "deleted"} => project[q].stage # "deleted"
    <3>1. \A i \in S : Exists(job[i].project)
      BY <2>5 DEF OfProjects, JobsAlive, OverlayJobs
    <3> HIDE DEF S
    <3> QED BY <1>0, <2>4, <3>1 DEF Exists, ProjectRow
  <2> HIDE DEF S
  <2>7. \A i \in DOMAIN job : job[i].status \in InQueue /\ job[i].update # None => job'[i] = job[i]
    BY <2>1, <2>2, <2>4, <2>5 DEF OverlayRows
  <2>8. /\ DOMAIN job' = DOMAIN job /\ \A i \in DOMAIN job : job'[i].project = job[i].project
        /\ \A i \in DOMAIN job : job'[i].update = job[i].update
    BY <2>4 DEF OverlayRows
  <2>9. \A i \in DOMAIN job' : job'[i].status \in InQueue /\ job'[i].update # None =>
           i \in DOMAIN job /\ job[i].status \in InQueue /\ job[i].update # None
    <3>1. ASSUME NEW i \in DOMAIN job, job'[i].status \in InQueue, job[i].update # None
          PROVE  job[i].status \in InQueue
      <4>1. i \notin S /\ i # j
        BY <2>2, <2>5, <3>1
      <4>2. job'[i] = job[i]
        BY <2>4, <4>1 DEF OverlayRows
      <4> QED BY <3>1, <4>2
    <3> QED BY <2>8, <3>1
  <2> QED BY <2>1, <2>6, <2>7, <2>8, <2>9, UpdatesUntouched
<1> QED BY <1>1, <1>2, <1>3

\* A job j of the update that is now the only active one.
LEMMA OneLeads ==
  ASSUME Tables, NEW p \in Projects, NEW budget, OneUpdateMore(p, budget), NEW j \in DOMAIN job',
         JobsOfUpdates, DOMAIN job' \ {j} \subseteq DOMAIN job,
         \A i \in DOMAIN job' \ {j} : job'[i] = job[i] /\ i < j,
         job'[j].project = p, job'[j].status = "queued", job'[j].role \in {"leader", "background"},
         NEW u, u = Len(update) + 1, job'[j].update = u, job'[j].overlay = None,
         project'[p].stage # "absent", DOMAIN job' \subseteq Int
  PROVE  OfUpdates'
<1>1. ActiveUpdates' = {u} /\ ToSet(update'[u].joined) = {p} /\ update'[u].leader = p /\ u = Len(update')
  BY DEF OneUpdateMore, ActiveUpdates
<1>2. u # None
  BY DEF Tables, None
<1>4. ASSUME NEW i \in DOMAIN job', job'[i].status \in InQueue, job'[i].update # None PROVE i = j
  <2>1. i # j => i \in DOMAIN job /\ Active(i) /\ job[i].update # None
    BY <1>4 DEF Active
  <2>2. ActiveUpdates = {}
    BY DEF OneUpdateMore
  <2> QED BY <2>1, <2>2 DEF JobsOfUpdates
<1>5. LastActive'
  BY <1>1 DEF LastActive
<1>6. JobsOfUpdates'
  <2>2. \A i \in DOMAIN job' : ~(i > j)
    OBVIOUS
  <2>3. \A i \in DOMAIN job' : job'[i].status \in InQueue /\ job'[i].update # None =>
          /\ job'[i].update \in ActiveUpdates' /\ job'[i].overlay = None
          /\ job'[i].role \in {"leader", "waiter", "background"}
          /\ job'[i].project \in ToSet(update'[job'[i].update].joined)
          /\ job'[i].role # "waiter" => job'[i].project = update'[job'[i].update].leader
          /\ \A h \in DOMAIN job' : h > i => job'[h].project # job'[i].project
    BY <1>1, <1>4, <2>2
  <2> QED BY <2>3 DEF JobsOfUpdates, Active
<1>7. Represented'
  <2>1. j \in JobsIn(p, u)'
    BY DEF JobsIn, Active, InQueue
  <2>2. Drives(j, u)'
    BY DEF Drives, Active, InQueue
  <2> QED BY <1>1, <2>1, <2>2 DEF Represented
<1> QED BY <1>5, <1>6, <1>7 DEF OfUpdates

LEMMA BackgroundKeepsUpdates ==
  ASSUME Shared, NEW p \in Projects, StartBackground(p)
  PROVE  OfUpdates'
<1> DEFINE n == Len(job) + 1
<1>1. /\ project' = project /\ job' = Append(job, job'[n]) /\ job'[n] \in Job
      /\ job'[n].project = p /\ job'[n].status = "queued" /\ job'[n].role = "background"
      /\ job'[n].update = Len(update) + 1 /\ job'[n].overlay = None
      /\ Exists(p) /\ OneUpdateMore(p, "reserved")
  BY BackgroundEffect DEF Shared, Ledgers
<1>2. /\ n \in DOMAIN job' /\ \A i \in DOMAIN job' : i \in DOMAIN job \/ i = n
      /\ \A i \in DOMAIN job : job'[i] = job[i] /\ i < n
      /\ DOMAIN job' \subseteq Int
  <2>1. job \in Seq(Job)
    BY DEF Shared, Ledgers, Tables
  <2> HIDE DEF n
  <2>2. job' = Append(job, job'[n]) /\ job'[n] \in Job
    BY <1>1
  <2>3. n = Len(job) + 1
    BY DEF n
  <2> QED BY <2>1, <2>2, <2>3, AppendedRow
<1>3. project'[p].stage # "absent"
  BY <1>1 DEF Exists
<1>4. Tables /\ JobsOfUpdates
  BY DEF Shared, Ledgers, OfUpdates
<1> HIDE DEF n
<1> QED BY <1>1, <1>2, <1>3, <1>4, OneLeads

LEMMA JoinKeepsUpdates ==
  ASSUME Shared, NEW j, Join(j)
  PROVE  OfUpdates'
<1> DEFINE p == job[j].project
<1>1. /\ OnlyRow(j) /\ job[j].status = "asked" /\ job[j].role = "waiter" /\ p \in Projects
      /\ Admissible(p, job[j].seen) /\ project' = [project EXCEPT ![p] = job[j].seen]
      /\ job'[j].status = "queued" /\ job'[j].overlay = job[j].overlay
      /\ \/ OneUpdateMore(p, "none") /\ job'[j].role = "leader" /\ job'[j].update = Len(update) + 1
         \/ /\ \E v \in ActiveUpdates : OneJoins(v, p)
            /\ job'[j].role = "waiter" /\ job'[j].update \in ActiveUpdates
  BY JoinEffect DEF Shared, Ledgers
<1>2. /\ j = Len(job) /\ AskedWell(j) /\ ~Active(j) /\ job[j].seen \in ProjectRow
  BY <1>1, AskedIsLast DEF OnlyRow
<1>3. /\ job'[j].overlay = None /\ job[j].seen.stage \in {"working", "done"}
  BY <1>1, <1>2 DEF AskedWell
<1>4. /\ DOMAIN job' = DOMAIN job /\ j \in DOMAIN job /\ job'[j].project = p /\ DOMAIN job \subseteq Int
      /\ \A i \in DOMAIN job \ {j} : job'[i] = job[i] /\ i < j
  <2>1. DOMAIN job = 1..Len(job) /\ Len(job) \in Nat
    BY DEF Shared, Ledgers, Tables
  <2> QED BY <1>1, <1>2, <2>1 DEF OnlyRow
<1>5. /\ project'[p].stage = job[j].seen.stage
      /\ \A q \in Projects \ {p} : project'[q] = project[q]
  BY <1>1 DEF Shared, Ledgers, Tables
<1> USE DEF Shared, Ledgers
<1>6. CASE OneUpdateMore(p, "none") /\ job'[j].role = "leader" /\ job'[j].update = Len(update) + 1
  <2>1. project'[p].stage # "absent"
    BY <1>3, <1>5
  <2> HIDE DEF p
  <2> QED BY <1>1, <1>3, <1>4, <1>6, <2>1, OneLeads DEF OfUpdates
<1>7. CASE /\ \E v \in ActiveUpdates : OneJoins(v, p)
           /\ job'[j].role = "waiter" /\ job'[j].update \in ActiveUpdates
  <2>1. PICK v \in ActiveUpdates : OneJoins(v, p)
    BY <1>7
  <2> HIDE DEF p
  <2>2. ActiveUpdates = {v} /\ v = Len(update) /\ v # None /\ update[v].joined \in Seq(Projects)
    BY UpdateType DEF OfUpdates, LastActive, ActiveUpdates, Tables, None
  <2>3. ActiveUpdates' = {v} /\ v = Len(update')
    <3>1. \A u \in DOMAIN update : update[u].status = "active" => u = v
      BY <2>2 DEF ActiveUpdates
    <3> QED BY <2>1, <2>2, <3>1 DEF OneJoins, ActiveUpdates
  <2>4. job'[j].update = v
    BY <1>7, <2>2
  <2>5. ToSet(update'[v].joined) = ToSet(update[v].joined) \cup {p} /\ update'[v].leader = update[v].leader
    BY <2>1 DEF OneJoins
  <2>6. ASSUME NEW i \in DOMAIN job, i # j, job[i].status \in InQueue, job[i].update # None
        PROVE  /\ job[i].update = v /\ job[i].overlay = None
               /\ job[i].role \in {"leader", "waiter", "background"}
               /\ job[i].project \in ToSet(update[v].joined)
               /\ job[i].role # "waiter" => job[i].project = update[v].leader
               /\ \A h \in DOMAIN job : h > i => job[h].project # job[i].project
    BY <2>2, <2>6 DEF OfUpdates, JobsOfUpdates, Active
  <2>7. \A i \in DOMAIN job : job'[i].project = job[i].project
    BY <1>4 DEF p
  <2>8. JobsOfUpdates'
    <3> SUFFICES ASSUME NEW i \in DOMAIN job', job'[i].status \in InQueue, job'[i].update # None
                 PROVE  /\ job'[i].update \in ActiveUpdates' /\ job'[i].overlay = None
                        /\ job'[i].role \in {"leader", "waiter", "background"}
                        /\ job'[i].project \in ToSet(update'[job'[i].update].joined)
                        /\ job'[i].role # "waiter" => job'[i].project = update'[job'[i].update].leader
                        /\ \A h \in DOMAIN job' : h > i => job'[h].project # job'[i].project
      BY DEF JobsOfUpdates, Active
    <3>1. CASE i = j
      <4>1. \A h \in DOMAIN job' : ~(h > i)
        <5>1. DOMAIN job \subseteq Int
          BY DEF Tables
        <5> QED BY <1>4, <3>1, <5>1
      <4> QED BY <1>3, <1>4, <1>7, <2>3, <2>4, <2>5, <3>1, <4>1
    <3>2. CASE i # j
      <4>1. job'[i] = job[i] /\ i \in DOMAIN job
        BY <1>4, <3>2
      <4> QED BY <1>4, <2>3, <2>5, <2>6, <2>7, <3>2, <4>1
    <3> QED BY <3>1, <3>2
  <2>9. Represented'
    <3>1. ASSUME NEW q \in ToSet(update[v].joined) \cup {p}
          PROVE  project'[q].stage # "absent" /\ (Exists(q)' => JobsIn(q, v)' # {})
      <4>1. CASE q = p
        <5>1. j \in JobsIn(q, v)'
          BY <1>1, <1>4, <2>4, <4>1 DEF JobsIn, Active, InQueue
        <5> QED BY <1>3, <1>5, <4>1, <5>1
      <4>2. CASE q # p
        <5>1. q \in ToSet(update[v].joined) /\ q \in Projects
          BY <2>2, <4>2 DEF ToSet
        <5>2. project'[q] = project[q] /\ project[q].stage # "absent" /\ (Exists(q) => JobsIn(q, v) # {})
          BY <1>5, <4>2, <5>1 DEF OfUpdates, Represented
        <5>3. ASSUME NEW h \in JobsIn(q, v) PROVE h \in JobsIn(q, v)'
          <6>1. h # j
            BY <1>2, <5>3 DEF JobsIn
          <6> QED BY <1>4, <5>3, <6>1 DEF JobsIn, Active
        <5> QED BY <5>2, <5>3 DEF Exists
      <4> QED BY <4>1, <4>2
    <3>2. PICK h \in DOMAIN job : Drives(h, v)
      BY DEF OfUpdates, Represented
    <3>3. Drives(h, v)' /\ h \in DOMAIN job'
      <4>1. h # j
        BY <1>2, <3>2 DEF Drives
      <4> QED BY <1>4, <3>2, <4>1 DEF Drives, Active
    <3> QED BY <2>3, <2>5, <3>1, <3>3 DEF Represented
  <2>10. LastActive'
    BY <2>3 DEF LastActive
  <2> QED BY <2>8, <2>9, <2>10 DEF OfUpdates
<1> QED BY <1>1, <1>6, <1>7

\* The update of an execution is the active one, and all jobs with an update are its.
LEMMA ActiveUpdateOf ==
  ASSUME Shared, NEW j \in DOMAIN job, job[j].status = "running", job[j].update # None
  PROVE  /\ job[j].update \in DOMAIN update /\ ActiveUpdates = {job[j].update}
         /\ job[j].update = Len(update)
         /\ \A i \in DOMAIN job : Active(i) /\ job[i].update # None =>
              job[i].update = job[j].update /\ job[i].project \in Joined(job[j].update)
<1>1. Active(j)
  BY DEF Active, InQueue
<1>2. job[j].update \in ActiveUpdates
  BY <1>1 DEF Shared, OfUpdates, JobsOfUpdates
<1>3. ActiveUpdates = {job[j].update} /\ job[j].update = Len(update)
  BY <1>2 DEF Shared, OfUpdates, LastActive
<1>4. ASSUME NEW i \in DOMAIN job, Active(i), job[i].update # None
      PROVE  job[i].update = job[j].update /\ job[i].project \in Joined(job[j].update)
  <2>1. job[i].update \in ActiveUpdates /\ job[i].project \in ToSet(update[job[i].update].joined)
    BY <1>4 DEF Shared, OfUpdates, JobsOfUpdates
  <2>2. Exists(job[i].project)
    BY <1>4 DEF Shared, OfProjects, JobsAlive
  <2> QED BY <1>3, <2>1, <2>2 DEF Joined
<1> QED BY <1>2, <1>3, <1>4 DEF ActiveUpdates

LEMMA FailUpdateKeepsUpdates ==
  ASSUME Shared, NEW j, FailUpdate(j)
  PROVE  OfUpdates'
<1> DEFINE u == job[j].update  S == {i \in DOMAIN job : Active(i) /\ job[i].update = u}
<1>1. /\ j \in DOMAIN job /\ job[j].status = "running" /\ u # None
      /\ OneEnds(u, "failed") /\ EndedRows(S, "failed")
  BY FailUpdateEffect DEF Shared, Ledgers
<1>2. /\ ActiveUpdates = {u}
      /\ \A i \in DOMAIN job : Active(i) /\ job[i].update # None => job[i].update = u
  BY <1>1, ActiveUpdateOf
<1>3. \A v \in DOMAIN update' : update'[v].status # "active"
  BY <1>1, <1>2 DEF OneEnds, ActiveUpdates
<1>4. \A i \in DOMAIN job' : job'[i].status \in InQueue => job'[i].update = None
  <2>1. ASSUME NEW i \in DOMAIN job, job'[i].status \in InQueue, job[i].update # None PROVE FALSE
    <3>1. CASE i \in S
      BY <1>1, <2>1, <3>1 DEF EndedRows, InQueue
    <3>2. CASE i \notin S
      <4>1. job'[i] = job[i]
        BY <1>1, <3>2 DEF EndedRows
      <4>2. Active(i)
        BY <2>1, <4>1 DEF Active
      <4> QED BY <1>2, <2>1, <3>2, <4>2
    <3> QED BY <3>1, <3>2
  <2>2. DOMAIN job' = DOMAIN job /\ \A i \in DOMAIN job : job'[i].update = job[i].update
    BY <1>1 DEF EndedRows
  <2> QED BY <2>1, <2>2
<1> QED BY <1>3, <1>4, UpdatesOver

\* In a publication every job of the update is the one that represents its project.
LEMMA AllRepresent ==
  ASSUME Shared, NEW j \in DOMAIN job, job[j].status = "running", job[j].update # None,
         NEW i \in DOMAIN job, Active(i), job[i].update = job[j].update
  PROVE  job[i].project \in Affected(job[j].update) /\ Represents(i, job[j].update)
<1> DEFINE u == job[j].update  mine == JobsIn(job[i].project, u)
<1>1. job[i].project \in Joined(u)
  BY ActiveUpdateOf
<1>2. Exists(job[i].project) /\ job[i].project \in Projects
  BY RowType DEF Shared, Ledgers, Tables, OfProjects, JobsAlive
<1>3. i \in mine
  BY DEF JobsIn
<1>4. DOMAIN job \subseteq Int
  BY DEF Shared, Ledgers, Tables
<1>5. \A h \in mine : h <= i
  BY <1>4 DEF JobsIn, Shared, OfUpdates, JobsOfUpdates
<1>6. mine \in SUBSET Int
  BY <1>4 DEF JobsIn
<1>7. LastOf(mine) = i
  <2> HIDE DEF mine
  <2> QED BY <1>3, <1>5, <1>6, LastOfIs
<1> QED BY <1>1, <1>2, <1>3, <1>7 DEF Affected, Represents

LEMMA PublishKeepsUpdates ==
  ASSUME Shared, NEW j, Publish(j)
  PROVE  OfUpdates'
<1> DEFINE u == job[j].update
<1>1. /\ j \in DOMAIN job /\ job[j].status = "running" /\ u # None /\ OneEnds(u, "succeeded")
      /\ \A i \in DOMAIN job : KeptRow(j, i)
      /\ \A i \in DOMAIN job' \ DOMAIN job : AddedRow(j, i)
  BY PublishEffect DEF Shared, Ledgers
<1>2. /\ ActiveUpdates = {u}
      /\ \A i \in DOMAIN job : Active(i) /\ job[i].update # None => job[i].update = u
  BY <1>1, ActiveUpdateOf
<1>3. \A v \in DOMAIN update' : update'[v].status # "active"
  BY <1>1, <1>2 DEF OneEnds, ActiveUpdates
<1>4. ASSUME NEW i \in DOMAIN job, job'[i].status \in InQueue PROVE job'[i].update = None
  <2>1. CASE Active(i) /\ job[i].update = u
    <3>1. job[i].project \in Affected(u) /\ Represents(i, u)
      BY <1>1, <2>1, AllRepresent
    <3>2. KeptRow(j, i)
      BY <1>1
    <3> QED BY <1>4, <3>1, <3>2 DEF KeptRow, InQueue
  <2>2. CASE ~(Active(i) /\ job[i].update = u)
    <3>1. ~Represents(i, u) /\ i # j
      BY <1>1, <2>2 DEF Represents, JobsIn, Active, InQueue
    <3>2. job'[i] = job[i]
      BY <1>1, <2>2, <3>1 DEF KeptRow
    <3> QED BY <1>2, <1>4, <2>2, <3>2 DEF Active
  <2> QED BY <2>1, <2>2
<1>5. \A i \in DOMAIN job' \ DOMAIN job : job'[i].update = None
  BY <1>1 DEF AddedRow
<1> QED BY <1>3, <1>4, <1>5, UpdatesOver

LEMMA DeleteKeepsUpdates ==
  ASSUME Shared, NEW p \in Projects, Delete(p)
  PROVE  OfUpdates'
<1>0. Tables
  BY DEF Shared, Ledgers
<1>1. /\ project' = [project EXCEPT ![p] = [stage |-> "deleted", key |-> None]]
      /\ DOMAIN job' = DOMAIN job /\ DOMAIN update' = DOMAIN update /\ Len(update') = Len(update)
      /\ \A i \in DOMAIN job : JobWithout(i, p)
      /\ \A u \in DOMAIN update : UpdateWithout(u, p)
  BY <1>0, DeleteEffect
<1>2. ASSUME NEW u \in DOMAIN update, update'[u].status = "active"
      PROVE  /\ update[u].status = "active" /\ u \in ActiveUpdates /\ u # None
             /\ update[u].joined \in Seq(Projects)
             /\ ToSet(update'[u].joined) = Rest(u, p)
             /\ update[u].leader # p => update'[u].leader = update[u].leader
             /\ update[u].leader = p =>
                  /\ update'[u].leader = Replacement(u, p)[1]
                  /\ Replacement(u, p) # <<>> /\ Replacement(u, p)[1] \in Rest(u, p)
  <2>1. UpdateWithout(u, p)
    BY <1>1
  <2>2. update[u].status = "active"
    BY <1>2, <2>1 DEF UpdateWithout
  <2>3. u # None /\ update[u].joined \in Seq(Projects)
    BY <1>0, UpdateType DEF Tables, None
  <2> QED BY <1>2, <2>1, <2>2, <2>3 DEF UpdateWithout, ActiveUpdates
<1>3. LastActive'
  <2>1. \A u \in DOMAIN update' : update'[u].status = "active" => u = Len(update')
    BY <1>1, <1>2 DEF Shared, OfUpdates, LastActive
  <2> QED BY <2>1 DEF LastActive, ActiveUpdates
<1>4. ASSUME NEW i \in DOMAIN job, job[i].status \in InQueue, job[i].project # p
      PROVE  /\ job'[i].status = job[i].status /\ job'[i].update = job[i].update
             /\ job'[i].overlay = job[i].overlay /\ job'[i].project = job[i].project
             /\ job'[i].role = IF i \in Promoted(p) THEN "leader" ELSE job[i].role
  BY <1>1, <1>4 DEF JobWithout
<1>5. ASSUME NEW i \in DOMAIN job, job'[i].status \in InQueue
      PROVE  job[i].status \in InQueue /\ job[i].project # p
  <2>1. JobWithout(i, p)
    BY <1>1
  <2>2. CASE job[i].project = p /\ job[i].status # "asked"
    BY <1>5, <2>1, <2>2 DEF JobWithout, InQueue
  <2>3. CASE ~(job[i].project = p /\ job[i].status # "asked")
    BY <1>5, <2>1, <2>3 DEF JobWithout, InQueue
  <2> QED BY <2>2, <2>3
<1>6. JobsOfUpdates'
  <2> SUFFICES ASSUME NEW i \in DOMAIN job', job'[i].status \in InQueue, job'[i].update # None
               PROVE  /\ job'[i].update \in ActiveUpdates' /\ job'[i].overlay = None
                      /\ job'[i].role \in {"leader", "waiter", "background"}
                      /\ job'[i].project \in ToSet(update'[job'[i].update].joined)
                      /\ job'[i].role # "waiter" => job'[i].project = update'[job'[i].update].leader
                      /\ \A h \in DOMAIN job' : h > i => job'[h].project # job'[i].project
    BY DEF JobsOfUpdates, Active
  <2>1. /\ i \in DOMAIN job /\ job[i].status \in InQueue /\ job[i].project # p
        /\ job'[i].update = job[i].update /\ job'[i].overlay = job[i].overlay
        /\ job'[i].project = job[i].project
        /\ job'[i].role = IF i \in Promoted(p) THEN "leader" ELSE job[i].role
    BY <1>1, <1>4, <1>5
  <2> DEFINE q == job[i].project
  <2>2. PICK u \in ActiveUpdates : job[i].update = u
    BY <2>1 DEF Shared, OfUpdates, JobsOfUpdates, Active
  <2>3. /\ job[i].overlay = None /\ job[i].role \in {"leader", "waiter", "background"}
        /\ q \in ToSet(update[u].joined)
        /\ job[i].role # "waiter" => q = update[u].leader
        /\ \A h \in DOMAIN job : h > i => job[h].project # q
    BY <2>1, <2>2 DEF Shared, OfUpdates, JobsOfUpdates, Active
  <2>4. Exists(q) /\ u \in DOMAIN update /\ update[u].status = "active"
    BY <2>1 DEF Shared, OfProjects, JobsAlive, Active, ActiveUpdates
  <2> HIDE DEF q
  <2>5. q \in Rest(u, p)
    BY <2>1, <2>3, <2>4 DEF Rest, q
  <2>6. update'[u].status = "active"
    BY <1>1, <2>4, <2>5 DEF UpdateWithout
  <2>7. u \in ActiveUpdates' /\ q \in ToSet(update'[u].joined)
    BY <1>1, <1>2, <2>4, <2>5, <2>6 DEF ActiveUpdates
  <2>8. \A h \in DOMAIN job' : h > i => job'[h].project # q
    BY <1>1, <2>3 DEF JobWithout
  <2>9. job'[i].role # "waiter" => q = update'[u].leader
    <3>1. CASE update[u].leader # p
      <4>1. i \notin Promoted(p)
        BY <2>2, <3>1 DEF Promoted
      <4> QED BY <1>2, <2>1, <2>3, <2>4, <2>6, <3>1, <4>1
    <3>2. CASE update[u].leader = p
      <4>1. i \in Promoted(p) => q = Replacement(u, p)[1]
        BY <2>2 DEF Promoted, q
      <4>2. q # p
        BY <2>1 DEF q
      <4> QED BY <1>2, <2>1, <2>3, <2>4, <2>6, <3>2, <4>1, <4>2
    <3> QED BY <3>1, <3>2
  <2> QED BY <2>1, <2>2, <2>3, <2>7, <2>8, <2>9 DEF q
<1>7. Represented'
  <2> SUFFICES ASSUME NEW u \in DOMAIN update, update'[u].status = "active"
               PROVE  /\ \A q \in ToSet(update'[u].joined) :
                           /\ project'[q].stage # "absent"
                           /\ Exists(q)' => JobsIn(q, u)' # {}
                      /\ \E j \in DOMAIN job' : Drives(j, u)'
    BY <1>1 DEF Represented, ActiveUpdates
  <2>1. /\ u \in ActiveUpdates /\ u # None /\ update[u].joined \in Seq(Projects)
        /\ ToSet(update'[u].joined) = Rest(u, p)
    BY <1>2
  <2>2. ASSUME NEW q \in Rest(u, p)
        PROVE  /\ q # p /\ q \in Projects /\ project[q].stage # "absent"
               /\ \E h \in DOMAIN job : /\ job[h].project = q /\ job[h].update = u
                                        /\ job[h].status \in InQueue
    <3>1. q \in ToSet(update[u].joined) /\ q # p /\ Exists(q) /\ q \in Projects
      BY <2>1 DEF Rest, ToSet
    <3> QED BY <2>1, <3>1 DEF Shared, OfUpdates, Represented, JobsIn, Active
  <2>3. ASSUME NEW q \in Rest(u, p)
        PROVE  project'[q].stage # "absent" /\ JobsIn(q, u)' # {}
    <3>1. PICK h \in DOMAIN job : job[h].project = q /\ job[h].update = u /\ job[h].status \in InQueue
      BY <2>2
    <3>2. h \in JobsIn(q, u)'
      BY <1>1, <1>4, <2>2, <3>1 DEF JobsIn, Active
    <3>3. project'[q] = project[q]
      BY <1>0, <1>1, <2>2 DEF Tables
    <3> QED BY <2>2, <3>2, <3>3
  <2>4. \E j \in DOMAIN job' : Drives(j, u)'
    <3>1. CASE update[u].leader # p
      <4>1. PICK j \in DOMAIN job : Drives(j, u)
        BY <2>1 DEF Shared, OfUpdates, Represented
      <4>2. job[j].status \in InQueue /\ job[j].role # "waiter" /\ job[j].update = u /\ job[j].project # p
        BY <2>1, <3>1, <4>1 DEF Drives, Active, Shared, OfUpdates, JobsOfUpdates
      <4>3. j \notin Promoted(p)
        BY <4>2 DEF Promoted
      <4>4. Drives(j, u)'
        BY <1>1, <1>4, <4>1, <4>2, <4>3 DEF Drives, Active
      <4> QED BY <1>1, <4>4
    <3>2. CASE update[u].leader = p
      <4> DEFINE r == Replacement(u, p)[1]
      <4>1. r \in Rest(u, p) /\ Replacement(u, p) # <<>>
        BY <1>2, <3>2
      <4> HIDE DEF r
      <4>2. PICK h \in DOMAIN job : job[h].project = r /\ job[h].update = u /\ job[h].status \in InQueue
        BY <2>2, <4>1
      <4>3. r # p
        BY <4>1 DEF Rest
      <4>4. job[h].role = "waiter" /\ \A i \in DOMAIN job : i > h => job[i].project # r
        BY <2>1, <3>2, <4>2, <4>3 DEF Shared, OfUpdates, JobsOfUpdates, Active
      <4>5. \A i \in JobsIn(r, u) : h <= i
        <5>1. DOMAIN job \subseteq Int
          BY <1>0 DEF Tables
        <5>2. ASSUME NEW i \in JobsIn(r, u), i < h PROVE FALSE
          BY <2>1, <4>2, <5>1, <5>2 DEF JobsIn, Shared, OfUpdates, JobsOfUpdates, Active
        <5> QED BY <5>1, <5>2 DEF JobsIn
      <4>6. h \in Promoted(p)
        BY <2>1, <3>2, <4>1, <4>2, <4>4, <4>5 DEF Promoted, Active, r
      <4>7. Drives(h, u)'
        BY <1>1, <1>4, <4>2, <4>3, <4>6 DEF Drives, Active
      <4> QED BY <1>1, <4>7
    <3> QED BY <3>1, <3>2
  <2> QED BY <2>1, <2>3, <2>4
<1> QED BY <1>3, <1>6, <1>7 DEF OfUpdates

-----------------------------------------------------------------------------
(* Projects and who works for them, when requests are not interrupted.     *)

LEMMA NoneMidway ==
  ASSUME \A i \in DOMAIN job' : job'[i].status # "asked" /\ job'[i].follow = "no"
  PROVE  OneMidway'
<1>1. Midway' = {}
  BY DEF Midway
<1> QED BY <1>1 DEF OneMidway

LEMMA AtRest ==
  ASSUME Midway = {}
  PROVE  \A i \in DOMAIN job : job[i].status # "asked" /\ job[i].follow = "no"
BY DEF Midway

\* The request that was between two calls ends.
LEMMA LastAtRest ==
  ASSUME NEW j, OnlyRow(j), \A i \in Midway : i = j, job'[j].status # "asked", job'[j].follow = "no"
  PROVE  OneMidway'
<1>1. ASSUME NEW i \in DOMAIN job' PROVE job'[i].status # "asked" /\ job'[i].follow = "no"
  <2>1. CASE i = j
    BY <2>1
  <2>2. CASE i # j
    <3>1. i \in DOMAIN job /\ job'[i] = job[i] /\ i \notin Midway
      BY <2>2 DEF OnlyRow
    <3> QED BY <3>1 DEF Midway
  <2> QED BY <2>1, <2>2
<1> QED BY <1>1, NoneMidway

\* A step that deletes nothing and publishes nothing.
LEMMA ProjectsKept ==
  ASSUME Tables, OfProjects, head' = head, Tables',
         head # None => head \in DOMAIN update' /\ update'[head].status # "active",
         \A q \in Projects :
           /\ project[q].stage \notin {"absent", "deleted"} => project'[q].stage \notin {"absent", "deleted"}
           /\ \/ project'[q].key = project[q].key
              \/ /\ project'[q].stage \notin {"absent", "deleted"} /\ project'[q].key \in {None, head}
                 /\ project[q].key # None => project'[q].key # None,
         \A i \in DOMAIN job' : job'[i].status \in InQueue =>
           \/ /\ i \in DOMAIN job /\ job[i].status \in InQueue /\ job'[i].project = job[i].project
              /\ job'[i].update = job[i].update /\ job'[i].overlay = job[i].overlay
              /\ job'[i].role = job[i].role
              /\ job'[i].status = "running" =>
                   \/ job[i].status = "running" /\ job'[i].seen = job[i].seen
                   \/ job'[i].seen.key = project[job[i].project].key
           \/ /\ project'[job'[i].project].stage \notin {"absent", "deleted"}
              /\ job'[i].update = None =>
                   /\ job'[i].role \in {"overlay", "waiter"} /\ job'[i].overlay # None
                   /\ project'[job'[i].project].key # None /\ job'[i].status # "running",
         \A q \in Projects : project'[q].stage = "working" =>
           \E i \in DOMAIN job' : job'[i].status \in InQueue /\ job'[i].project = q
  PROVE  OfProjects'
<1>1. \A i \in DOMAIN job' : job'[i].project \in Projects
  BY RowType DEF Tables
<1>2. Bindings'
  <2>1. \A q \in Projects : project'[q].key \in {None, head'}
    BY DEF OfProjects, Bindings, AllFollow
  <2>2. \A q \in Projects : project'[q].stage \in {"absent", "deleted"} => project'[q].key = None
    BY DEF OfProjects, Bindings, Exists
  <2> QED BY <2>1, <2>2 DEF Bindings, AllFollow, Exists
<1>3. JobsAlive'
  <2>1. ASSUME NEW i \in DOMAIN job', job'[i].status \in InQueue
        PROVE  project'[job'[i].project].stage \notin {"absent", "deleted"}
    <3>1. CASE i \in DOMAIN job /\ job[i].status \in InQueue /\ job'[i].project = job[i].project
      BY <1>1, <3>1 DEF OfProjects, JobsAlive, Active, Exists
    <3> QED BY <2>1, <3>1
  <2> QED BY <2>1 DEF JobsAlive, Active, Exists
<1>4. JobsOfOverlays'
  <2>1. ASSUME NEW i \in DOMAIN job', job'[i].status \in InQueue, job'[i].update = None
        PROVE  /\ job'[i].role \in {"overlay", "waiter"} /\ job'[i].overlay # None
               /\ project'[job'[i].project].key # None
               /\ job'[i].role = "overlay" /\ job'[i].status = "running" => job'[i].seen.key # None
    <3>1. CASE /\ i \in DOMAIN job /\ job[i].status \in InQueue /\ job'[i].project = job[i].project
               /\ job'[i].update = job[i].update /\ job'[i].overlay = job[i].overlay
               /\ job'[i].role = job[i].role
               /\ job'[i].status = "running" =>
                    \/ job[i].status = "running" /\ job'[i].seen = job[i].seen
                    \/ job'[i].seen.key = project[job[i].project].key
      <4>1. /\ job[i].role \in {"overlay", "waiter"} /\ job[i].overlay # None
            /\ project[job[i].project].key # None
            /\ job[i].role = "overlay" /\ job[i].status = "running" => job[i].seen.key # None
        BY <2>1, <3>1 DEF OfProjects, JobsOfOverlays, Active
      <4>2. project'[job'[i].project].key # None
        BY <1>1, <3>1, <4>1
      <4> QED BY <3>1, <4>1, <4>2
    <3> QED BY <2>1, <3>1
  <2> QED BY <2>1 DEF JobsOfOverlays, Active
<1>5. AllWork'
  BY DEF AllWork, Active
<1> QED BY <1>2, <1>3, <1>4, <1>5 DEF OfProjects

\* Its use for a step that changes one row of job.
LEMMA ProjectsKeptByRow ==
  ASSUME Tables, OfProjects, head' = head, Tables', NEW j, OnlyRow(j),
         head # None => head \in DOMAIN update' /\ update'[head].status # "active",
         \A q \in Projects :
           /\ project[q].stage \notin {"absent", "deleted"} => project'[q].stage \notin {"absent", "deleted"}
           /\ \/ project'[q].key = project[q].key
              \/ /\ project'[q].stage \notin {"absent", "deleted"} /\ project'[q].key \in {None, head}
                 /\ project[q].key # None => project'[q].key # None,
         job'[j].status \in InQueue =>
           \/ /\ job[j].status \in InQueue
              /\ job'[j].update = job[j].update /\ job'[j].overlay = job[j].overlay
              /\ job'[j].role = job[j].role
              /\ job'[j].status = "running" =>
                   \/ job[j].status = "running" /\ job'[j].seen = job[j].seen
                   \/ job'[j].seen.key = project[job[j].project].key
           \/ /\ project'[job[j].project].stage \notin {"absent", "deleted"}
              /\ job'[j].update = None =>
                   /\ job'[j].role \in {"overlay", "waiter"} /\ job'[j].overlay # None
                   /\ project'[job[j].project].key # None /\ job'[j].status # "running",
         job[j].status \in InQueue => job'[j].status \in InQueue,
         \A q \in Projects : project'[q].stage = "working" =>
           \/ project[q].stage = "working"
           \/ \E i \in DOMAIN job' : job'[i].status \in InQueue /\ job'[i].project = q
  PROVE  OfProjects'
<1>1. /\ DOMAIN job' = DOMAIN job /\ j \in DOMAIN job /\ job'[j].project = job[j].project
      /\ \A i \in DOMAIN job : i = j \/ job'[i] = job[i]
  BY DEF OnlyRow
<1>2. \A q \in Projects : project'[q].stage = "working" =>
        \E i \in DOMAIN job' : job'[i].status \in InQueue /\ job'[i].project = q
  <2>1. ASSUME NEW q \in Projects, project[q].stage = "working"
        PROVE  \E i \in DOMAIN job' : job'[i].status \in InQueue /\ job'[i].project = q
    <3>1. PICK i \in DOMAIN job : job[i].status \in InQueue /\ job[i].project = q
      BY <2>1 DEF OfProjects, AllWork, Active
    <3>2. job'[i].status \in InQueue /\ job'[i].project = q
      BY <1>1, <3>1
    <3> QED BY <1>1, <3>2
  <2> QED BY <2>1
<1>3. \A i \in DOMAIN job' : job'[i].status \in InQueue =>
           \/ /\ i \in DOMAIN job /\ job[i].status \in InQueue /\ job'[i].project = job[i].project
              /\ job'[i].update = job[i].update /\ job'[i].overlay = job[i].overlay
              /\ job'[i].role = job[i].role
              /\ job'[i].status = "running" =>
                   \/ job[i].status = "running" /\ job'[i].seen = job[i].seen
                   \/ job'[i].seen.key = project[job[i].project].key
           \/ /\ project'[job'[i].project].stage \notin {"absent", "deleted"}
              /\ job'[i].update = None =>
                   /\ job'[i].role \in {"overlay", "waiter"} /\ job'[i].overlay # None
                   /\ project'[job'[i].project].key # None /\ job'[i].status # "running"
  <2> SUFFICES ASSUME NEW i \in DOMAIN job', job'[i].status \in InQueue
      PROVE \/ /\ i \in DOMAIN job /\ job[i].status \in InQueue /\ job'[i].project = job[i].project
               /\ job'[i].update = job[i].update /\ job'[i].overlay = job[i].overlay
               /\ job'[i].role = job[i].role
               /\ job'[i].status = "running" =>
                    \/ job[i].status = "running" /\ job'[i].seen = job[i].seen
                    \/ job'[i].seen.key = project[job[i].project].key
            \/ /\ project'[job'[i].project].stage \notin {"absent", "deleted"}
               /\ job'[i].update = None =>
                    /\ job'[i].role \in {"overlay", "waiter"} /\ job'[i].overlay # None
                    /\ project'[job'[i].project].key # None /\ job'[i].status # "running"
    OBVIOUS
  <2>1. CASE i = j
    BY <1>1, <2>1
  <2>2. CASE i # j
    BY <1>1, <2>2
  <2> QED BY <2>1, <2>2
<1> QED BY <1>2, <1>3, ProjectsKept

LEMMA AskKeepsProjects ==
  ASSUME Shared, Slow = {}, NEW c \in Clients, NEW reuse \in BOOLEAN, Ask(c, reuse)
  PROVE  OfProjects' /\ OneMidway'
<1> DEFINE p == ProjectOf[c]
<1> PICK n : n = Len(job) + 1
  OBVIOUS
<1>0. Tables /\ Tables' /\ OfProjects /\ AllWork /\ Bindings
  BY MoreKeepsLedgers DEF Shared, Ledgers, OfProjects
<1>1. /\ UNCHANGED <<project, update, head>> /\ job' = Append(job, job'[n]) /\ job'[n] \in Job
      /\ job'[n].project = p /\ job'[n].status = "asked" /\ job'[n].update = None /\ job'[n].follow = "no"
      /\ job'[n].role = (IF reuse THEN "reuse" ELSE "waiter") /\ job'[n].seen = Copied(p)
      /\ job'[n].overlay = (IF reuse THEN head ELSE None) /\ (reuse => head # None) /\ p \in Projects
  BY <1>0, AskEffect
<1>2. /\ \A i \in DOMAIN job : i \in DOMAIN job' /\ job'[i] = job[i]
      /\ \A i \in DOMAIN job' : i \in DOMAIN job \/ i = n
      /\ n = Len(job')
  <2>1. job \in Seq(Job)
    BY <1>0 DEF Tables
  <2> QED BY <1>1, <2>1, AppendedRow
<1>3. Midway = {}
  BY AskGuards
<1>4. Midway' \subseteq {n}
  BY <1>2, <1>3 DEF Midway
<1>5. AskedWell(n)'
  <2>1. /\ Copied(p).key = project[p].key /\ Copied(p).stage \in {"working", "done"}
    BY DEF Copied, Readable
  <2>2. job'[n].seen.key = project'[job'[n].project].key
    BY <1>1, <2>1
  <2>4. /\ job'[n].role \in {"reuse", "waiter"} /\ job'[n].seen.stage \in {"working", "done"}
        /\ job'[n].role = "reuse" => job'[n].overlay = head' /\ head' # None
        /\ job'[n].role = "waiter" => job'[n].overlay = None
    BY <1>1, <2>1
  <2> QED BY <1>1, <2>2, <2>4 DEF AskedWell
<1>6. OneMidway'
  BY <1>1, <1>2, <1>4, <1>5 DEF OneMidway
<1>7. job'[n].status \notin InQueue
  BY <1>1 DEF InQueue
<1>8. head # None => head \in DOMAIN update' /\ update'[head].status # "active"
  BY <1>0, <1>1 DEF Bindings
<1>9. \A q \in Projects : project'[q].stage = "working" =>
        \E i \in DOMAIN job' : job'[i].status \in InQueue /\ job'[i].project = q
  BY <1>0, <1>1, <1>2 DEF AllWork, Active
<1>10. \A i \in DOMAIN job' : job'[i].status \in InQueue => i \in DOMAIN job /\ job'[i] = job[i]
  BY <1>2, <1>7
<1>11. OfProjects'
  BY <1>0, <1>1, <1>8, <1>9, <1>10, ProjectsKept
<1> QED BY <1>6, <1>11

LEMMA RefuseKeepsProjects ==
  ASSUME Shared, NEW j, Refuse(j)
  PROVE  OfProjects' /\ OneMidway'
<1>0. Tables /\ Tables' /\ OfProjects /\ Bindings
  BY RequestsKeepLedgers DEF Shared, Ledgers, OfProjects
<1>1. /\ UNCHANGED <<project, update, head>> /\ OnlyRow(j) /\ job[j].status = "asked"
      /\ job'[j] = [job[j] EXCEPT !.status = "dropped"]
  BY <1>0, RefuseEffect
<1>2. j \in DOMAIN job /\ Midway = {j} /\ AskedWell(j) /\ ~Active(j)
  BY <1>1, AskedIsLast DEF OnlyRow
<1>3. job'[j].status = "dropped" /\ job'[j].follow = "no"
  <2>1. job[j] \in Job
    BY <1>0, <1>2 DEF Tables
  <2> QED BY <1>1, <1>2, <2>1 DEF Job, AskedWell
<1>4. OneMidway'
  BY <1>1, <1>2, <1>3, LastAtRest
<1>5. job'[j].status \notin InQueue /\ job[j].status \notin InQueue
  BY <1>2, <1>3 DEF InQueue, Active
<1>6. head # None => head \in DOMAIN update' /\ update'[head].status # "active"
  BY <1>0, <1>1 DEF Bindings
<1>7. OfProjects'
  BY <1>0, <1>1, <1>5, <1>6, ProjectsKeptByRow
<1> QED BY <1>4, <1>7

LEMMA JoinKeepsProjects ==
  ASSUME Shared, NEW j, Join(j)
  PROVE  OfProjects' /\ OneMidway'
<1>0. Tables /\ Tables' /\ OfUpdates /\ OfProjects /\ Bindings
  BY RequestsKeepLedgers DEF Shared, Ledgers, OfProjects
<1> PICK p : p = job[j].project
  OBVIOUS
<1>1. /\ head' = head /\ OnlyRow(j) /\ job[j].status = "asked" /\ job[j].role = "waiter" /\ p \in Projects
      /\ Admissible(p, job[j].seen) /\ project' = [project EXCEPT ![p] = job[j].seen]
      /\ job'[j].status = "queued" /\ job'[j].seen = job[j].seen
      /\ \/ OneUpdateMore(p, "none") /\ job'[j].update = Len(update) + 1 /\ job'[j].follow = "no"
         \/ /\ \E v \in ActiveUpdates : OneJoins(v, p)
            /\ job'[j].update \in ActiveUpdates
            /\ \/ job'[j].follow = "no"
               \/ job'[j].follow = project'[update'[job'[j].update].leader].stage
  BY <1>0, JoinEffect
<1>2. /\ j \in DOMAIN job /\ j = Len(job) /\ Midway = {j} /\ AskedWell(j) /\ ~Active(j)
      /\ job[j].seen \in ProjectRow
  BY <1>1, AskedIsLast DEF OnlyRow
<1>3. job[j].seen.key = project[p].key /\ job[j].seen.stage \in {"working", "done"}
  BY <1>2 DEF AskedWell
<1>4. /\ project'[p].key = project[p].key /\ project'[p].stage \in {"working", "done"}
      /\ \A q \in Projects \ {p} : project'[q] = project[q]
  BY <1>0, <1>1, <1>3 DEF Tables
<1>5. job'[j].update # None /\ job'[j].status \in InQueue /\ job[j].status \notin InQueue
  <2>1. DOMAIN update \subseteq Nat \ {0} /\ Len(update) + 1 # 0
    BY <1>0 DEF Tables
  <2> QED BY <1>1, <1>2, <2>1 DEF ActiveUpdates, None, InQueue, Active
<1>6. head # None => head \in DOMAIN update' /\ update'[head].status # "active"
  <2> SUFFICES ASSUME head # None PROVE head \in DOMAIN update' /\ update'[head].status # "active"
    OBVIOUS
  <2>1. head \in DOMAIN update /\ update[head].status # "active"
    BY <1>0 DEF Bindings
  <2>2. CASE OneUpdateMore(p, "none")
    BY <2>1, <2>2 DEF OneUpdateMore
  <2>3. CASE \E v \in ActiveUpdates : OneJoins(v, p)
    BY <2>1, <2>3 DEF OneJoins, ActiveUpdates
  <2> QED BY <1>1, <2>2, <2>3
<1>7. \A q \in Projects :
           /\ project[q].stage \notin {"absent", "deleted"} => project'[q].stage \notin {"absent", "deleted"}
           /\ project'[q].key = project[q].key
  BY <1>4
<1>8. \A q \in Projects : project'[q].stage = "working" =>
        \/ project[q].stage = "working"
        \/ \E i \in DOMAIN job' : job'[i].status \in InQueue /\ job'[i].project = q
  BY <1>1, <1>2, <1>4, <1>5 DEF OnlyRow
<1>9. OfProjects'
  <2>1. project'[job[j].project].stage \notin {"absent", "deleted"}
    BY <1>4
  <2> QED BY <1>0, <1>1, <1>5, <1>6, <1>7, <1>8, <2>1, ProjectsKeptByRow
<1>10. ASSUME job'[j].follow # "no" PROVE FollowsWell(j)'
  <2>1. PICK v \in ActiveUpdates : /\ OneJoins(v, p) /\ job'[j].update \in ActiveUpdates
                                   /\ job'[j].follow = project'[update'[job'[j].update].leader].stage
    BY <1>1, <1>10
  <2>2. job'[j].update = v /\ update'[v].leader = update[v].leader
    BY <1>0, <2>1 DEF OfUpdates, LastActive, OneJoins
  <2>3. PICK h \in DOMAIN job : Drives(h, v)
    BY <1>0 DEF OfUpdates, Represented
  <2>4. job[h].project = update[v].leader /\ Exists(job[h].project) /\ job[h].project \in Projects
    <3>1. Active(h) /\ job[h].update # None /\ job[h].update = v /\ job[h].role # "waiter"
      BY <1>0, <2>3 DEF Drives, ActiveUpdates, None, Tables
    <3>2. job[h] \in Job
      BY <1>0 DEF Tables
    <3> QED BY <1>0, <3>1, <3>2, RowType DEF OfUpdates, JobsOfUpdates, OfProjects, JobsAlive
  <2>5. project'[update[v].leader].stage \in {"working", "done", "failed"}
    <3>1. project[update[v].leader].stage \in {"working", "done", "failed"}
      BY <1>0, <2>4 DEF Exists, Tables, ProjectRow, Stages
    <3> QED BY <1>4, <2>4, <3>1
  <2>6. job'[j].project = p /\ Exists(p)'
    BY <1>1, <1>4 DEF OnlyRow, Exists
  <2>7. job'[j].seen.key \in {None, head'} /\ (project'[p].key # None => job'[j].seen.key # None)
    BY <1>0, <1>1, <1>3, <1>4 DEF Bindings, AllFollow
  <2> QED BY <1>4, <1>5, <2>1, <2>2, <2>5, <2>6, <2>7 DEF FollowsWell, Active, Exists
<1>11. OneMidway'
  <2>1. Midway' \subseteq {j} /\ j = Len(job')
    BY <1>1, <1>2 DEF Midway, OnlyRow
  <2>2. job'[j].status # "asked"
    BY <1>1
  <2> QED BY <1>10, <2>1, <2>2 DEF OneMidway
<1> QED BY <1>9, <1>11

LEMMA ReuseKeepsProjects ==
  ASSUME Shared, NEW j, Reuse(j)
  PROVE  OfProjects' /\ OneMidway'
<1>0. Tables /\ Tables' /\ References /\ OfProjects /\ Bindings
  BY RequestsKeepLedgers DEF Shared, Ledgers, OfProjects
<1> PICK p, k : p = job[j].project /\ k = job[j].overlay
  OBVIOUS
<1>1. /\ UNCHANGED <<update, head>> /\ OnlyRow(j) /\ job[j].status = "asked" /\ job[j].role = "reuse"
      /\ p \in Projects /\ Admissible(p, job[j].seen)
      /\ \/ /\ job'[j].status = "succeeded" /\ job'[j].seen.key = k
            /\ \/ project' = project /\ job'[j].follow = "done" /\ project[p].stage # "absent"
               \/ project' = [project EXCEPT ![p] = [stage |-> "done", key |-> k]] /\ job'[j].follow = "no"
         \/ /\ job'[j].status = "queued" /\ job'[j].overlay = k /\ job'[j].follow = job[j].follow
            /\ job'[j].role \in {"overlay", "waiter"}
            /\ project' = [project EXCEPT ![p] = [stage |-> "working", key |-> k]]
  BY <1>0, ReuseEffect
<1>2. /\ j \in DOMAIN job /\ j = Len(job) /\ Midway = {j} /\ AskedWell(j) /\ ~Active(j)
  BY <1>1, AskedIsLast DEF OnlyRow
<1>3. k = head /\ k # None /\ job[j].follow = "no"
  BY <1>1, <1>2 DEF AskedWell
<1>4. head # None => head \in DOMAIN update' /\ update'[head].status # "active"
  BY <1>0, <1>1 DEF Bindings
<1>5. job[j].status \notin InQueue /\ "succeeded" \notin InQueue /\ "queued" \in InQueue
  BY <1>2 DEF Active, InQueue
<1>6. project \in [Projects -> ProjectRow]
  BY <1>0 DEF Tables
<1>7. CASE /\ job'[j].status = "succeeded" /\ job'[j].seen.key = k
           /\ project' = project /\ job'[j].follow = "done" /\ project[p].stage # "absent"
  <2>1. OfProjects'
    BY <1>0, <1>1, <1>4, <1>5, <1>7, ProjectsKeptByRow
  <2>2. FollowsWell(j)'
    <3>1. job'[j].project = p /\ Exists(p)
      BY <1>1, <1>7 DEF OnlyRow, Admissible
    <3>2. Exists(p)'
      BY <1>7, <3>1 DEF Exists
    <3> QED BY <1>1, <1>3, <1>7, <3>1, <3>2 DEF FollowsWell, Exists
  <2>3. Midway' \subseteq {j} /\ j = Len(job')
    BY <1>1, <1>2 DEF Midway, OnlyRow
  <2>4. OneMidway'
    BY <1>7, <2>2, <2>3 DEF OneMidway
  <2> QED BY <2>1, <2>4
<1>8. CASE /\ job'[j].status = "succeeded" /\ job'[j].follow = "no"
           /\ project' = [project EXCEPT ![p] = [stage |-> "done", key |-> k]]
  <2>1. project'[p] = [stage |-> "done", key |-> k] /\ \A q \in Projects \ {p} : project'[q] = project[q]
    BY <1>1, <1>6, <1>8
  <2>2. OfProjects'
    BY <1>0, <1>1, <1>3, <1>4, <1>5, <1>8, <2>1, ProjectsKeptByRow
  <2>3. OneMidway'
    BY <1>1, <1>2, <1>8, LastAtRest
  <2> QED BY <2>2, <2>3
<1>9. CASE /\ job'[j].status = "queued" /\ job'[j].overlay = k /\ job'[j].follow = job[j].follow
           /\ job'[j].role \in {"overlay", "waiter"}
           /\ project' = [project EXCEPT ![p] = [stage |-> "working", key |-> k]]
  <2>1. project'[p] = [stage |-> "working", key |-> k] /\ \A q \in Projects \ {p} : project'[q] = project[q]
    BY <1>1, <1>6, <1>9
  <2>2. \A q \in Projects : project'[q].stage = "working" =>
           \/ project[q].stage = "working"
           \/ \E i \in DOMAIN job' : job'[i].status \in InQueue /\ job'[i].project = q
    BY <1>1, <1>5, <1>9, <2>1 DEF OnlyRow
  <2>3. OfProjects'
    BY <1>0, <1>1, <1>3, <1>4, <1>5, <1>9, <2>1, <2>2, ProjectsKeptByRow
  <2>4. OneMidway'
    BY <1>1, <1>2, <1>3, <1>9, LastAtRest
  <2> QED BY <2>3, <2>4
<1> QED BY <1>1, <1>7, <1>8, <1>9

LEMMA FollowKeepsProjects ==
  ASSUME Shared, NEW j, Follow(j)
  PROVE  OfProjects' /\ OneMidway'
<1>0. Tables /\ Tables' /\ OfProjects /\ Bindings
  BY RequestsKeepLedgers DEF Shared, Ledgers, OfProjects
<1> PICK p : p = job[j].project
  OBVIOUS
<1>1. /\ UNCHANGED <<update, head>> /\ OnlyRow(j) /\ job[j].follow # "no"
      /\ job'[j] = [job[j] EXCEPT !.follow = "no"]
      /\ project' = [project EXCEPT ![p] = [stage |-> job[j].follow, key |-> job[j].seen.key]]
  BY <1>0, FollowEffect
<1>2. j \in DOMAIN job /\ j \in Midway /\ job[j] \in Job
  BY <1>0, <1>1 DEF Midway, OnlyRow, Tables
<1>3. /\ FollowsWell(j) /\ j = Len(job) /\ p \in Projects
      /\ \A i \in Midway : i = j
      /\ job[j].status # "asked"
  BY <1>1, <1>2, RowType DEF Shared, OneMidway, AskedWell
<1>4. /\ job'[j].status = job[j].status /\ job'[j].update = job[j].update
      /\ job'[j].role = job[j].role /\ job'[j].overlay = job[j].overlay
      /\ job'[j].seen = job[j].seen /\ job'[j].follow = "no"
  BY <1>1, <1>2 DEF Job
<1>5. /\ project'[p].stage = job[j].follow /\ project'[p].key = job[j].seen.key
      /\ \A q \in Projects \ {p} : project'[q] = project[q]
  BY <1>0, <1>1, <1>3 DEF Tables
<1>6. OneMidway'
  BY <1>1, <1>3, <1>4, LastAtRest
<1>7. head # None => head \in DOMAIN update' /\ update'[head].status # "active"
  BY <1>0, <1>1 DEF Bindings
<1>8. \A q \in Projects :
           /\ project[q].stage \notin {"absent", "deleted"} => project'[q].stage \notin {"absent", "deleted"}
           /\ \/ project'[q].key = project[q].key
              \/ /\ project'[q].stage \notin {"absent", "deleted"} /\ project'[q].key \in {None, head}
                 /\ project[q].key # None => project'[q].key # None
  BY <1>3, <1>5 DEF FollowsWell
<1>9. \A q \in Projects : project'[q].stage = "working" =>
           \/ project[q].stage = "working"
           \/ \E i \in DOMAIN job' : job'[i].status \in InQueue /\ job'[i].project = q
  <2>1. ASSUME project'[p].stage = "working"
        PROVE  j \in DOMAIN job' /\ job'[j].status \in InQueue /\ job'[j].project = p
    BY <1>1, <1>2, <1>3, <1>4, <1>5, <2>1 DEF FollowsWell, OnlyRow, Active
  <2> QED BY <1>5, <2>1
<1>10. OfProjects'
  BY <1>0, <1>1, <1>4, <1>7, <1>8, <1>9, ProjectsKeptByRow
<1> QED BY <1>6, <1>10

\* A step between requests leaves them at rest.
LEMMA StaysAtRest ==
  ASSUME Midway = {},
         \A i \in DOMAIN job' :
           /\ i \in DOMAIN job /\ job'[i].status = "asked" => job[i].status = "asked"
           /\ i \in DOMAIN job => job'[i].follow = job[i].follow
           /\ i \notin DOMAIN job => job'[i].status # "asked" /\ job'[i].follow = "no"
  PROVE  OneMidway'
<1>1. \A i \in DOMAIN job' : job'[i].status # "asked" /\ job'[i].follow = "no"
  BY AtRest
<1> QED BY <1>1, NoneMidway

LEMMA BackgroundKeepsProjects ==
  ASSUME Shared, Slow = {}, NEW p \in Projects, StartBackground(p)
  PROVE  OfProjects' /\ OneMidway'
<1>0. Tables /\ Tables' /\ OfProjects /\ AllWork /\ Bindings
  BY MoreKeepsLedgers DEF Shared, Ledgers, OfProjects
<1> PICK n : n = Len(job) + 1
  OBVIOUS
<1>1. /\ UNCHANGED <<project, head>> /\ job' = Append(job, job'[n]) /\ job'[n] \in Job
      /\ job'[n].project = p /\ job'[n].status = "queued" /\ job'[n].update = Len(update) + 1
      /\ job'[n].follow = "no" /\ Exists(p) /\ Midway = {} /\ OneUpdateMore(p, "reserved")
  BY <1>0, BackgroundEffect
<1>2. /\ \A i \in DOMAIN job : i \in DOMAIN job' /\ job'[i] = job[i]
      /\ \A i \in DOMAIN job' : i \in DOMAIN job \/ i = n
      /\ n \notin DOMAIN job
  <2>1. job \in Seq(Job)
    BY <1>0 DEF Tables
  <2>2. /\ \A i \in DOMAIN job : i \in DOMAIN job' /\ job'[i] = job[i] /\ i < Len(job) + 1
        /\ \A i \in DOMAIN job' : i \in DOMAIN job \/ i = Len(job) + 1
        /\ DOMAIN job = 1..Len(job) /\ Len(job) \in Nat
    BY <1>1, <2>1, AppendedRow
  <2>3. n \notin DOMAIN job
    BY <2>2
  <2> QED BY <2>2, <2>3
<1>3. OneMidway'
  <2>1. \A i \in DOMAIN job' :
           /\ i \in DOMAIN job /\ job'[i].status = "asked" => job[i].status = "asked"
           /\ i \in DOMAIN job => job'[i].follow = job[i].follow
           /\ i \notin DOMAIN job => job'[i].status # "asked" /\ job'[i].follow = "no"
    BY <1>1, <1>2
  <2> QED BY <1>1, <2>1, StaysAtRest
<1>4. job'[n].update # None /\ project'[p].stage \notin {"absent", "deleted"}
  BY <1>0, <1>1 DEF Tables, None, Exists
<1>5. head # None => head \in DOMAIN update' /\ update'[head].status # "active"
  BY <1>0, <1>1 DEF Bindings, OneUpdateMore
<1>6. \A q \in Projects : project'[q].stage = "working" =>
        \E i \in DOMAIN job' : job'[i].status \in InQueue /\ job'[i].project = q
  BY <1>0, <1>1, <1>2 DEF AllWork, Active
<1>7. \A i \in DOMAIN job' : job'[i].status \in InQueue =>
           \/ i \in DOMAIN job /\ job'[i] = job[i]
           \/ /\ project'[job'[i].project].stage \notin {"absent", "deleted"}
              /\ job'[i].update # None
  BY <1>1, <1>2, <1>4
<1>8. OfProjects'
  BY <1>0, <1>1, <1>5, <1>6, <1>7, ProjectsKept
<1> QED BY <1>3, <1>8

LEMMA ClaimKeepsProjects ==
  ASSUME Shared, Slow = {}, NEW j, Claim(j)
  PROVE  OfProjects' /\ OneMidway'
<1>0. Tables /\ Tables' /\ OfUpdates /\ OfProjects /\ AllWork /\ Bindings
  BY ExecutionsKeepLedgers DEF Shared, Ledgers, OfProjects
<1>1. /\ UNCHANGED <<update, head>> /\ OnlyRow(j) /\ Midway = {} /\ job[j].status \in {"queued", "lapsed"}
      /\ job'[j].status = "running" /\ job'[j].seen = project[job[j].project]
      /\ job'[j].role = job[j].role /\ job'[j].update = job[j].update /\ job'[j].overlay = job[j].overlay
      /\ job'[j].follow = job[j].follow
  BY <1>0, ClaimEffect
<1>2. PICK marked \in SUBSET Projects :
          /\ project' = [q \in Projects |-> IF q \in marked THEN [project[q] EXCEPT !.stage = "working"]
                                            ELSE project[q]]
          /\ \/ job[j].update # None /\ marked \subseteq Joined(job[j].update)
             \/ job[j].update = None /\ marked \subseteq {job[j].project}
  BY <1>0, ClaimEffect
<1>3. j \in DOMAIN job /\ Active(j) /\ job'[j].status \in InQueue
  BY <1>1 DEF OnlyRow, Active, InQueue
<1>4. OneMidway'
  <2>1. \A i \in DOMAIN job' :
           /\ i \in DOMAIN job /\ (job'[i].status = "asked" => job[i].status = "asked")
           /\ job'[i].follow = job[i].follow
    BY <1>1 DEF OnlyRow
  <2> QED BY <1>1, <2>1, StaysAtRest
<1>5. head # None => head \in DOMAIN update' /\ update'[head].status # "active"
  BY <1>0, <1>1 DEF Bindings
<1>6. \A q \in Projects :
           /\ project[q].stage \notin {"absent", "deleted"} => project'[q].stage \notin {"absent", "deleted"}
           /\ project'[q].key = project[q].key
           /\ q \notin marked => project'[q] = project[q]
  BY <1>0, <1>2 DEF Tables, ProjectRow
<1>7. ASSUME NEW q \in marked PROVE \E i \in DOMAIN job : Active(i) /\ job[i].project = q
  <2>1. CASE job[j].update = None
    BY <1>2, <1>3, <2>1
  <2>2. CASE job[j].update # None
    <3>1. job[j].update \in ActiveUpdates
      BY <1>0, <1>3, <2>2 DEF OfUpdates, JobsOfUpdates
    <3>2. JobsIn(q, job[j].update) # {}
      BY <1>0, <1>2, <2>2, <3>1 DEF Joined, OfUpdates, Represented
    <3> QED BY <3>2 DEF JobsIn
  <2> QED BY <2>1, <2>2
<1>8. \A i \in DOMAIN job : Active(i) =>
        i \in DOMAIN job' /\ job'[i].status \in InQueue /\ job'[i].project = job[i].project
  BY <1>1, <1>3 DEF OnlyRow, Active
<1>9. \A q \in Projects : project'[q].stage = "working" =>
           \/ project[q].stage = "working"
           \/ \E i \in DOMAIN job' : job'[i].status \in InQueue /\ job'[i].project = q
  BY <1>6, <1>7, <1>8
<1>10. job[j].status \in InQueue
  BY <1>3 DEF Active
<1>11. OfProjects'
  BY <1>0, <1>1, <1>3, <1>5, <1>6, <1>9, <1>10, ProjectsKeptByRow
<1> QED BY <1>4, <1>11

LEMMA RestKeepsProjects ==
  ASSUME Shared, Slow = {}, NEW j, Lapse(j) \/ Retry(j)
  PROVE  OfProjects' /\ OneMidway'
<1>0. Tables /\ Tables' /\ OfProjects /\ Bindings
  BY ExecutionsKeepLedgers DEF Shared, Ledgers, OfProjects
<1>1. /\ UNCHANGED <<project, update, head>> /\ OnlyRow(j) /\ job[j].status = "running"
      /\ \E status \in {"lapsed", "queued"} : job'[j] = [job[j] EXCEPT !.status = status]
  BY <1>0, RestEffect
<1>2. Midway = {}
  BY DEF Lapse, Retry, Executing, Undisturbed
<1>3. job[j] \in Job
  BY <1>0, <1>1 DEF Tables, OnlyRow
<1>4. /\ job'[j].status \in {"lapsed", "queued"} /\ job'[j].follow = job[j].follow
      /\ job'[j].role = job[j].role /\ job'[j].update = job[j].update /\ job'[j].overlay = job[j].overlay
  BY <1>1, <1>3 DEF Job
<1>5. OneMidway'
  <2>1. \A i \in DOMAIN job' :
           /\ i \in DOMAIN job /\ (job'[i].status = "asked" => job[i].status = "asked")
           /\ job'[i].follow = job[i].follow
    BY <1>1, <1>4 DEF OnlyRow
  <2> QED BY <1>2, <2>1, StaysAtRest
<1>6. head # None => head \in DOMAIN update' /\ update'[head].status # "active"
  BY <1>0, <1>1 DEF Bindings
<1>7. job[j].status \in InQueue /\ job'[j].status \in InQueue
  BY <1>1, <1>4 DEF InQueue
<1>8. OfProjects'
  BY <1>0, <1>1, <1>4, <1>6, <1>7, ProjectsKeptByRow
<1> QED BY <1>5, <1>8

LEMMA FailUpdateKeepsProjects ==
  ASSUME Shared, Slow = {}, NEW j, FailUpdate(j)
  PROVE  OfProjects' /\ OneMidway'
<1>0. Tables /\ Tables' /\ References /\ OfProjects /\ AllWork /\ Bindings
  BY ExecutionsKeepLedgers DEF Shared, Ledgers, OfProjects
<1> PICK u : u = job[j].update
  OBVIOUS
<1> PICK S : S = {i \in DOMAIN job : Active(i) /\ job[i].update = u}
  OBVIOUS
<1>1. /\ head' = head /\ j \in DOMAIN job /\ job[j].status = "running" /\ u # None /\ Midway = {}
      /\ OneEnds(u, "failed") /\ EndedRows(S, "failed")
      /\ project' = [p \in Projects |-> IF p \notin Joined(u) THEN project[p] ELSE
                          [project[p] EXCEPT !.stage = StageAfterFailure(p)]]
  BY <1>0, FailUpdateEffect
<1>2. \A i \in DOMAIN job : Active(i) /\ job[i].update # None => job[i].update = u /\ job[i].project \in Joined(u)
  BY <1>1, ActiveUpdateOf
<1>3. OneMidway'
  <2>1. \A i \in DOMAIN job' :
           /\ i \in DOMAIN job /\ (job'[i].status = "asked" => job[i].status = "asked")
           /\ job'[i].follow = job[i].follow
    BY <1>1 DEF EndedRows
  <2> QED BY <1>1, <2>1, StaysAtRest
<1>4. head # None => head \in DOMAIN update' /\ update'[head].status # "active"
  <2> SUFFICES ASSUME head # None PROVE head \in DOMAIN update' /\ update'[head].status # "active"
    OBVIOUS
  <2>1. head \in DOMAIN update /\ update[head].status # "active"
    BY <1>0 DEF Bindings
  <2>2. CASE head = u
    BY <1>1, <2>1, <2>2 DEF OneEnds
  <2>3. CASE head # u
    BY <1>1, <2>1, <2>3 DEF OneEnds
  <2> QED BY <2>2, <2>3
<1>5. ASSUME NEW q \in Projects
      PROVE  /\ project[q].stage \notin {"absent", "deleted"} => project'[q].stage \notin {"absent", "deleted"}
             /\ project'[q].key = project[q].key
             /\ project'[q].stage = "working" => project[q].stage = "working" /\ q \notin Joined(u)
  <2>1. StageAfterFailure(q) \in {"done", "failed"}
    BY DEF StageAfterFailure
  <2>2. project[q] \in ProjectRow
    BY <1>0 DEF Tables
  <2> QED BY <1>1, <2>1, <2>2 DEF ProjectRow
<1>6. \A i \in DOMAIN job' : job'[i].status \in InQueue => i \in DOMAIN job /\ job'[i] = job[i]
  BY <1>1 DEF EndedRows, InQueue
<1>7. ASSUME NEW q \in Projects, project'[q].stage = "working"
      PROVE  \E i \in DOMAIN job' : job'[i].status \in InQueue /\ job'[i].project = q
  <2>1. project[q].stage = "working" /\ q \notin Joined(u)
    BY <1>5, <1>7
  <2>2. PICK i \in DOMAIN job : Active(i) /\ job[i].project = q
    BY <1>0, <2>1 DEF AllWork
  <2>3. i \notin S
    BY <1>1, <1>2, <2>1, <2>2
  <2>4. i \in DOMAIN job' /\ job'[i] = job[i]
    BY <1>1, <2>3 DEF EndedRows
  <2> QED BY <2>2, <2>4 DEF Active
<1>8. OfProjects'
  BY <1>0, <1>1, <1>4, <1>5, <1>6, <1>7, ProjectsKept
<1> QED BY <1>3, <1>8

LEMMA OverlayKeepsProjects ==
  ASSUME Shared, Slow = {}, NEW j, PublishOverlay(j) \/ FailOverlay(j)
  PROVE  OfProjects' /\ OneMidway'
<1>0. Tables /\ Tables' /\ OfUpdates /\ OfProjects /\ AllWork /\ Bindings /\ JobsAlive
  BY ExecutionsKeepLedgers DEF Shared, Ledgers, OfProjects
<1> PICK k, l : k = job[j].seen.key /\ l = LanguageOf[job[j].project]
  OBVIOUS
<1> PICK S : S = OverlayJobs(k, l)
  OBVIOUS
<1>1. /\ j \in DOMAIN job /\ job[j].status = "running" /\ job[j].role = "overlay" /\ Midway = {}
      /\ UNCHANGED <<update, head>>
  BY <1>0, OverlayEffect
<1>2. Active(j) /\ job[j].update = None
  BY <1>0, <1>1 DEF OfUpdates, JobsOfUpdates, Active, InQueue
<1>3. k # None
  BY <1>0, <1>1, <1>2 DEF OfProjects, JobsOfOverlays
<1>4. PICK status \in {"succeeded", "failed"}, stage \in {"done", "failed"} :
          /\ OverlayRows(S, j, status)
          /\ project' = [p \in Projects |-> IF \E i \in S : job[i].project = p
                                            THEN [project[p] EXCEPT !.stage = stage] ELSE project[p]]
  <2> DEFINE T == OverlayJobs(job[j].seen.key, LanguageOf[job[j].project])
  <2>1. \E status \in {"succeeded", "failed"}, stage \in {"done", "failed"} :
          /\ OverlayRows(T, j, status)
          /\ project' = [p \in Projects |-> IF \E i \in T : job[i].project = p
                                            THEN [project[p] EXCEPT !.stage = stage] ELSE project[p]]
    BY <1>0, <1>3, OverlayEffect
  <2>2. S = T
    OBVIOUS
  <2> HIDE DEF T
  <2> QED BY <2>1, <2>2
<1>5. \A i \in S : i \in DOMAIN job /\ Active(i)
  BY DEF OverlayJobs
<1>6. OneMidway'
  <2>1. \A i \in DOMAIN job' :
           /\ i \in DOMAIN job /\ (job'[i].status = "asked" => job[i].status = "asked")
           /\ job'[i].follow = job[i].follow
    BY <1>1, <1>4 DEF OverlayRows
  <2> QED BY <1>1, <2>1, StaysAtRest
<1>7. head # None => head \in DOMAIN update' /\ update'[head].status # "active"
  BY <1>0, <1>1 DEF Bindings
<1>8. ASSUME NEW q \in Projects
      PROVE  /\ project[q].stage \notin {"absent", "deleted"} => project'[q].stage \notin {"absent", "deleted"}
             /\ project'[q].key = project[q].key
             /\ project'[q].stage = "working" =>
                  project[q].stage = "working" /\ \A i \in S : job[i].project # q
  <2>1. project[q] \in ProjectRow
    BY <1>0 DEF Tables
  <2> QED BY <1>4, <2>1 DEF ProjectRow
<1>9. ASSUME NEW i \in DOMAIN job', job'[i].status \in InQueue
      PROVE  /\ i \in DOMAIN job /\ job[i].status \in InQueue /\ job'[i].project = job[i].project
             /\ job'[i].update = job[i].update /\ job'[i].overlay = job[i].overlay
             /\ job'[i].role = job[i].role
             /\ job'[i].status = "running" => job[i].status = "running" /\ job'[i].seen = job[i].seen
  <2>1. i \in DOMAIN job /\ i \notin S
    BY <1>4, <1>9 DEF OverlayRows, InQueue
  <2>2. CASE i = j
    BY <1>2, <1>4, <2>1, <2>2 DEF OverlayRows, Active
  <2>3. CASE i # j
    <3>1. job'[i] = job[i]
      BY <1>4, <2>1, <2>3 DEF OverlayRows
    <3> QED BY <1>9, <2>1, <3>1
  <2> QED BY <2>2, <2>3
<1>10. ASSUME NEW q \in Projects, project'[q].stage = "working"
      PROVE  \E i \in DOMAIN job' : job'[i].status \in InQueue /\ job'[i].project = q
  <2>1. project[q].stage = "working" /\ \A i \in S : job[i].project # q
    BY <1>8, <1>10
  <2>2. PICK i \in DOMAIN job : Active(i) /\ job[i].project = q
    BY <1>0, <2>1 DEF AllWork
  <2>3. i \notin S
    BY <2>1, <2>2
  <2>4. i \in DOMAIN job' /\ job'[i].project = job[i].project /\ job'[i].status \in {job[i].status, "lapsed"}
    <3>1. CASE i = j
      BY <1>4, <2>3, <3>1 DEF OverlayRows
    <3>2. CASE i # j
      BY <1>4, <2>3, <3>2 DEF OverlayRows
    <3> QED BY <3>1, <3>2
  <2> QED BY <2>2, <2>4 DEF Active, InQueue
<1>11. OfProjects'
  BY <1>0, <1>1, <1>7, <1>8, <1>9, <1>10, ProjectsKept
<1> QED BY <1>6, <1>11

\* What a publication leaves of the active jobs.
LEMMA PublishedRows ==
  ASSUME Shared, NEW j, Publish(j), NEW i \in DOMAIN job
  PROVE  /\ Active(i) /\ job[i].update = job[j].update =>
              /\ job[i].project \in Affected(job[j].update)
              /\ job[i].project \in Waiting(j) =>
                   /\ job'[i].status = "queued" /\ job'[i].role = RoleOf(j, job[i].project)
                   /\ job'[i].update = None /\ job'[i].overlay = job[j].update
              /\ job[i].project \notin Waiting(j) => job'[i].status = "succeeded"
         /\ ~(Active(i) /\ job[i].update = job[j].update) => job'[i] = job[i]
         /\ job'[i].project = job[i].project /\ job'[i].follow = job[i].follow /\ job'[i].seen = job[i].seen
<1> DEFINE u == job[j].update
<1>1. /\ j \in DOMAIN job /\ job[j].status = "running" /\ u # None /\ KeptRow(j, i)
  BY PublishEffect DEF Shared, Ledgers
<1>2. ASSUME Active(i), job[i].update = u PROVE job[i].project \in Affected(u) /\ Represents(i, u)
  BY <1>1, <1>2, AllRepresent
<1>3. ASSUME ~(Active(i) /\ job[i].update = u) PROVE job'[i] = job[i]
  <2>1. ~Represents(i, u) /\ i # j
    BY <1>1, <1>3 DEF Represents, JobsIn, Active, InQueue
  <2> QED BY <1>1, <1>3, <2>1 DEF KeptRow
<1>4. job'[i].project = job[i].project /\ job'[i].follow = job[i].follow /\ job'[i].seen = job[i].seen
  BY <1>1 DEF KeptRow
<1>5. ASSUME Active(i), job[i].update = u
      PROVE  /\ job[i].project \in Waiting(j) =>
                   /\ job'[i].status = "queued" /\ job'[i].role = RoleOf(j, job[i].project)
                   /\ job'[i].update = None /\ job'[i].overlay = u
             /\ job[i].project \notin Waiting(j) => job'[i].status = "succeeded"
  BY <1>1, <1>2, <1>5 DEF KeptRow
<1> QED BY <1>2, <1>3, <1>4, <1>5

\* Every waiting project has a queued job for its overlay.
LEMMA WaitingHaveJobs ==
  ASSUME Shared, NEW j, Publish(j), NEW p \in Waiting(j)
  PROVE  \E i \in DOMAIN job' :
           /\ job'[i].project = p /\ job'[i].status = "queued" /\ job'[i].update = None
           /\ job'[i].overlay = job[j].update /\ job'[i].role = RoleOf(j, p)
<1>1. /\ j \in DOMAIN job /\ DOMAIN job \subseteq DOMAIN job'
      /\ \A i \in DOMAIN job' \ DOMAIN job : AddedRow(j, i)
      /\ \A q \in Jobless(j) : \E i \in DOMAIN job' \ DOMAIN job : job'[i].project = q
  BY PublishEffect DEF Shared, Ledgers
<1>2. CASE JobsIn(p, job[j].update) = {}
  <2>1. p \in Jobless(j)
    BY <1>2 DEF Jobless
  <2>2. PICK i \in DOMAIN job' \ DOMAIN job : job'[i].project = p
    BY <1>1, <2>1
  <2>3. AddedRow(j, i)
    BY <1>1
  <2> QED BY <2>2, <2>3 DEF AddedRow
<1>3. CASE JobsIn(p, job[j].update) # {}
  <2>1. PICK i \in DOMAIN job : Active(i) /\ job[i].update = job[j].update /\ job[i].project = p
    BY <1>3 DEF JobsIn
  <2> QED BY <1>1, <2>1, PublishedRows
<1> QED BY <1>2, <1>3

LEMMA PublishKeepsProjects ==
  ASSUME Shared, Slow = {}, NEW j, Publish(j)
  PROVE  OfProjects' /\ OneMidway'
<1>0. /\ Tables /\ Tables' /\ References /\ OfProjects /\ AllWork /\ Bindings /\ JobsAlive /\ JobsOfOverlays
  BY PublishKeepsLedgers DEF Shared, Ledgers, OfProjects
<1> PICK u : u = job[j].update
  OBVIOUS
<1>1. /\ j \in DOMAIN job /\ job[j].status = "running" /\ u # None /\ Midway = {}
      /\ head' = u /\ OneEnds(u, "succeeded")
      /\ project' = [p \in Projects |->
              IF p \in Affected(u) THEN [stage |-> IF p \in Waiting(j) THEN "working" ELSE "done", key |-> u]
              ELSE project[p]]
      /\ DOMAIN job \subseteq DOMAIN job'
      /\ \A i \in DOMAIN job' \ DOMAIN job : AddedRow(j, i)
  BY <1>0, PublishEffect
<1>2. ASSUME NEW i \in DOMAIN job
      PROVE  /\ Active(i) /\ job[i].update = u =>
                  /\ job[i].project \in Affected(u)
                  /\ job[i].project \in Waiting(j) =>
                       /\ job'[i].status = "queued" /\ job'[i].role = RoleOf(j, job[i].project)
                       /\ job'[i].update = None /\ job'[i].overlay = u
                  /\ job[i].project \notin Waiting(j) => job'[i].status = "succeeded"
             /\ ~(Active(i) /\ job[i].update = u) => job'[i] = job[i]
             /\ job'[i].project = job[i].project /\ job'[i].follow = job[i].follow
  BY PublishedRows
<1>3. \A i \in DOMAIN job : Active(i) /\ job[i].update # None => job[i].update = u /\ job[i].project \in Joined(u)
  BY <1>1, ActiveUpdateOf
<1>4. Waiting(j) \subseteq Affected(u) /\ Affected(u) \subseteq Projects
  BY DEF Waiting, Affected
<1>5. \A q : RoleOf(j, q) \in {"overlay", "waiter"}
  BY DEF RoleOf
<1>6. ASSUME NEW q \in Projects
      PROVE  /\ q \in Affected(u) => /\ project'[q].key = u /\ project'[q].stage \in {"working", "done"}
                                     /\ project'[q].stage = "working" => q \in Waiting(j)
             /\ q \notin Affected(u) => project'[q] = project[q] /\ project'[q].key = None
  <2>1. q \in Affected(u) => project'[q] = [stage |-> IF q \in Waiting(j) THEN "working" ELSE "done", key |-> u]
    BY <1>1
  <2>2. q \notin Affected(u) => project'[q] = project[q]
    BY <1>1
  <2>3. q \notin Affected(u) => project[q].key = None
    BY <1>0 DEF Affected, Bindings
  <2> QED BY <2>1, <2>2, <2>3
<1>7. Bindings'
  <2>1. u \in DOMAIN update' /\ update'[u].status # "active"
    BY <1>1 DEF OneEnds
  <2>2. \A q \in Projects : /\ project'[q].key \in {None, head'}
                            /\ project'[q].stage \in {"absent", "deleted"} => project'[q].key = None
    BY <1>1, <1>6
  <2> QED BY <1>1, <2>1, <2>2 DEF Bindings, AllFollow, Exists
<1>8. OneMidway'
  <2>1. ASSUME NEW i \in DOMAIN job'
        PROVE  /\ i \in DOMAIN job /\ job'[i].status = "asked" => job[i].status = "asked"
               /\ i \in DOMAIN job => job'[i].follow = job[i].follow
               /\ i \notin DOMAIN job => job'[i].status # "asked" /\ job'[i].follow = "no"
    <3>1. CASE i \in DOMAIN job
      BY <1>2, <3>1
    <3>2. CASE i \notin DOMAIN job
      BY <1>1, <3>2 DEF AddedRow
    <3> QED BY <3>1, <3>2
  <2> QED BY <1>1, <2>1, StaysAtRest
<1>9. ASSUME NEW i \in DOMAIN job', job'[i].status \in InQueue
      PROVE  /\ project'[job'[i].project].stage \notin {"absent", "deleted"}
             /\ job'[i].update = None =>
                  /\ job'[i].role \in {"overlay", "waiter"} /\ job'[i].overlay # None
                  /\ project'[job'[i].project].key # None
                  /\ job'[i].role = "overlay" /\ job'[i].status = "running" => job'[i].seen.key # None
  <2>1. CASE i \notin DOMAIN job
    <3>1. AddedRow(j, i)
      BY <1>1, <2>1
    <3>2. job'[i].project \in Affected(u) /\ job'[i].project \in Projects
      BY <1>4, <3>1 DEF AddedRow, Jobless
    <3> QED BY <1>1, <1>5, <1>6, <3>1, <3>2 DEF AddedRow
  <2>2. CASE i \in DOMAIN job /\ Active(i) /\ job[i].update = u
    <3>1. /\ job[i].project \in Affected(u) /\ job'[i].project = job[i].project /\ job[i].project \in Projects
          /\ job[i].project \in Waiting(j)
          /\ job'[i].status = "queued" /\ job'[i].role = RoleOf(j, job[i].project) /\ job'[i].overlay = u
      BY <1>2, <1>4, <1>9, <2>2 DEF InQueue
    <3> QED BY <1>1, <1>5, <1>6, <3>1
  <2>3. CASE i \in DOMAIN job /\ ~(Active(i) /\ job[i].update = u)
    <3>1. job'[i] = job[i] /\ Active(i)
      BY <1>2, <1>9, <2>3 DEF Active
    <3>2. /\ job[i].update = None /\ Exists(job[i].project) /\ job[i].project \in Projects
      BY <1>0, <1>3, <2>3, <3>1, RowType DEF JobsAlive, Tables
    <3>3. /\ job[i].role \in {"overlay", "waiter"} /\ job[i].overlay # None /\ project[job[i].project].key # None
          /\ job[i].role = "overlay" /\ job[i].status = "running" => job[i].seen.key # None
      BY <1>0, <2>3, <3>1, <3>2 DEF JobsOfOverlays
    <3>4. job[i].project \in Affected(u)
      BY <3>2, <3>3 DEF Affected
    <3> QED BY <1>1, <1>6, <3>1, <3>2, <3>3, <3>4
  <2> QED BY <2>1, <2>2, <2>3
<1>10. JobsAlive' /\ JobsOfOverlays'
  BY <1>9 DEF JobsAlive, JobsOfOverlays, Active, Exists
<1>11. AllWork'
  <2>1. ASSUME NEW q \in Projects, project'[q].stage = "working"
        PROVE  \E i \in DOMAIN job' : job'[i].status \in InQueue /\ job'[i].project = q
    <3>1. CASE q \in Affected(u)
      <4>1. q \in Waiting(j)
        BY <1>6, <2>1, <3>1
      <4>2. PICK i \in DOMAIN job' : job'[i].project = q /\ job'[i].status = "queued"
        BY <4>1, WaitingHaveJobs
      <4> QED BY <4>2 DEF InQueue
    <3>2. CASE q \notin Affected(u)
      <4>1. project[q].stage = "working" /\ project[q].key = None
        BY <1>6, <2>1, <3>2
      <4>2. PICK i \in DOMAIN job : Active(i) /\ job[i].project = q
        BY <1>0, <4>1 DEF AllWork
      <4>3. job[i].update # None
        BY <1>0, <4>1, <4>2 DEF JobsOfOverlays
      <4>4. q \in Joined(u) /\ Exists(q)
        BY <1>0, <1>3, <4>2, <4>3 DEF JobsAlive
      <4> QED BY <3>2, <4>4 DEF Affected
    <3> QED BY <3>1, <3>2
  <2> QED BY <2>1 DEF AllWork, Active
<1> QED BY <1>7, <1>8, <1>10, <1>11 DEF OfProjects

LEMMA DeleteKeepsProjects ==
  ASSUME Shared, Slow = {}, NEW p \in Projects, Delete(p)
  PROVE  OfProjects' /\ OneMidway'
<1>0. /\ Tables /\ OfUpdates /\ OfProjects /\ AllWork /\ Bindings /\ JobsAlive /\ JobsOfOverlays
  BY DEF Shared, Ledgers, OfProjects
<1>1. /\ project' = [project EXCEPT ![p] = [stage |-> "deleted", key |-> None]]
      /\ head' = head /\ Midway = {}
      /\ DOMAIN job' = DOMAIN job /\ DOMAIN update' = DOMAIN update
      /\ \A i \in DOMAIN job : JobWithout(i, p)
      /\ \A u \in DOMAIN update : UpdateWithout(u, p)
  BY <1>0, DeleteEffect
<1>2. /\ project'[p].stage = "deleted" /\ project'[p].key = None
      /\ \A q \in Projects \ {p} : project'[q] = project[q]
  BY <1>0, <1>1 DEF Tables
<1>3. ASSUME NEW i \in DOMAIN job, job[i].status \in InQueue, job[i].project # p
      PROVE  /\ job'[i].status = job[i].status /\ job'[i].update = job[i].update
             /\ job'[i].overlay = job[i].overlay /\ job'[i].project = job[i].project
             /\ job'[i].seen = job[i].seen
             /\ job[i].update = None => job'[i].role = job[i].role
  <2>1. JobWithout(i, p)
    BY <1>1
  <2>2. job[i].update = None => i \notin Promoted(p)
    BY DEF Promoted
  <2> QED BY <1>3, <2>1, <2>2 DEF JobWithout
<1>4. ASSUME NEW i \in DOMAIN job, job'[i].status \in InQueue
      PROVE  job[i].status \in InQueue /\ job[i].project # p
  <2>1. JobWithout(i, p)
    BY <1>1
  <2>2. CASE job[i].project = p /\ job[i].status # "asked"
    BY <1>4, <2>1, <2>2 DEF JobWithout, InQueue
  <2>3. CASE ~(job[i].project = p /\ job[i].status # "asked")
    BY <1>4, <2>1, <2>3 DEF JobWithout, InQueue
  <2> QED BY <2>2, <2>3
<1>5. Bindings'
  <2>1. head # None => head \in DOMAIN update' /\ update'[head].status # "active"
    <3> SUFFICES ASSUME head # None PROVE head \in DOMAIN update' /\ update'[head].status # "active"
      OBVIOUS
    <3>1. head \in DOMAIN update /\ update[head].status # "active" /\ UpdateWithout(head, p)
      BY <1>0, <1>1 DEF Bindings
    <3> QED BY <1>1, <3>1 DEF UpdateWithout
  <2>2. \A q \in Projects : /\ project'[q].key \in {None, head'}
                            /\ project'[q].stage \in {"absent", "deleted"} => project'[q].key = None
    BY <1>0, <1>1, <1>2 DEF Bindings, AllFollow, Exists
  <2> QED BY <1>1, <2>1, <2>2 DEF Bindings, AllFollow, Exists
<1>6. OneMidway'
  <2>1. ASSUME NEW i \in DOMAIN job'
        PROVE  /\ i \in DOMAIN job /\ (job'[i].status = "asked" => job[i].status = "asked")
               /\ job'[i].follow = job[i].follow
    <3>1. i \in DOMAIN job /\ JobWithout(i, p)
      BY <1>1
    <3>2. CASE job[i].project = p /\ job[i].status # "asked"
      BY <3>1, <3>2 DEF JobWithout
    <3>3. CASE ~(job[i].project = p /\ job[i].status # "asked")
      BY <3>1, <3>3 DEF JobWithout
    <3> QED BY <3>1, <3>2, <3>3
  <2> QED BY <1>1, <2>1, StaysAtRest
<1>7. ASSUME NEW i \in DOMAIN job', job'[i].status \in InQueue
      PROVE  /\ project'[job'[i].project].stage \notin {"absent", "deleted"}
             /\ job'[i].update = None =>
                  /\ job'[i].role \in {"overlay", "waiter"} /\ job'[i].overlay # None
                  /\ project'[job'[i].project].key # None
                  /\ job'[i].role = "overlay" /\ job'[i].status = "running" => job'[i].seen.key # None
  <2>1. i \in DOMAIN job /\ job[i].status \in InQueue /\ job[i].project # p
    BY <1>1, <1>4, <1>7
  <2>2. /\ job'[i].status = job[i].status /\ job'[i].update = job[i].update
        /\ job'[i].overlay = job[i].overlay /\ job'[i].project = job[i].project
        /\ job'[i].seen = job[i].seen
        /\ job[i].update = None => job'[i].role = job[i].role
    BY <1>3, <2>1
  <2>3. job[i].project \in Projects
    BY <1>0, <2>1, RowType DEF Tables
  <2>4. project'[job[i].project] = project[job[i].project]
    BY <1>2, <2>1, <2>3
  <2>5. Exists(job[i].project)
    BY <1>0, <2>1 DEF JobsAlive, Active
  <2>6. job[i].update = None =>
          /\ job[i].role \in {"overlay", "waiter"} /\ job[i].overlay # None
          /\ project[job[i].project].key # None
          /\ job[i].role = "overlay" /\ job[i].status = "running" => job[i].seen.key # None
    BY <1>0, <2>1 DEF JobsOfOverlays, Active
  <2> QED BY <2>2, <2>4, <2>5, <2>6 DEF Exists
<1>8. JobsAlive' /\ JobsOfOverlays'
  BY <1>7 DEF JobsAlive, JobsOfOverlays, Active, Exists
<1>9. AllWork'
  <2>1. ASSUME NEW q \in Projects, project'[q].stage = "working"
        PROVE  \E i \in DOMAIN job' : job'[i].status \in InQueue /\ job'[i].project = q
    <3>1. q # p /\ project[q].stage = "working"
      BY <1>2, <2>1
    <3>2. PICK i \in DOMAIN job : job[i].status \in InQueue /\ job[i].project = q
      BY <1>0, <3>1 DEF AllWork, Active
    <3>3. job'[i].status \in InQueue /\ job'[i].project = q
      BY <1>3, <3>1, <3>2
    <3> QED BY <1>1, <3>3
  <2> QED BY <2>1 DEF AllWork, Active
<1> QED BY <1>5, <1>6, <1>8, <1>9 DEF OfProjects

LEMMA InitShared == Init => Shared
<1> SUFFICES ASSUME Init PROVE Shared
  OBVIOUS
<1>1. DOMAIN job = {} /\ DOMAIN update = {} /\ head = None
  BY DEF Init
<1>2. \A p \in Projects : project[p].stage = "absent" /\ project[p].key = None
  BY DEF Init
<1>3. ActiveUpdates = {} /\ Midway = {}
  BY <1>1 DEF ActiveUpdates, Midway
<1>4. OfUpdates
  BY <1>1, <1>3 DEF OfUpdates, LastActive, JobsOfUpdates, Represented
<1>5. OfProjects
  BY <1>1, <1>2 DEF OfProjects, JobsOfOverlays, JobsAlive, Bindings, AllFollow, AllWork
<1>6. OneMidway
  BY <1>3 DEF OneMidway
<1> QED BY <1>4, <1>5, <1>6, InitLedgers DEF Shared

LEMMA StepKeepsShared == Slow = {} /\ Shared /\ [Next]_vars => Shared'
<1> SUFFICES ASSUME Slow = {}, Shared, [Next]_vars PROVE Shared'
  OBVIOUS
<1>1. Ledgers'
  BY StepKeepsLedgers DEF Shared
<1>2. CASE UNCHANGED vars
  <2>1. UNCHANGED <<project, job, update, overlay, head, generation, reserved, lapses>>
    BY <1>2 DEF vars
  <2>2. OfUpdates'
    BY <2>1 DEF Shared, OfUpdates, LastActive, JobsOfUpdates, Represented, ActiveUpdates, Active, Exists, JobsIn, Drives
  <2>3. OfProjects'
    BY <2>1 DEF Shared, OfProjects, JobsOfOverlays, JobsAlive, Bindings, AllFollow, AllWork, Active, Exists
  <2>4. OneMidway'
    BY <2>1 DEF Shared, OneMidway, Midway, AskedWell, FollowsWell, Exists, Active
  <2> QED BY <1>1, <2>2, <2>3, <2>4 DEF Shared
<1>3. CASE \E c \in Clients, reuse \in BOOLEAN : Ask(c, reuse)
  BY <1>1, <1>3, AskKeepsUpdates, AskKeepsProjects DEF Shared
<1>4. CASE \E p \in Projects : StartBackground(p) \/ Delete(p)
  BY <1>1, <1>4, BackgroundKeepsUpdates, BackgroundKeepsProjects, DeleteKeepsUpdates, DeleteKeepsProjects
     DEF Shared
<1>5. CASE \E j \in JobIds : Refuse(j) \/ Join(j) \/ Reuse(j) \/ Follow(j)
  BY <1>1, <1>5, RequestsKeepUpdates, JoinKeepsUpdates, RefuseKeepsProjects, JoinKeepsProjects,
     ReuseKeepsProjects, FollowKeepsProjects DEF Shared
<1>6. CASE \E j \in JobIds : Claim(j) \/ Lapse(j) \/ Retry(j) \/ PublishOverlay(j) \/ FailOverlay(j)
  BY <1>1, <1>6, ExecutionsLeaveUpdates, ClaimKeepsProjects, RestKeepsProjects, OverlayKeepsProjects DEF Shared
<1>7. CASE \E j \in JobIds : Publish(j) \/ FailUpdate(j)
  BY <1>1, <1>7, PublishKeepsUpdates, PublishKeepsProjects, FailUpdateKeepsUpdates, FailUpdateKeepsProjects
     DEF Shared
<1> QED BY <1>2, <1>3, <1>4, <1>5, <1>6, <1>7 DEF Next

\* Whatever may be published, updates and their waiting requests have ended once.
LEMMA UpdatesEndOnce ==
  ASSUME Shared, Slow = {}, [Next]_vars
  PROVE  /\ generation' # generation => head' \in DOMAIN update /\ update[head'].status = "active" /\ head < head'
         /\ \A u \in DOMAIN update :
              update[u].status # "active" => update'[u].status \in {update[u].status, "deleted"}
<1>0. Tables /\ References /\ OfUpdates /\ Bindings
  BY DEF Shared, Ledgers, OfProjects
<1>1. CASE UNCHANGED <<update, generation>>
  BY <1>1
<1>2. CASE UNCHANGED vars
  BY <1>1, <1>2 DEF vars
<1>3. CASE \E c \in Clients, reuse \in BOOLEAN : Ask(c, reuse)
  BY <1>1, <1>3 DEF Ask
<1>4. CASE \E p \in Projects : StartBackground(p)
  <2>1. PICK p \in Projects : StartBackground(p)
    BY <1>4
  <2>2. generation' = generation /\ OneUpdateMore(p, "reserved")
    BY <1>0, <2>1, BackgroundEffect
  <2> QED BY <2>2 DEF OneUpdateMore
<1>5. CASE \E j \in JobIds : Join(j)
  <2>1. PICK j \in JobIds : Join(j)
    BY <1>5
  <2>2. /\ generation' = generation
        /\ \/ OneUpdateMore(job[j].project, "none")
           \/ \E v \in ActiveUpdates : OneJoins(v, job[j].project)
    BY <1>0, <2>1, JoinEffect
  <2> QED BY <2>2 DEF OneUpdateMore, OneJoins, ActiveUpdates
<1>6. CASE \E j \in JobIds : FailUpdate(j)
  <2>1. PICK j \in JobIds : FailUpdate(j)
    BY <1>6
  <2>2. /\ generation' = generation /\ OneEnds(job[j].update, "failed")
        /\ j \in DOMAIN job /\ job[j].status = "running" /\ job[j].update # None
    BY <1>0, <2>1, FailUpdateEffect
  <2>3. update[job[j].update].status = "active"
    BY <2>2, ActiveUpdateOf DEF ActiveUpdates
  <2> QED BY <2>2, <2>3 DEF OneEnds
<1>7. CASE \E j \in JobIds : Publish(j)
  <2>1. PICK j \in JobIds : Publish(j)
    BY <1>7
  <2>2. /\ head' = job[j].update /\ OneEnds(job[j].update, "succeeded")
        /\ j \in DOMAIN job /\ job[j].status = "running" /\ job[j].update # None
    BY <1>0, <2>1, PublishEffect
  <2>3. update[job[j].update].status = "active" /\ job[j].update = Len(update) /\ job[j].update \in DOMAIN update
    BY <2>2, ActiveUpdateOf DEF ActiveUpdates
  <2>4. head < job[j].update
    <3>1. DOMAIN update = 1..Len(update) /\ Len(update) \in Nat
      BY <1>0 DEF Tables
    <3>2. head = 0 \/ (head \in DOMAIN update /\ head # job[j].update)
      BY <1>0, <2>3 DEF Bindings, None
    <3> QED BY <2>3, <3>1, <3>2
  <2> QED BY <2>2, <2>3, <2>4 DEF OneEnds
<1>8. CASE \E p \in Projects : Delete(p)
  <2>1. PICK p \in Projects : Delete(p)
    BY <1>8
  <2>2. generation' = generation /\ \A u \in DOMAIN update : UpdateWithout(u, p)
    BY <1>0, <2>1, DeleteEffect
  <2> QED BY <2>2 DEF UpdateWithout
<1>9. CASE \E j \in JobIds : Refuse(j) \/ Reuse(j) \/ Follow(j) \/ Claim(j) \/ Lapse(j) \/ Retry(j)
                            \/ PublishOverlay(j) \/ FailOverlay(j)
  BY <1>1, <1>9 DEF Refuse, Reuse, Follow, Claim, Lapse, Retry, PublishOverlay, FailOverlay, EndOverlay
<1> QED BY <1>2, <1>3, <1>4, <1>5, <1>6, <1>7, <1>8, <1>9 DEF Next

\* An update is published while it is active and never after a later one, and the way
\* it ended stays: no execution of a lost or exhausted lease publishes or fails it
\* again.  (publishRepositoryUpdate(), failRepositoryUpdate(), deleteProject().)
THEOREM UpdatesStayEnded == Slow = {} => (Spec => EndsOnce)
<1> SUFFICES ASSUME Slow = {} PROVE Spec => EndsOnce
  OBVIOUS
<1>1. Shared /\ [Next]_vars => Shared'
  BY StepKeepsShared
<1>2. Shared /\ [Next]_vars =>
        [/\ generation' # generation => update[head'].status = "active" /\ head < head'
         /\ \A u \in DOMAIN update :
              update[u].status # "active" => update'[u].status \in {update[u].status, "deleted"}]_vars
  BY UpdatesEndOnce
<1> QED BY <1>1, <1>2, InitShared, PTL DEF Spec, EndsOnce

\* A project that shows a running analysis has a job that is still to end it, if no
\* request is overtaken: publications, failures, lost leases, retries and the deletion of
\* any project leave none behind.
THEOREM SomebodyAlwaysWorks == Slow = {} => (Spec => []SomebodyWorks)
<1> SUFFICES ASSUME Slow = {} PROVE Spec => []SomebodyWorks
  OBVIOUS
<1>1. Shared /\ [Next]_vars => Shared'
  BY StepKeepsShared
<1>2. Shared => SomebodyWorks
  BY DEF Shared, OfProjects, AllWork, SomebodyWorks, Others
<1> QED BY <1>1, <1>2, InitShared, PTL DEF Spec

-----------------------------------------------------------------------------
(* The number of jobs.                                                     *)

LEMMA Products ==
  ASSUME NEW a \in Nat, NEW b \in Nat, NEW c \in Nat, a <= b
  PROVE  a * c \in Nat /\ (a + 1) * c = a * c + c /\ a * c <= b * c
<1>1. a * c \in Nat /\ (a + 1) * c = a * c + c
  OBVIOUS
<1>2. PICK d \in Nat : b = a + d
  <2>1. b - a \in Nat /\ b = a + (b - a)
    OBVIOUS
  <2> QED BY <2>1
<1>3. b * c = a * c + d * c /\ d * c \in Nat
  BY <1>2
<1> QED BY <1>1, <1>3

\* A step that publishes nothing and starts no update.
LEMMA CountsKept ==
  ASSUME JobsCounted, UNCHANGED <<generation, head>>, Len(job') = Len(job), DOMAIN update' = DOMAIN update,
         \A u \in DOMAIN update : update'[u].base = update[u].base
  PROVE  JobsCounted'
BY DEF JobsCounted

\* A step that starts an update.
LEMMA BaseCounted ==
  ASSUME Tables, JobsCounted, NEW p, NEW budget, OneUpdateMore(p, budget)
  PROVE  \A u \in DOMAIN update' : update'[u].base \in -1..MaxUpdates
<1>1. (IF generation = 0 THEN -1 ELSE generation) \in -1..MaxUpdates
  BY UpdatesAssumption DEF Tables, JobsCounted
<1> QED BY <1>1 DEF OneUpdateMore, JobsCounted

LEMMA StepKeepsCounts == Slow = {} /\ Shared /\ JobsCounted /\ [Next]_vars => JobsCounted'
<1> SUFFICES ASSUME Slow = {}, Shared, JobsCounted, [Next]_vars PROVE JobsCounted'
  OBVIOUS
<1>0. Tables /\ References /\ Tables'
  BY StepKeepsLedgers DEF Shared, Ledgers
<1> PICK C \in Nat : C = Cardinality(Projects)
  BY FS_CardinalityType, UpdatesAssumption
<1>1. generation * C \in Nat /\ (generation + 1) * C = generation * C + C /\ MaxJobs \in Nat
  <2>1. generation \in Nat
    BY <1>0 DEF Tables
  <2> QED BY <2>1, Products, UpdatesAssumption
<1>2. CASE UNCHANGED vars
  BY <1>2 DEF vars, JobsCounted
<1>3. CASE \E c \in Clients, reuse \in BOOLEAN : Ask(c, reuse)
  <2>1. PICK c \in Clients, reuse \in BOOLEAN : Ask(c, reuse)
    BY <1>3
  <2>2. UNCHANGED <<update, generation, head>> /\ Len(job) < MaxJobs /\ Len(job') = Len(job) + 1
    <3>1. job' = Append(job, job'[Len(job) + 1]) /\ job'[Len(job) + 1] \in Job
      BY <1>0, <2>1, AskEffect
    <3>2. Len(job') = Len(job) + 1
      BY <1>0, <3>1, AppendedRow DEF Tables
    <3> QED BY <2>1, <3>2 DEF Ask
  <2>3. Len(job') <= MaxJobs + generation * C
    <3>1. Len(job) \in Nat
      BY <1>0 DEF Tables
    <3> QED BY <1>1, <2>2, <3>1
  <2> QED BY <2>2, <2>3 DEF JobsCounted
<1>4. CASE \E p \in Projects : StartBackground(p)
  <2>1. PICK p \in Projects : StartBackground(p)
    BY <1>4
  <2>2. /\ UNCHANGED <<generation, head>> /\ Len(job) < MaxJobs /\ OneUpdateMore(p, "reserved")
        /\ Len(job') = Len(job) + 1
    <3>1. job' = Append(job, job'[Len(job) + 1]) /\ job'[Len(job) + 1] \in Job
      BY <1>0, <2>1, BackgroundEffect
    <3>2. Len(job') = Len(job) + 1
      BY <1>0, <3>1, AppendedRow DEF Tables
    <3>3. UNCHANGED <<generation, head>> /\ Len(job) < MaxJobs /\ OneUpdateMore(p, "reserved")
      BY <1>0, <2>1, BackgroundEffect
    <3> QED BY <3>2, <3>3
  <2>3. Len(job') <= MaxJobs + generation * C
    <3>1. Len(job) \in Nat
      BY <1>0 DEF Tables
    <3> QED BY <1>1, <2>2, <3>1
  <2> QED BY <1>0, <2>2, <2>3, BaseCounted DEF JobsCounted
<1>5. CASE \E j \in JobIds : Join(j)
  <2>1. PICK j \in JobIds : Join(j)
    BY <1>5
  <2>2. /\ UNCHANGED <<generation, head>> /\ Len(job') = Len(job)
        /\ \/ OneUpdateMore(job[j].project, "none")
           \/ \E v \in ActiveUpdates : OneJoins(v, job[j].project)
    BY <1>0, <2>1, JoinEffect DEF OnlyRow
  <2>3. \A u \in DOMAIN update' : update'[u].base \in -1..MaxUpdates
    <3>1. CASE OneUpdateMore(job[j].project, "none")
      BY <1>0, <3>1, BaseCounted
    <3>2. CASE \E v \in ActiveUpdates : OneJoins(v, job[j].project)
      BY <3>2 DEF OneJoins, JobsCounted
    <3> QED BY <2>2, <3>1, <3>2
  <2> QED BY <2>2, <2>3 DEF JobsCounted
<1>6. CASE \E j \in JobIds : FailUpdate(j)
  <2>1. PICK j \in JobIds : FailUpdate(j)
    BY <1>6
  <2>2. /\ UNCHANGED <<generation, head>> /\ OneEnds(job[j].update, "failed") /\ Len(job') = Len(job)
    BY <1>0, <2>1, FailUpdateEffect DEF EndedRows
  <2>3. DOMAIN update' = DOMAIN update /\ \A u \in DOMAIN update : update'[u].base = update[u].base
    BY <2>2 DEF OneEnds
  <2> QED BY <2>2, <2>3, CountsKept
<1>7. CASE \E j \in JobIds : Publish(j)
  <2>1. PICK j \in JobIds : Publish(j)
    BY <1>7
  <2>2. /\ OneEnds(job[j].update, "succeeded") /\ generation' = generation + 1
        /\ Len(job') <= Len(job) + C
    BY <1>0, <2>1, PublishEffect
  <2>3. DOMAIN update' = DOMAIN update /\ \A u \in DOMAIN update : update'[u].base = update[u].base
    BY <2>2 DEF OneEnds
  <2>4. head < head'
    BY <1>0, <2>2, UpdatesEndOnce DEF Tables
  <2>5. generation' <= head'
    BY <1>0, <2>2, <2>4 DEF Tables, JobsCounted
  <2>6. Len(job') <= MaxJobs + generation' * C
    <3>1. generation' * C = generation * C + C
      BY <1>1, <2>2
    <3>2. Len(job) <= MaxJobs + generation * C /\ Len(job) \in Nat /\ Len(job') \in Nat
      BY <1>0 DEF JobsCounted, Tables
    <3> QED BY <1>1, <2>2, <3>1, <3>2
  <2> QED BY <2>3, <2>5, <2>6 DEF JobsCounted
<1>8. CASE \E p \in Projects : Delete(p)
  <2>1. PICK p \in Projects : Delete(p)
    BY <1>8
  <2>2. /\ UNCHANGED <<generation, head>> /\ Len(job') = Len(job) /\ DOMAIN update' = DOMAIN update
        /\ \A u \in DOMAIN update : UpdateWithout(u, p)
    BY <1>0, <2>1, DeleteEffect
  <2> QED BY <2>2, CountsKept DEF UpdateWithout
<1>9. CASE \E j \in JobIds : Refuse(j) \/ Reuse(j) \/ Follow(j) \/ Claim(j) \/ Lapse(j) \/ Retry(j)
  <2>1. PICK j \in JobIds : Refuse(j) \/ Reuse(j) \/ Follow(j) \/ Claim(j) \/ Lapse(j) \/ Retry(j)
    BY <1>9
  <2>2. UNCHANGED <<update, generation, head>>
    BY <2>1 DEF Refuse, Reuse, Follow, Claim, Lapse, Retry
  <2>3. OnlyRow(j)
    BY <1>0, <2>1, RefuseEffect, ReuseEffect, FollowEffect, ClaimEffect, RestEffect
  <2> QED BY <2>2, <2>3, CountsKept DEF OnlyRow
<1>10. CASE \E j \in JobIds : PublishOverlay(j) \/ FailOverlay(j)
  <2>1. PICK j \in JobIds : PublishOverlay(j) \/ FailOverlay(j)
    BY <1>10
  <2>2. UNCHANGED <<update, generation, head>>
    BY <2>1 DEF PublishOverlay, FailOverlay, EndOverlay
  <2>3. \/ \E S, status : OverlayRows(S, j, status)
        \/ EndedRows({j}, "failed")
    BY <1>0, <2>1, OverlayEffect
  <2>4. Len(job') = Len(job)
    BY <2>3 DEF OverlayRows, EndedRows
  <2> QED BY <2>2, <2>4, CountsKept
<1> QED BY <1>2, <1>3, <1>4, <1>5, <1>6, <1>7, <1>8, <1>9, <1>10 DEF Next

LEMMA CountedIsTyped == Shared /\ JobsCounted => TypeOK
<1> SUFFICES ASSUME Shared, JobsCounted PROVE TypeOK
  OBVIOUS
<1>1. Tables /\ Books
  BY DEF Shared, Ledgers
<1> PICK C \in Nat : C = Cardinality(Projects)
  BY FS_CardinalityType, UpdatesAssumption
<1>2. generation \in Nat /\ MaxUpdates \in Nat /\ generation <= MaxUpdates
  BY <1>1, UpdatesAssumption DEF Tables, JobsCounted
<1>3. generation * C <= MaxUpdates * C /\ generation * C \in Nat /\ MaxUpdates * C \in Nat
  BY <1>2, Products
<1>4. Len(job) \in {0} \cup JobIds
  <2>1. Len(job) \in Nat /\ Len(job) <= MaxJobs + generation * C /\ MaxJobs \in Nat
    BY <1>1, UpdatesAssumption DEF Tables, JobsCounted
  <2>2. Len(job) = 0 \/ Len(job) \in 1..(MaxJobs + MaxUpdates * C)
    BY <1>3, <2>1
  <2> QED BY <2>2 DEF JobIds
<1>5. update \in Seq(Update)
  <2>1. update \in Seq(AnyUpdate)
    BY <1>1 DEF Tables
  <2>2. ASSUME NEW u \in DOMAIN update PROVE update[u] \in Update
    <3>1. update[u] \in AnyUpdate /\ update[u].base \in -1..MaxUpdates
      BY <2>1 DEF JobsCounted
    <3> QED BY <3>1 DEF AnyUpdate, Update
  <2>3. DOMAIN update = 1..Len(update) /\ Len(update) \in Nat /\ update = [u \in DOMAIN update |-> update[u]]
    BY <2>1
  <2> QED BY <2>2, <2>3
<1>6. reserved \in 0..MaxReserved
  <2>1. Cardinality({u \in DOMAIN update : Held(u)}) \in Nat
    BY <1>1, HeldFinite DEF HeldUpdates
  <2> QED BY <1>1, <2>1, UpdatesAssumption DEF Books
<1> QED BY <1>1, <1>4, <1>5, <1>6 DEF Tables, TypeOK

\* The tables stay well formed, and publications insert no more jobs than one per
\* project and update: Next leaves out no execution of a job.
THEOREM UpdatesStayTyped == Slow = {} => (Spec => []TypeOK)
<1> SUFFICES ASSUME Slow = {} PROVE Spec => []TypeOK
  OBVIOUS
<1>1. Init => Shared /\ JobsCounted
  <2>1. ASSUME Init PROVE JobsCounted
    <3>1. Cardinality(Projects) \in Nat
      BY FS_CardinalityType, UpdatesAssumption
    <3>2. generation = 0 /\ head = 0 /\ DOMAIN update = {} /\ Len(job) = 0
      BY <2>1 DEF Init, None
    <3>3. 0 * Cardinality(Projects) = 0
      BY <3>1
    <3> QED BY <3>2, <3>3, UpdatesAssumption DEF JobsCounted
  <2> QED BY <2>1, InitShared
<1>2. (Shared /\ JobsCounted) /\ [Next]_vars => (Shared /\ JobsCounted)'
  BY StepKeepsShared, StepKeepsCounts
<1> QED BY <1>1, <1>2, CountedIsTyped, PTL DEF Spec
-----------------------------------------------------------------------------
(* Updates and bindings, whichever requests are overtaken.                 *)

\* A request between two calls, however old its copy of the project is.
CallWell(j) ==
  LET row == job[j] IN
  /\ row.client \in Clients /\ row.project = ProjectOf[row.client]
  /\ row.status = "asked" =>
       /\ row.update = None /\ row.follow = "no" /\ row.seen.stage \in {"working", "done"}
       /\ row.role = "waiter" => row.overlay = None
  /\ row.follow \notin {"absent", "deleted"}
CallsWell == \A j \in Midway : CallWell(j)

\* A job of an update is not one of an overlay.
Apart ==
  \A j \in DOMAIN job : job[j].status \in InQueue /\ job[j].update # None =>
    job[j].overlay = None /\ job[j].role \in {"leader", "waiter", "background"}

\* A request of a project that nobody overtakes is alone and its copy is current.
CurrentCopy(j) ==
  LET row == job[j] IN
  /\ row.status = "asked" =>
       row.seen.key = project[row.project].key /\ (row.role = "reuse" => row.overlay = head)
  /\ row.follow # "no" => row.seen.key \in {None, head}
OthersMidway == {j \in Midway : job[j].project \in Others}
OthersCurrent == \A j \in OthersMidway : CurrentCopy(j) /\ \A i \in OthersMidway : i = j

Bound(p) == project[p].key \in {None, head} /\ (~Exists(p) => project[p].key = None)
OthersBound == \A p \in Others : Bound(p)

Overtaken == Ledgers /\ CallsWell /\ Apart /\ UpdatesLed /\ OthersCurrent /\ OthersBound

\* What a step may do to the row of a job.
Carried(i) ==
  /\ i \in DOMAIN job' /\ job'[i].project = job[i].project /\ job'[i].client = job[i].client
  /\ job'[i].follow \in {job[i].follow, "no"}
  /\ job'[i].status = "asked" =>
       /\ job[i].status = "asked" /\ job'[i].update = job[i].update /\ job'[i].follow = job[i].follow
       /\ job'[i].seen = job[i].seen /\ job'[i].role = job[i].role /\ job'[i].overlay = job[i].overlay
  /\ job'[i].status \in InQueue /\ job'[i].update # None =>
       /\ job[i].status \in InQueue /\ job'[i].update = job[i].update /\ job'[i].overlay = job[i].overlay
       /\ job'[i].role \in {job[i].role, "leader"}
Fresh(i) ==
  /\ job'[i].status # "asked" /\ job'[i].follow = "no"
  /\ job'[i].update = None \/ (job'[i].overlay = None /\ job'[i].role = "background")

LEMMA RowsCarried ==
  ASSUME CallsWell, Apart, \A i \in DOMAIN job : Carried(i), \A i \in DOMAIN job' \ DOMAIN job : Fresh(i)
  PROVE  CallsWell' /\ Apart' /\ OthersMidway' \subseteq OthersMidway
<1>1. ASSUME NEW i \in Midway' PROVE i \in Midway /\ job'[i].project = job[i].project /\ CallWell(i)'
  <2>1. i \in DOMAIN job' /\ (job'[i].status = "asked" \/ job'[i].follow # "no")
    BY DEF Midway
  <2>2. i \in DOMAIN job
    BY <2>1 DEF Fresh
  <2>3. Carried(i)
    BY <2>2
  <2>4. i \in Midway
    BY <2>1, <2>2, <2>3 DEF Carried, Midway
  <2>5. CallWell(i)
    BY <2>4 DEF CallsWell
  <2> QED BY <2>1, <2>3, <2>4, <2>5 DEF Carried, CallWell
<1>2. Apart'
  <2> SUFFICES ASSUME NEW i \in DOMAIN job', job'[i].status \in InQueue, job'[i].update # None
               PROVE  job'[i].overlay = None /\ job'[i].role \in {"leader", "waiter", "background"}
    BY DEF Apart
  <2>1. CASE i \in DOMAIN job
    BY <2>1 DEF Carried, Apart
  <2>2. CASE i \notin DOMAIN job
    BY <2>2 DEF Fresh
  <2> QED BY <2>1, <2>2
<1> QED BY <1>1, <1>2 DEF CallsWell, OthersMidway

\* A step that leaves the projects and the jobs of the updates that go on as they are.
LEMMA LedKept ==
  ASSUME Tables, UpdatesLed, Len(update') = Len(update), DOMAIN update' = DOMAIN update,
         \A u \in DOMAIN update : update'[u].status = "active" =>
           /\ update[u].status = "active" /\ update'[u].leader = update[u].leader
           /\ update'[u].joined = update[u].joined,
         \A i \in DOMAIN job : job[i].status \in InQueue /\ job[i].update \in DOMAIN update
             /\ update'[job[i].update].status = "active" =>
           /\ i \in DOMAIN job' /\ job'[i].status \in InQueue /\ job'[i].update = job[i].update
           /\ job'[i].role = job[i].role /\ job'[i].project = job[i].project,
         \A p \in Projects : Exists(p) => Exists(p)'
  PROVE  UpdatesLed'
<1> SUFFICES ASSUME NEW u \in DOMAIN update, update'[u].status = "active"
             PROVE  /\ u = Len(update')
                    /\ \A p \in ToSet(update'[u].joined) : Exists(p)' /\ JobsIn(p, u)' # {}
                    /\ \E j \in DOMAIN job' : Leads(j, u)'
  BY DEF UpdatesLed, ActiveUpdates
<1>1. /\ u \in ActiveUpdates /\ update'[u].leader = update[u].leader /\ update'[u].joined = update[u].joined
      /\ update[u].joined \in Seq(Projects)
  BY UpdateType DEF ActiveUpdates, Tables
<1>2. ASSUME NEW p \in ToSet(update'[u].joined) PROVE Exists(p)' /\ JobsIn(p, u)' # {}
  <2>1. p \in Projects /\ Exists(p) /\ JobsIn(p, u) # {}
    BY <1>1, <1>2 DEF UpdatesLed, ToSet
  <2>2. PICK i \in DOMAIN job : job[i].project = p /\ job[i].update = u /\ job[i].status \in InQueue
    BY <2>1 DEF JobsIn, Active
  <2>3. i \in JobsIn(p, u)'
    BY <2>2 DEF JobsIn, Active
  <2> QED BY <2>1, <2>3
<1>3. PICK j \in DOMAIN job : Leads(j, u)
  BY <1>1 DEF UpdatesLed
<1>4. j \in DOMAIN job' /\ Leads(j, u)'
  BY <1>1, <1>3 DEF Leads, Active
<1> QED BY <1>1, <1>2, <1>4 DEF UpdatesLed

\* The first job of an update.
LEMMA OneMoreLed ==
  ASSUME NEW p, NEW budget, OneUpdateMore(p, budget), NEW j \in DOMAIN job',
         job'[j].status \in InQueue, job'[j].role \in {"leader", "background"},
         job'[j].update = Len(update) + 1, job'[j].project = p, Exists(p)'
  PROVE  UpdatesLed'
<1>0. PICK n : n = Len(update) + 1
  OBVIOUS
<1>1. /\ ActiveUpdates' = {n} /\ Len(update') = n /\ update'[n].leader = p
      /\ ToSet(update'[n].joined) = {p}
  BY <1>0 DEF OneUpdateMore, ActiveUpdates
<1>2. job'[j].update = n /\ update'[n].leader = p
  BY <1>0, <1>1
<1>3. j \in JobsIn(p, n)'
  BY <1>2 DEF JobsIn, Active
<1>4. Leads(j, n)'
  BY <1>2 DEF Leads, Active
<1>5. \A q \in ToSet(update'[n].joined) : Exists(q)' /\ JobsIn(q, n)' # {}
  BY <1>1, <1>3
<1> QED BY <1>1, <1>4, <1>5 DEF UpdatesLed

\* One more project joins the active update.
LEMMA JoinLed ==
  ASSUME Tables, UpdatesLed, NEW j, OnlyRow(j), job[j].status = "asked", NEW v \in ActiveUpdates,
         NEW p \in Projects, p = job[j].project,
         OneJoins(v, p), job'[j].status \in InQueue, job'[j].update \in ActiveUpdates,
         Exists(p)', \A q \in Projects : Exists(q) => Exists(q)'
  PROVE  UpdatesLed'
<1>1. /\ v \in DOMAIN update /\ update[v].status = "active" /\ v = Len(update)
      /\ job'[j].update = v /\ Len(update') = Len(update) /\ DOMAIN update' = DOMAIN update
      /\ \A u \in DOMAIN update : update[u].status = "active" => u = v
      /\ update[v].joined \in Seq(Projects)
  BY UpdateType DEF UpdatesLed, ActiveUpdates, OneJoins, Tables
<1>2. /\ ActiveUpdates' = {v} /\ ToSet(update'[v].joined) = ToSet(update[v].joined) \cup {p}
      /\ update'[v].leader = update[v].leader
  BY <1>1 DEF OneJoins, ActiveUpdates
<1>3. \A i \in DOMAIN job : job[i].status \in InQueue => i # j /\ i \in DOMAIN job' /\ job'[i] = job[i]
  BY DEF OnlyRow, InQueue
<1>4. ASSUME NEW q \in ToSet(update[v].joined) \cup {p} PROVE Exists(q)' /\ JobsIn(q, v)' # {}
  <2>1. CASE q = p
    <3>1. j \in JobsIn(p, v)'
      BY <1>1 DEF JobsIn, Active, OnlyRow
    <3> QED BY <2>1, <3>1
  <2>2. CASE q # p
    <3>1. q \in Projects /\ Exists(q) /\ JobsIn(q, v) # {}
      BY <1>1, <1>4, <2>2 DEF UpdatesLed, ToSet, ActiveUpdates
    <3>2. PICK i \in DOMAIN job : job[i].project = q /\ job[i].update = v /\ job[i].status \in InQueue
      BY <3>1 DEF JobsIn, Active
    <3>3. i \in JobsIn(q, v)'
      BY <1>3, <3>2 DEF JobsIn, Active
    <3> QED BY <3>1, <3>3
  <2> QED BY <2>1, <2>2
<1>5. PICK i \in DOMAIN job : Leads(i, v)
  BY <1>1 DEF UpdatesLed, ActiveUpdates
<1>6. i \in DOMAIN job' /\ Leads(i, v)'
  BY <1>2, <1>3, <1>5 DEF Leads, Active
<1> QED BY <1>1, <1>2, <1>4, <1>6 DEF UpdatesLed

\* deleteProject(): an update that goes on has a leader among those who remain.
LEMMA DeleteLed ==
  ASSUME Ledgers, UpdatesLed, Apart, NEW p \in Projects, Delete(p)
  PROVE  UpdatesLed'
<1>0. Tables
  BY DEF Ledgers
<1>1. /\ project' = [project EXCEPT ![p] = [stage |-> "deleted", key |-> None]]
      /\ DOMAIN job' = DOMAIN job /\ DOMAIN update' = DOMAIN update /\ Len(update') = Len(update)
      /\ \A i \in DOMAIN job : JobWithout(i, p)
      /\ \A u \in DOMAIN update : UpdateWithout(u, p)
  BY <1>0, DeleteEffect
<1> SUFFICES ASSUME NEW u \in DOMAIN update, update'[u].status = "active"
             PROVE  /\ u = Len(update')
                    /\ \A q \in ToSet(update'[u].joined) : Exists(q)' /\ JobsIn(q, u)' # {}
                    /\ \E j \in DOMAIN job' : Leads(j, u)'
  BY <1>1 DEF UpdatesLed, ActiveUpdates
<1>2. UpdateWithout(u, p)
  BY <1>1
<1>3. /\ u \in ActiveUpdates /\ u # None /\ update[u].joined \in Seq(Projects)
      /\ ToSet(update'[u].joined) = Rest(u, p)
      /\ update[u].leader # p => update'[u].leader = update[u].leader
      /\ update[u].leader = p => /\ update'[u].leader = Replacement(u, p)[1]
                                 /\ Replacement(u, p) # <<>> /\ Replacement(u, p)[1] \in Rest(u, p)
  <2>1. update[u].status = "active"
    BY <1>2 DEF UpdateWithout
  <2>2. u # None /\ update[u].joined \in Seq(Projects)
    BY <1>0, UpdateType DEF Tables, None
  <2> QED BY <1>2, <2>1, <2>2 DEF UpdateWithout, ActiveUpdates
<1>4. ASSUME NEW i \in DOMAIN job, job[i].status \in InQueue, job[i].project # p
      PROVE  /\ job'[i].status = job[i].status /\ job'[i].update = job[i].update
             /\ job'[i].project = job[i].project
             /\ job'[i].role = IF i \in Promoted(p) THEN "leader" ELSE job[i].role
  BY <1>1, <1>4 DEF JobWithout
<1>5. ASSUME NEW q \in Rest(u, p)
      PROVE  /\ q # p /\ q \in Projects /\ Exists(q)
             /\ \E i \in DOMAIN job : job[i].project = q /\ job[i].update = u /\ job[i].status \in InQueue
  <2>1. q \in ToSet(update[u].joined) /\ q # p /\ Exists(q) /\ q \in Projects
    BY <1>3 DEF Rest, ToSet
  <2> QED BY <1>3, <2>1 DEF UpdatesLed, JobsIn, Active
<1>6. ASSUME NEW q \in Rest(u, p) PROVE Exists(q)' /\ JobsIn(q, u)' # {}
  <2>1. PICK i \in DOMAIN job : job[i].project = q /\ job[i].update = u /\ job[i].status \in InQueue
    BY <1>5
  <2>2. i \in JobsIn(q, u)'
    BY <1>1, <1>4, <1>5, <2>1 DEF JobsIn, Active
  <2>3. project'[q] = project[q]
    BY <1>0, <1>1, <1>5 DEF Tables
  <2> QED BY <1>5, <2>2, <2>3 DEF Exists
<1>7. \E j \in DOMAIN job' : Leads(j, u)'
  <2>1. CASE update[u].leader # p
    <3>1. PICK j \in DOMAIN job : Leads(j, u)
      BY <1>3 DEF UpdatesLed
    <3>2. job[j].status \in InQueue /\ job[j].role # "waiter" /\ job[j].update = u /\ job[j].project # p
      BY <2>1, <3>1 DEF Leads, Active
    <3>3. j \notin Promoted(p)
      BY <3>2 DEF Promoted
    <3>4. Leads(j, u)'
      BY <1>3, <1>4, <2>1, <3>1, <3>2, <3>3 DEF Leads, Active
    <3> QED BY <1>1, <3>4
  <2>2. CASE update[u].leader = p
    <3> DEFINE r == Replacement(u, p)[1]

    <3>1. r \in Rest(u, p) /\ Replacement(u, p) # <<>> /\ update'[u].leader = r
      BY <1>3, <2>2
    <3> HIDE DEF r
    <3>2. r # p
      BY <1>5, <3>1
    <3>3. CASE \E i \in JobsIn(r, u) : job[i].role # "waiter"
      <4>1. PICK i \in DOMAIN job : /\ job[i].project = r /\ job[i].update = u /\ job[i].status \in InQueue
                                    /\ job[i].role # "waiter"
        BY <3>3 DEF JobsIn, Active
      <4>2. job[i].role \in {"leader", "background"}
        BY <1>3, <4>1 DEF Apart
      <4>3. Leads(i, u)'
        BY <1>4, <3>1, <3>2, <4>1, <4>2 DEF Leads, Active
      <4> QED BY <1>1, <4>1, <4>3
    <3>4. CASE \A i \in JobsIn(r, u) : job[i].role = "waiter"
      <4>1. JobsIn(r, u) # {} /\ JobsIn(r, u) \in SUBSET Nat
        <5>1. DOMAIN job \subseteq Nat
          BY <1>0 DEF Tables
        <5>2. \E i \in DOMAIN job : job[i].project = r /\ job[i].update = u /\ job[i].status \in InQueue
          BY <1>5, <3>1
        <5> QED BY <5>1, <5>2 DEF JobsIn, Active
      <4>2. PICK h \in JobsIn(r, u) : \A i \in JobsIn(r, u) : h <= i
        BY <4>1, SmallestMember
      <4>3. /\ h \in DOMAIN job /\ job[h].project = r /\ job[h].update = u /\ job[h].status \in InQueue
            /\ job[h].role = "waiter"
        BY <3>4, <4>2 DEF JobsIn, Active
      <4>4. h \in Promoted(p)
        BY <1>3, <2>2, <3>1, <4>2, <4>3 DEF Promoted, Active, r
      <4>5. Leads(h, u)'
        BY <1>4, <3>1, <3>2, <4>3, <4>4 DEF Leads, Active
      <4> QED BY <1>1, <4>3, <4>5
    <3> QED BY <3>3, <3>4
  <2> QED BY <2>1, <2>2
<1> QED BY <1>1, <1>3, <1>6, <1>7 DEF UpdatesLed

-----------------------------------------------------------------------------
(* Requests, whichever are overtaken.                                      *)

\* Who acts while a request of the others is between two calls is its own client.
LEMMA OnlyItsClient ==
  ASSUME CallsWell, NEW S, Undisturbed(S), NEW i \in OthersMidway
  PROVE  job[i].client \in S
<1>1. i \in Midway /\ job[i].project \in Others /\ CallWell(i)
  BY DEF OthersMidway, CallsWell
<1>2. job[i].client \notin Slow
  BY <1>1 DEF CallWell, Others
<1> QED BY <1>1, <1>2 DEF Undisturbed

LEMMA BoundKept ==
  ASSUME OthersBound, head' = head,
         \A p \in Projects : project'[p].key = project[p].key /\ (Exists(p) => Exists(p)')
  PROVE  OthersBound'
BY DEF OthersBound, Bound, Others

LEMMA AskKeepsOvertaken ==
  ASSUME Overtaken, NEW c \in Clients, NEW reuse \in BOOLEAN, Ask(c, reuse)
  PROVE  Overtaken'
<1>n. PICK n : n = Len(job) + 1
  OBVIOUS
<1>r. PICK row : row = job'[n]
  OBVIOUS
<1> DEFINE p == ProjectOf[c]
<1>0. Ledgers'
  BY MoreKeepsLedgers DEF Overtaken
<1>1. /\ UNCHANGED <<project, update, head>> /\ job' = Append(job, row) /\ row \in Job
      /\ row.project = p /\ row.client = c /\ row.status = "asked"
      /\ row.role = IF reuse THEN "reuse" ELSE "waiter"
      /\ row.update = None /\ row.follow = "no"
      /\ row.seen = Copied(p) /\ row.overlay = (IF reuse THEN head ELSE None)
  BY <1>n, <1>r, AskEffect DEF Overtaken, Ledgers
<1>2. OthersMidway = {}
  <2> SUFFICES ASSUME NEW i \in OthersMidway PROVE FALSE
    OBVIOUS
  <2>1. job[i].client \in {c}
    BY OnlyItsClient DEF Ask, Overtaken
  <2> QED BY <2>1 DEF Ask, OthersMidway
<1>3. /\ n \in DOMAIN job' /\ \A i \in DOMAIN job' : i \in DOMAIN job \/ i = n
      /\ \A i \in DOMAIN job : i \in DOMAIN job' /\ job'[i] = job[i] /\ i # n
  BY <1>1, <1>n, <1>r, AppendedRow DEF Overtaken, Ledgers, Tables
<1>4. p \in Projects /\ project[p] \in ProjectRow
  BY UpdatesAssumption DEF Overtaken, Ledgers, Tables
<1>5. row.seen.key = project[p].key /\ row.seen.stage \in {"working", "done"}
  BY <1>1, <1>4 DEF Copied, Readable, ProjectRow
<1> HIDE DEF p
<1>6. CallsWell'
  <2> SUFFICES ASSUME NEW i \in Midway' PROVE CallWell(i)'
    BY DEF CallsWell
  <2>1. CASE i \in DOMAIN job
    BY <1>3, <2>1 DEF Overtaken, CallsWell, CallWell, Midway
  <2>2. CASE i = n
    BY <1>1, <1>5, <2>2, <1>r DEF CallWell, p
  <2> QED BY <1>3, <2>1, <2>2 DEF Midway
<1>7. Apart'
  BY <1>1, <1>3, <1>r DEF Overtaken, Apart, InQueue
<1>8. UpdatesLed'
  <2>1. \A q \in Projects : Exists(q) => Exists(q)'
    BY <1>1 DEF Exists
  <2> QED BY <1>1, <1>3, <2>1, LedKept DEF Overtaken, Ledgers
<1>9. OthersCurrent'
  <2>1. OthersMidway' \subseteq {n}
    BY <1>2, <1>3 DEF OthersMidway, Midway
  <2>2. CurrentCopy(n)'
    BY <1>1, <1>5, <1>r DEF CurrentCopy, p
  <2> QED BY <2>1, <2>2 DEF OthersCurrent
<1>10. OthersBound'
  BY <1>1, BoundKept DEF Overtaken, Exists
<1> QED BY <1>0, <1>6, <1>7, <1>8, <1>9, <1>10 DEF Overtaken

\* The next call of a request, or its end.
LEMMA CallKeepsRequests ==
  ASSUME Overtaken, NEW j \in Midway, OnlyRow(j), Undisturbed({job[j].client}), head' = head,
         NEW p, p = job[j].project,
         \A q \in Projects \ {p} : project'[q] = project[q],
         job'[j].status # "asked",
         job'[j].follow \notin {"absent", "deleted"},
         job'[j].status \in InQueue /\ job'[j].update # None =>
           job'[j].overlay = None /\ job'[j].role \in {"leader", "waiter", "background"},
         p \in Others => Bound(p)' /\ (job'[j].follow # "no" => job'[j].seen.key \in {None, head})
  PROVE  CallsWell' /\ Apart' /\ OthersCurrent' /\ OthersBound'
<1>1. /\ j \in DOMAIN job /\ DOMAIN job' = DOMAIN job /\ \A i \in DOMAIN job : i = j \/ job'[i] = job[i]
      /\ job'[j].project = job[j].project /\ job'[j].client = job[j].client
  BY DEF OnlyRow
<1>2. ASSUME NEW i \in Midway' PROVE i \in Midway /\ CallWell(i)'
  <2>1. i \in DOMAIN job
    BY <1>1 DEF Midway
  <2>2. CASE i = j
    BY <1>1, <2>2 DEF Overtaken, CallsWell, CallWell
  <2>3. CASE i # j
    <3>1. job'[i] = job[i]
      BY <1>1, <2>1, <2>3
    <3>2. i \in Midway
      BY <2>1, <3>1 DEF Midway
    <3> QED BY <3>1, <3>2 DEF Overtaken, CallsWell, CallWell
  <2> QED BY <2>2, <2>3
<1>3. Apart'
  BY <1>1 DEF Overtaken, Apart
<1>4. OthersMidway' \subseteq {j}
  <2> SUFFICES ASSUME NEW i \in OthersMidway', i # j PROVE FALSE
    OBVIOUS
  <2>1. i \in Midway /\ job'[i] = job[i]
    BY <1>1, <1>2 DEF OthersMidway, Midway
  <2>2. i \in OthersMidway
    BY <2>1 DEF OthersMidway, Others
  <2>3. job[i].client = job[j].client
    BY <2>2, OnlyItsClient DEF Overtaken
  <2>4. job[i].project = job[j].project
    BY <2>1, <2>3 DEF Overtaken, CallsWell, CallWell
  <2>5. j \in OthersMidway
    BY <2>2, <2>4 DEF OthersMidway
  <2> QED BY <2>2, <2>5 DEF Overtaken, OthersCurrent
<1>5. OthersCurrent'
  <2>1. ASSUME NEW i \in OthersMidway' PROVE CurrentCopy(i)'
    <3>1. i = j
      BY <1>4
    <3>2. p \in Others
      BY <1>1, <3>1 DEF OthersMidway, Others
    <3> QED BY <3>1, <3>2 DEF CurrentCopy
  <2> QED BY <1>4, <2>1 DEF OthersCurrent
<1>6. OthersBound'
  <2> SUFFICES ASSUME NEW q \in Others, q # p PROVE Bound(q)'
    BY DEF OthersBound, Others
  <2>1. Bound(q) /\ project'[q] = project[q]
    BY DEF Overtaken, OthersBound, Others
  <2> QED BY <2>1 DEF Bound, Exists
<1> QED BY <1>2, <1>3, <1>5, <1>6 DEF CallsWell

\* A request of the others has a current copy.
LEMMA CurrentCall ==
  ASSUME Overtaken, NEW j \in Midway
  PROVE  /\ CallWell(j) /\ job[j].project \in Projects
         /\ job[j].project \in Others => CurrentCopy(j) /\ Bound(job[j].project)
<1>1. job[j].project \in Projects
  BY RowType DEF Overtaken, Ledgers, Tables, Midway
<1> QED BY <1>1 DEF Overtaken, CallsWell, OthersCurrent, OthersMidway, OthersBound

LEMMA CallGuards ==
  ASSUME NEW j, Refuse(j) \/ Join(j) \/ Reuse(j) \/ Follow(j)
  PROVE  Undisturbed({job[j].client}) /\ j \in Midway
BY DEF Refuse, Join, Reuse, Follow, Asked, Midway

LEMMA RefuseKeepsOvertaken ==
  ASSUME Overtaken, NEW j \in JobIds, Refuse(j)
  PROVE  Overtaken'
<1>0. Ledgers'
  BY RequestsKeepLedgers DEF Overtaken
<1>1. /\ UNCHANGED <<project, update, head>> /\ OnlyRow(j) /\ job[j].status = "asked"
      /\ job'[j] = [job[j] EXCEPT !.status = "dropped"] /\ job[j] \in Job
      /\ Undisturbed({job[j].client}) /\ j \in Midway
  <2>1. Undisturbed({job[j].client}) /\ j \in Midway
    BY CallGuards
  <2> QED BY <2>1, RefuseEffect DEF Overtaken, Ledgers, Tables, OnlyRow
<1>2. job'[j].status = "dropped" /\ job'[j].follow = job[j].follow
  BY <1>1 DEF Job
<1>3. /\ CallWell(j) /\ job[j].project \in Projects
      /\ job[j].project \in Others => Bound(job[j].project)
  BY <1>1, CurrentCall
<1>4. job'[j].follow = "no" /\ job'[j].status \notin InQueue /\ job'[j].status # "asked"
  BY <1>1, <1>2, <1>3 DEF CallWell, InQueue
<1>6. CallsWell' /\ Apart' /\ OthersCurrent' /\ OthersBound'
  <2>1. PICK p : p = job[j].project
    OBVIOUS
  <2>2. /\ \A q \in Projects \ {p} : project'[q] = project[q]
        /\ p \in Others => Bound(p)'
    BY <1>1, <1>3, <2>1 DEF Bound, Exists
  <2> QED BY <1>1, <1>4, <2>1, <2>2, CallKeepsRequests
<1>7. UpdatesLed'
  <2>1. \A i \in DOMAIN job : job[i].status \in InQueue => i \in DOMAIN job' /\ job'[i] = job[i]
    BY <1>1 DEF OnlyRow, InQueue
  <2>2. \A q \in Projects : Exists(q) => Exists(q)'
    BY <1>1 DEF Exists
  <2> QED BY <1>1, <2>1, <2>2, LedKept DEF Overtaken, Ledgers
<1> QED BY <1>0, <1>6, <1>7 DEF Overtaken

LEMMA FollowKeepsOvertaken ==
  ASSUME Overtaken, NEW j \in JobIds, Follow(j)
  PROVE  Overtaken'
<1>p. PICK p : p = job[j].project
  OBVIOUS
<1>0. Ledgers'
  BY RequestsKeepLedgers DEF Overtaken
<1>1. /\ UNCHANGED <<update, head>> /\ OnlyRow(j) /\ job[j].follow # "no"
      /\ job'[j] = [job[j] EXCEPT !.follow = "no"] /\ job[j] \in Job
      /\ project' = [project EXCEPT ![p] = [stage |-> job[j].follow, key |-> job[j].seen.key]]
      /\ Undisturbed({job[j].client}) /\ j \in Midway
  <2>1. Undisturbed({job[j].client}) /\ j \in Midway
    BY CallGuards
  <2> QED BY <1>p, <2>1, FollowEffect DEF Overtaken, Ledgers, Tables, OnlyRow
<1>2. /\ job'[j].status = job[j].status /\ job'[j].follow = "no" /\ job'[j].update = job[j].update
      /\ job'[j].overlay = job[j].overlay /\ job'[j].role = job[j].role /\ job'[j].project = job[j].project
  BY <1>1 DEF Job
<1>3. /\ CallWell(j) /\ p \in Projects
      /\ p \in Others => CurrentCopy(j) /\ Bound(p)
  BY <1>1, <1>p, CurrentCall
<1>4. /\ project'[p].stage = job[j].follow /\ project'[p].key = job[j].seen.key
      /\ \A q \in Projects \ {p} : project'[q] = project[q]
  BY <1>1, <1>3 DEF Overtaken, Ledgers, Tables
<1>5. Exists(p)' /\ job'[j].status # "asked"
  BY <1>1, <1>2, <1>3, <1>4 DEF CallWell, Exists
<1>6. p \in Others => Bound(p)'
  BY <1>1, <1>3, <1>4, <1>5 DEF Bound, CurrentCopy
<1>7. job'[j].status \in InQueue /\ job'[j].update # None =>
           job'[j].overlay = None /\ job'[j].role \in {"leader", "waiter", "background"}
  BY <1>1, <1>2 DEF Overtaken, Apart, OnlyRow
<1>8. CallsWell' /\ Apart' /\ OthersCurrent' /\ OthersBound'
  BY <1>1, <1>2, <1>4, <1>5, <1>6, <1>7, <1>p, CallKeepsRequests
<1>9. UpdatesLed'
  <2>1. \A i \in DOMAIN job : /\ i \in DOMAIN job' /\ job'[i].status = job[i].status
                              /\ job'[i].update = job[i].update /\ job'[i].role = job[i].role
                              /\ job'[i].project = job[i].project
    BY <1>1, <1>2 DEF OnlyRow
  <2>2. \A q \in Projects : Exists(q) => Exists(q)'
    BY <1>4, <1>5 DEF Exists
  <2> QED BY <1>1, <2>1, <2>2, LedKept DEF Overtaken, Ledgers
<1> QED BY <1>0, <1>8, <1>9 DEF Overtaken

LEMMA ReuseKeepsOvertaken ==
  ASSUME Overtaken, NEW j \in JobIds, Reuse(j)
  PROVE  Overtaken'
<1>p. PICK p : p = job[j].project
  OBVIOUS
<1>k. PICK k : k = job[j].overlay
  OBVIOUS
<1>0. Ledgers'
  BY RequestsKeepLedgers DEF Overtaken
<1>1. /\ UNCHANGED <<update, head>> /\ OnlyRow(j) /\ job[j].status = "asked" /\ job[j].role = "reuse"
      /\ job'[j].update = job[j].update
      /\ \/ /\ job'[j].status = "succeeded" /\ job'[j].seen.key = k
            /\ \/ project' = project /\ job'[j].follow = "done" /\ project[p].stage # "absent"
               \/ /\ project' = [project EXCEPT ![p] = [stage |-> "done", key |-> k]]
                  /\ job'[j].follow = "no"
         \/ /\ job'[j].status = "queued" /\ job'[j].follow = job[j].follow
            /\ project' = [project EXCEPT ![p] = [stage |-> "working", key |-> k]]
      /\ Undisturbed({job[j].client}) /\ j \in Midway /\ Admissible(p, job[j].seen)
  BY <1>p, <1>k, ReuseEffect, CallGuards DEF Overtaken, Ledgers, OnlyRow
<1>2. /\ CallWell(j) /\ p \in Projects
      /\ p \in Others => CurrentCopy(j) /\ Bound(p)
  BY <1>1, <1>p, CurrentCall
<1>3. /\ job'[j].update = None /\ job'[j].status # "asked" /\ job'[j].follow \in {"done", "no"}
      /\ job'[j].follow # "no" => job'[j].seen.key = k
      /\ p \in Others => k = head
  BY <1>1, <1>2, <1>p, <1>k DEF CallWell, CurrentCopy
<1>4. /\ \A q \in Projects \ {p} : project'[q] = project[q]
      /\ \/ project'[p].key = k /\ project'[p].stage \in {"done", "working"}
         \/ project'[p] = project[p]
  BY <1>1, <1>2 DEF Overtaken, Ledgers, Tables
<1>5. Exists(p) => Exists(p)'
  BY <1>4 DEF Exists
<1>6. p \in Others => Bound(p)'
  BY <1>1, <1>2, <1>3, <1>4 DEF Bound, Exists
<1>7. CallsWell' /\ Apart' /\ OthersCurrent' /\ OthersBound'
  BY <1>1, <1>3, <1>4, <1>6, <1>p, CallKeepsRequests
<1>8. UpdatesLed'
  <2>1. \A i \in DOMAIN job : job[i].status \in InQueue => i \in DOMAIN job' /\ job'[i] = job[i]
    BY <1>1 DEF OnlyRow, InQueue
  <2>2. \A q \in Projects : Exists(q) => Exists(q)'
    BY <1>4, <1>5 DEF Exists
  <2> QED BY <1>1, <2>1, <2>2, LedKept DEF Overtaken, Ledgers
<1> QED BY <1>0, <1>7, <1>8 DEF Overtaken

LEMMA JoinKeepsOvertaken ==
  ASSUME Overtaken, NEW j \in JobIds, Join(j)
  PROVE  Overtaken'
<1>p. PICK p : p = job[j].project
  OBVIOUS
<1>0. Ledgers' /\ Tables
  BY RequestsKeepLedgers DEF Overtaken, Ledgers
<1>1. /\ head' = head /\ OnlyRow(j) /\ job[j].status = "asked" /\ job[j].role = "waiter" /\ p \in Projects
      /\ project' = [project EXCEPT ![p] = job[j].seen]
      /\ job'[j].status = "queued" /\ job'[j].seen = job[j].seen /\ job'[j].overlay = job[j].overlay
      /\ \/ OneUpdateMore(p, "none") /\ job'[j].role = "leader" /\ job'[j].update = Len(update) + 1
              /\ job'[j].follow = "no"
         \/ /\ \E v \in ActiveUpdates : OneJoins(v, p)
            /\ job'[j].role = "waiter" /\ job'[j].update \in ActiveUpdates
            /\ \/ job'[j].follow = "no"
               \/ job'[j].follow = project'[update'[job'[j].update].leader].stage
                    /\ update'[job'[j].update].leader \in ToSet(update'[job'[j].update].joined)
      /\ Undisturbed({job[j].client}) /\ j \in Midway
  <2>1. Undisturbed({job[j].client}) /\ j \in Midway
    BY CallGuards
  <2> QED BY <1>0, <1>p, <2>1, JoinEffect
<1>2. /\ CallWell(j)
      /\ p \in Others => CurrentCopy(j) /\ Bound(p)
  BY <1>1, <1>p, CurrentCall
<1>3. /\ project'[p] = job[j].seen /\ \A q \in Projects \ {p} : project'[q] = project[q]
  BY <1>0, <1>1 DEF Tables
<1>4. Exists(p)'
  BY <1>1, <1>2, <1>3 DEF CallWell, Exists
<1>5. \A q \in Projects : Exists(q) => Exists(q)'
  BY <1>3, <1>4 DEF Exists
<1>6. /\ job'[j].status \in InQueue /\ job'[j].status # "asked" /\ job'[j].project = p
      /\ job'[j].overlay = None /\ job'[j].role \in {"leader", "waiter", "background"}
  BY <1>1, <1>2, <1>p DEF CallWell, InQueue, OnlyRow
<1>7. UpdatesLed'
  <2>1. CASE OneUpdateMore(p, "none") /\ job'[j].role = "leader" /\ job'[j].update = Len(update) + 1
    <3>1. j \in DOMAIN job'
      BY <1>1 DEF OnlyRow
    <3> QED BY <1>4, <1>6, <2>1, <3>1, OneMoreLed
  <2>2. ASSUME NEW v \in ActiveUpdates, OneJoins(v, p), job'[j].update \in ActiveUpdates
        PROVE  UpdatesLed'
    BY <1>0, <1>1, <1>4, <1>5, <1>6, <2>2, <1>p, JoinLed DEF Overtaken
  <2> QED BY <1>1, <2>1, <2>2
<1>8. job'[j].follow \notin {"absent", "deleted"}
  <2> SUFFICES ASSUME job'[j].follow # "no" PROVE job'[j].follow \notin {"absent", "deleted"}
    OBVIOUS
  <2>0. PICK v : v = job'[j].update
    OBVIOUS
  <2>1. /\ job'[j].follow = project'[update'[v].leader].stage
        /\ update'[v].leader \in ToSet(update'[v].joined) /\ v \in ActiveUpdates
        /\ \E w \in ActiveUpdates : OneJoins(w, p)
    BY <1>1, <2>0
  <2>2. v \in ActiveUpdates'
    BY <2>1 DEF ActiveUpdates, OneJoins
  <2>3. PICK q : q = update'[v].leader
    OBVIOUS
  <2>4. Exists(q)'
    BY <1>7, <2>1, <2>2, <2>3 DEF UpdatesLed
  <2> QED BY <2>1, <2>3, <2>4 DEF Exists
<1>9. p \in Others => Bound(p)' /\ job'[j].seen.key \in {None, head}
  BY <1>1, <1>2, <1>3, <1>4, <1>p DEF Bound, CurrentCopy
<1>10. CallsWell' /\ Apart' /\ OthersCurrent' /\ OthersBound'
  BY <1>1, <1>3, <1>6, <1>8, <1>9, <1>p, CallKeepsRequests
<1> QED BY <1>0, <1>7, <1>10 DEF Overtaken

-----------------------------------------------------------------------------
(* Executions, the scheduler and deletions, whichever requests wait.       *)

\* They act when the others have no request between two calls, and leave none.
LEMMA StepKeepsRequests ==
  ASSUME Overtaken, Undisturbed({}), \A i \in DOMAIN job : Carried(i),
         \A i \in DOMAIN job' \ DOMAIN job : Fresh(i)
  PROVE  CallsWell' /\ Apart' /\ OthersCurrent'
<1>1. OthersMidway = {}
  BY OnlyItsClient DEF Overtaken
<1>2. CallsWell' /\ Apart' /\ OthersMidway' \subseteq OthersMidway
  BY RowsCarried DEF Overtaken
<1> QED BY <1>1, <1>2 DEF OthersCurrent

LEMMA BackgroundKeepsOvertaken ==
  ASSUME Overtaken, NEW p \in Projects, StartBackground(p)
  PROVE  Overtaken'
<1>0. Ledgers' /\ Tables /\ Undisturbed({})
  BY MoreKeepsLedgers DEF Overtaken, Ledgers, StartBackground
<1>n. PICK n : n = Len(job) + 1
  OBVIOUS
<1>1. /\ UNCHANGED <<project, head>> /\ job' = Append(job, job'[n]) /\ job'[n] \in Job
      /\ job'[n].project = p /\ job'[n].status = "queued" /\ job'[n].role = "background"
      /\ job'[n].update = Len(update) + 1 /\ job'[n].follow = "no" /\ job'[n].overlay = None
      /\ Exists(p) /\ OneUpdateMore(p, "reserved")
  BY <1>0, <1>n, BackgroundEffect
<1>2. PICK row : row = job'[n]
  OBVIOUS
<1>3. /\ n \in DOMAIN job' /\ \A i \in DOMAIN job' : i \in DOMAIN job \/ i = n
      /\ \A i \in DOMAIN job : i \in DOMAIN job' /\ job'[i] = job[i] /\ i # n
  BY <1>0, <1>1, <1>2, <1>n, AppendedRow DEF Tables
<1>4. \A i \in DOMAIN job : Carried(i)
  BY <1>3 DEF Carried
<1>5. \A i \in DOMAIN job' \ DOMAIN job : Fresh(i)
  BY <1>1, <1>3 DEF Fresh
<1>6. CallsWell' /\ Apart' /\ OthersCurrent'
  BY <1>0, <1>4, <1>5, StepKeepsRequests
<1>7. Exists(p)' /\ \A q \in Projects : Exists(q) => Exists(q)'
  BY <1>1 DEF Exists
<1>8. UpdatesLed'
  <2>1. job'[n].status \in InQueue
    BY <1>1 DEF InQueue
  <2> QED BY <1>1, <1>3, <1>7, <2>1, OneMoreLed
<1>9. OthersBound'
  BY <1>1, <1>7, BoundKept DEF Overtaken
<1> QED BY <1>0, <1>6, <1>8, <1>9 DEF Overtaken

\* A step of an execution that changes one row and stages of projects.
LEMMA RunKeepsOvertaken ==
  ASSUME Overtaken, NEW j \in JobIds, Claim(j) \/ Lapse(j) \/ Retry(j)
  PROVE  Overtaken'
<1>0. Ledgers' /\ Tables /\ Undisturbed({})
  BY ExecutionsKeepLedgers DEF Overtaken, Ledgers, Claim, Lapse, Retry, Executing
<1>1. /\ UNCHANGED <<update, head>> /\ OnlyRow(j) /\ job[j] \in Job
      /\ job[j].status \in InQueue /\ job'[j].status \in InQueue
      /\ job'[j].role = job[j].role /\ job'[j].update = job[j].update
      /\ job'[j].overlay = job[j].overlay /\ job'[j].follow = job[j].follow
  <2>1. CASE Claim(j)
    BY <1>0, <2>1, ClaimEffect DEF InQueue, OnlyRow, Tables
  <2>2. CASE Lapse(j) \/ Retry(j)
    <3>1. /\ UNCHANGED <<update, head>> /\ OnlyRow(j) /\ job[j].status = "running" /\ job[j] \in Job
          /\ \E status \in {"lapsed", "queued"} : job'[j] = [job[j] EXCEPT !.status = status]
      <4>1. /\ UNCHANGED <<update, head>> /\ OnlyRow(j) /\ job[j].status = "running"
            /\ \E status \in {"lapsed", "queued"} : job'[j] = [job[j] EXCEPT !.status = status]
        BY <1>0, <2>2, RestEffect
      <4>2. job[j] \in Job
        BY <1>0, <4>1 DEF OnlyRow, Tables
      <4> QED BY <4>1, <4>2
    <3> QED BY <3>1 DEF Job, InQueue
  <2> QED BY <2>1, <2>2
<1>2. \A q \in Projects : project'[q].key = project[q].key /\ (Exists(q) => Exists(q)')
  <2>1. CASE Claim(j)
    <3>1. PICK marked \in SUBSET Projects :
            project' = [q \in Projects |-> IF q \in marked THEN [project[q] EXCEPT !.stage = "working"]
                                           ELSE project[q]]
      BY <1>0, <2>1, ClaimEffect
    <3>2. \A q \in Projects : project[q] \in ProjectRow
      BY <1>0 DEF Tables
    <3>3. \A q \in Projects : project'[q].key = project[q].key /\ project'[q].stage \in {project[q].stage, "working"}
      BY <3>1, <3>2 DEF ProjectRow
    <3> QED BY <3>3 DEF Exists
  <2>2. CASE Lapse(j) \/ Retry(j)
    BY <1>0, <2>2, RestEffect DEF Exists
  <2> QED BY <2>1, <2>2
<1>3. DOMAIN job' = DOMAIN job /\ \A i \in DOMAIN job \ {j} : job'[i] = job[i]
  BY <1>1 DEF OnlyRow
<1>4. \A i \in DOMAIN job : Carried(i)
  <2>1. Carried(j)
    BY <1>1 DEF Carried, OnlyRow, InQueue
  <2>2. \A i \in DOMAIN job \ {j} : Carried(i)
    BY <1>3 DEF Carried
  <2> QED BY <2>1, <2>2
<1>5. CallsWell' /\ Apart' /\ OthersCurrent'
  BY <1>0, <1>3, <1>4, StepKeepsRequests
<1>6. UpdatesLed'
  <2>1. \A i \in DOMAIN job : job[i].status \in InQueue =>
           /\ i \in DOMAIN job' /\ job'[i].status \in InQueue /\ job'[i].update = job[i].update
           /\ job'[i].role = job[i].role /\ job'[i].project = job[i].project
    BY <1>1, <1>3 DEF OnlyRow
  <2> QED BY <1>0, <1>1, <1>2, <2>1, LedKept DEF Overtaken
<1>7. OthersBound'
  BY <1>1, <1>2, BoundKept DEF Overtaken
<1> QED BY <1>0, <1>5, <1>6, <1>7 DEF Overtaken

\* Rows that end or lapse are carried.
LEMMA EndedCarried ==
  ASSUME NEW S, NEW status \in {"succeeded", "failed"}, EndedRows(S, status)
  PROVE  \A i \in DOMAIN job : Carried(i)
BY DEF EndedRows, Carried, InQueue

LEMMA OverlayCarried ==
  ASSUME NEW S, NEW j, job[j].status = "running", NEW status \in {"succeeded", "failed"},
         OverlayRows(S, j, status)
  PROVE  \A i \in DOMAIN job : Carried(i)
BY DEF OverlayRows, Carried, InQueue

LEMMA FailKeepsOvertaken ==
  ASSUME Overtaken, NEW j \in JobIds, FailUpdate(j)
  PROVE  Overtaken'
<1> DEFINE S == {i \in DOMAIN job : Active(i) /\ job[i].update = job[j].update}
<1>0. Ledgers' /\ Tables /\ References /\ Undisturbed({})
  BY ExecutionsKeepLedgers DEF Overtaken, Ledgers, FailUpdate, Executing
<1>u. PICK u : u = job[j].update
  OBVIOUS
<1>1. /\ head' = head /\ OneEnds(u, "failed") /\ EndedRows(S, "failed")
      /\ project' = [p \in Projects |-> IF p \notin Joined(u) THEN project[p] ELSE
                       [project[p] EXCEPT !.stage = StageAfterFailure(p)]]
  BY <1>0, <1>u, FailUpdateEffect
<1>2. \A q \in Projects : project'[q].key = project[q].key /\ (Exists(q) => Exists(q)')
  <2>1. \A q \in Projects : project[q] \in ProjectRow /\ StageAfterFailure(q) \in {"done", "failed"}
    BY <1>0 DEF Tables, StageAfterFailure
  <2>2. \A q \in Projects : project'[q].key = project[q].key
                            /\ project'[q].stage \in {project[q].stage, "done", "failed"}
    BY <1>1, <2>1 DEF ProjectRow
  <2> QED BY <2>2 DEF Exists
<1>3. CallsWell' /\ Apart' /\ OthersCurrent'
  <2>1. DOMAIN job' = DOMAIN job
    BY <1>1 DEF EndedRows
  <2> QED BY <1>0, <1>1, <2>1, EndedCarried, StepKeepsRequests
<1>4. UpdatesLed'
  <2>1. \A v \in DOMAIN update : update'[v].status = "active" => v # u /\ update'[v] = update[v]
    BY <1>1 DEF OneEnds
  <2>2. Len(update') = Len(update) /\ DOMAIN update' = DOMAIN update
    BY <1>1 DEF OneEnds
  <2>3. \A i \in DOMAIN job : i \in DOMAIN job' /\ (job[i].update # u => job'[i] = job[i])
    BY <1>1, <1>u DEF EndedRows
  <2> QED BY <1>0, <1>2, <2>1, <2>2, <2>3, LedKept DEF Overtaken
<1>5. OthersBound'
  BY <1>1, <1>2, BoundKept DEF Overtaken
<1> QED BY <1>0, <1>3, <1>4, <1>5 DEF Overtaken

LEMMA OverlayKeepsOvertaken ==
  ASSUME Overtaken, NEW j \in JobIds, PublishOverlay(j) \/ FailOverlay(j)
  PROVE  Overtaken'
<1>0. Ledgers' /\ Tables /\ Undisturbed({})
  BY ExecutionsKeepLedgers DEF Overtaken, Ledgers, PublishOverlay, FailOverlay, Executing
<1> DEFINE k == job[j].seen.key
           S == OverlayJobs(k, LanguageOf[job[j].project])
<1>1. /\ j \in DOMAIN job /\ job[j].status = "running" /\ job[j].role = "overlay"
      /\ UNCHANGED <<update, head>>
      /\ \/ k # None /\ \E status \in {"succeeded", "failed"}, stage \in {"done", "failed"} :
              /\ OverlayRows(S, j, status)
              /\ project' = [p \in Projects |-> IF \E i \in S : job[i].project = p
                                                THEN [project[p] EXCEPT !.stage = stage] ELSE project[p]]
         \/ /\ k = None /\ EndedRows({j}, "failed")
            /\ project' = project \/ project' = [project EXCEPT ![job[j].project].stage = "failed"]
  BY <1>0, OverlayEffect
<1>2. \A q \in Projects : project[q] \in ProjectRow
  BY <1>0 DEF Tables
<1>3. /\ \A i \in DOMAIN job : Carried(i)
      /\ DOMAIN job' = DOMAIN job
      /\ \A i \in DOMAIN job : (k = None \/ i \notin S) /\ i # j => job'[i] = job[i]
      /\ \A q \in Projects : project'[q].key = project[q].key
                             /\ project'[q].stage \in {project[q].stage, "done", "failed"}
  <2>1. ASSUME k # None, NEW status \in {"succeeded", "failed"}, NEW stage \in {"done", "failed"},
               OverlayRows(S, j, status),
               project' = [p \in Projects |-> IF \E i \in S : job[i].project = p
                                              THEN [project[p] EXCEPT !.stage = stage] ELSE project[p]]
        PROVE  <1>3
    <3> HIDE DEF k, S
    <3>1. \A i \in DOMAIN job : Carried(i)
      BY <1>1, <2>1, OverlayCarried
    <3>2. /\ DOMAIN job' = DOMAIN job
          /\ \A i \in DOMAIN job : i \notin S /\ i # j => job'[i] = job[i]
      BY <2>1 DEF OverlayRows
    <3>3. \A q \in Projects : project'[q].key = project[q].key
                              /\ project'[q].stage \in {project[q].stage, "done", "failed"}
      BY <1>2, <2>1 DEF ProjectRow
    <3> QED BY <2>1, <3>1, <3>2, <3>3
  <2>2. ASSUME k = None, EndedRows({j}, "failed"),
               project' = project \/ project' = [project EXCEPT ![job[j].project].stage = "failed"]
        PROVE  <1>3
    <3> HIDE DEF k, S
    <3>1. \A i \in DOMAIN job : Carried(i)
      BY <2>2, EndedCarried
    <3>2. DOMAIN job' = DOMAIN job /\ \A i \in DOMAIN job : i # j => job'[i] = job[i]
      BY <2>2 DEF EndedRows
    <3>3. \A q \in Projects : project'[q].key = project[q].key
                              /\ project'[q].stage \in {project[q].stage, "done", "failed"}
      BY <1>0, <1>2, <2>2 DEF ProjectRow, Tables
    <3> QED BY <3>1, <3>2, <3>3
  <2> HIDE DEF k, S
  <2> QED BY <1>1, <2>1, <2>2
<1>4. \A q \in Projects : project'[q].key = project[q].key /\ (Exists(q) => Exists(q)')
  BY <1>3 DEF Exists
<1>5. CallsWell' /\ Apart' /\ OthersCurrent'
  BY <1>0, <1>3, StepKeepsRequests
<1>6. UpdatesLed'
  <2>1. ASSUME NEW i \in DOMAIN job, job[i].status \in InQueue, job[i].update \in DOMAIN update
        PROVE  job'[i] = job[i]
    <3>1. job[i].update # None
      BY <1>0, <2>1 DEF Tables, None
    <3>2. job[i].overlay = None /\ i # j
      BY <1>1, <2>1, <3>1 DEF Overtaken, Apart
    <3>3. k = None \/ i \notin S
      BY <3>2 DEF OverlayJobs
    <3> HIDE DEF k, S
    <3> QED BY <1>3, <3>2, <3>3
  <2>2. \A i \in DOMAIN job : i \in DOMAIN job'
    BY <1>3
  <2> HIDE DEF k, S
  <2> QED BY <1>0, <1>1, <1>4, <2>1, <2>2, LedKept DEF Overtaken
<1>7. OthersBound'
  BY <1>1, <1>4, BoundKept DEF Overtaken
<1> QED BY <1>0, <1>5, <1>6, <1>7 DEF Overtaken

LEMMA PublishKeepsOvertaken ==
  ASSUME Overtaken, NEW j \in JobIds, Publish(j)
  PROVE  Overtaken'
<1>0. Ledgers' /\ Tables /\ References /\ Undisturbed({})
  BY PublishKeepsLedgers DEF Overtaken, Ledgers, Publish, Executing
<1>u. PICK u : u = job[j].update
  OBVIOUS
<1>1. /\ j \in DOMAIN job /\ job[j].status = "running" /\ u # None /\ head' = u
      /\ OneEnds(u, "succeeded") /\ DOMAIN job \subseteq DOMAIN job'
      /\ \A i \in DOMAIN job : KeptRow(j, i)
      /\ \A i \in DOMAIN job' \ DOMAIN job : AddedRow(j, i)
      /\ project' = [p \in Projects |->
           IF p \in Affected(u) THEN [stage |-> IF p \in Waiting(j) THEN "working" ELSE "done", key |-> u]
           ELSE project[p]]
  BY <1>0, <1>u, PublishEffect
<1>2. \A i \in DOMAIN job' \ DOMAIN job : Fresh(i)
  BY <1>1 DEF AddedRow, Fresh
<1>3. ASSUME NEW i \in DOMAIN job
      PROVE  /\ Carried(i)
             /\ job[i].status \in InQueue /\ job[i].update # u =>
                  /\ job'[i].status \in InQueue /\ job'[i].update = job[i].update
                  /\ job'[i].role = job[i].role /\ job'[i].project = job[i].project
  <2> DEFINE represents == job[i].project \in Affected(u) /\ Represents(i, u)
  <2>1. /\ job'[i].project = job[i].project /\ job'[i].client = job[i].client
        /\ job'[i].follow = job[i].follow /\ job'[i].seen = job[i].seen
        /\ represents => \/ job'[i].status = "queued" /\ job'[i].update = None
                         \/ job'[i].status = "succeeded"
        /\ ~represents =>
             /\ job'[i].role = job[i].role /\ job'[i].update = job[i].update /\ job'[i].overlay = job[i].overlay
             /\ ((job[i].update # u \/ ~Active(i)) /\ i # j) => job'[i] = job[i]
             /\ job'[i].status \in {job[i].status, "succeeded", "lapsed"}
    BY <1>1, <1>u DEF KeptRow
  <2>2. represents => job[i].update = u /\ job[i].status \in InQueue
    BY DEF Represents, JobsIn, Active
  <2> HIDE DEF represents
  <2>3. i = j => job[i].update = u /\ job[i].status \in InQueue
    BY <1>1, <1>u DEF InQueue
  <2>4. ~(job[i].update = u /\ job[i].status \in InQueue) => job'[i] = job[i]
    BY <2>1, <2>2, <2>3 DEF Active
  <2>5. CASE job[i].update = u /\ job[i].status \in InQueue
    <3>1. i \in DOMAIN job' /\ job'[i].status # "asked"
      BY <1>1, <2>1, <2>5 DEF InQueue
    <3>2. job'[i].status \in InQueue /\ job'[i].update # None =>
            /\ job'[i].update = job[i].update /\ job'[i].overlay = job[i].overlay
            /\ job'[i].role = job[i].role
      BY <2>1 DEF InQueue
    <3> QED BY <2>1, <2>5, <3>1, <3>2 DEF Carried
  <2>6. CASE ~(job[i].update = u /\ job[i].status \in InQueue)
    BY <1>1, <2>4, <2>6 DEF Carried
  <2> QED BY <2>5, <2>6
<1>4. CallsWell' /\ Apart' /\ OthersCurrent'
  BY <1>0, <1>2, <1>3, StepKeepsRequests
<1>5. \A q \in Projects : Exists(q) => Exists(q)'
  <2>1. \A q \in Projects : project'[q] = project[q] \/ project'[q].stage \in {"working", "done"}
    BY <1>1
  <2> QED BY <2>1 DEF Exists
<1>6. UpdatesLed'
  <2>1. \A v \in DOMAIN update : update'[v].status = "active" => v # u /\ update'[v] = update[v]
    BY <1>1 DEF OneEnds
  <2>2. Len(update') = Len(update) /\ DOMAIN update' = DOMAIN update
    BY <1>1 DEF OneEnds
  <2>3. \A i \in DOMAIN job : i \in DOMAIN job'
    BY <1>1
  <2> QED BY <1>0, <1>3, <1>5, <2>1, <2>2, <2>3, LedKept DEF Overtaken
<1>7. OthersBound'
  <2> SUFFICES ASSUME NEW p \in Others PROVE Bound(p)'
    BY DEF OthersBound, Others
  <2>1. Bound(p) /\ p \in Projects
    BY DEF Overtaken, OthersBound, Others
  <2>2. CASE p \in Affected(u)
    <3>1. project'[p].key = u /\ project'[p].stage \in {"working", "done"}
      BY <1>1, <2>1, <2>2
    <3> QED BY <1>1, <3>1 DEF Bound, Exists
  <2>3. CASE p \notin Affected(u)
    <3>1. project'[p] = project[p] /\ project[p].key = None
      BY <1>1, <2>1, <2>3 DEF Affected, Bound
    <3> QED BY <3>1 DEF Bound
  <2> QED BY <2>2, <2>3
<1> QED BY <1>0, <1>4, <1>6, <1>7 DEF Overtaken

LEMMA DeleteKeepsOvertaken ==
  ASSUME Overtaken, NEW p \in Projects, Delete(p)
  PROVE  Overtaken'
<1>0. Ledgers' /\ Tables /\ Undisturbed({})
  BY DeleteKeepsLedgers DEF Overtaken, Ledgers, Delete
<1>1. /\ head' = head /\ DOMAIN job' = DOMAIN job
      /\ project' = [project EXCEPT ![p] = [stage |-> "deleted", key |-> None]]
      /\ \A i \in DOMAIN job : JobWithout(i, p)
  BY <1>0, DeleteEffect
<1>2. \A i \in DOMAIN job : Carried(i)
  <2> SUFFICES ASSUME NEW i \in DOMAIN job PROVE Carried(i)
    OBVIOUS
  <2>1. JobWithout(i, p) /\ i \in DOMAIN job'
    BY <1>1
  <2>2. i \in Promoted(p) => job[i].status \in InQueue
    BY DEF Promoted, Active
  <2>3. CASE job[i].project = p /\ job[i].status # "asked"
    BY <2>1, <2>3 DEF JobWithout, Carried, InQueue
  <2>4. CASE ~(job[i].project = p /\ job[i].status # "asked")
    <3>1. job'[i].status = "asked" => job'[i].role = job[i].role
      BY <2>1, <2>2, <2>4 DEF JobWithout, InQueue
    <3> QED BY <2>1, <2>4, <3>1 DEF JobWithout, Carried
  <2> QED BY <2>3, <2>4
<1>3. CallsWell' /\ Apart' /\ OthersCurrent'
  BY <1>0, <1>1, <1>2, StepKeepsRequests
<1>4. UpdatesLed'
  BY DeleteLed DEF Overtaken
<1>5. OthersBound'
  <2> SUFFICES ASSUME NEW q \in Others PROVE Bound(q)'
    BY DEF OthersBound, Others
  <2>1. Bound(q) /\ q \in Projects
    BY DEF Overtaken, OthersBound, Others
  <2>2. project'[q] = project[q] \/ project'[q].key = None
    BY <1>0, <1>1, <2>1 DEF Tables
  <2> QED BY <1>1, <2>1, <2>2 DEF Bound, Exists
<1> QED BY <1>0, <1>3, <1>4, <1>5 DEF Overtaken

LEMMA InitOvertaken == Init => Overtaken
<1> SUFFICES ASSUME Init PROVE Overtaken
  OBVIOUS
<1>1. job = <<>> /\ update = <<>> /\ DOMAIN job = {} /\ DOMAIN update = {}
  BY DEF Init
<1>2. CallsWell /\ Apart /\ OthersCurrent /\ UpdatesLed
  BY <1>1 DEF CallsWell, Apart, OthersCurrent, OthersMidway, Midway, UpdatesLed, ActiveUpdates
<1>3. OthersBound
  BY DEF Init, OthersBound, Bound, Others
<1> QED BY <1>2, <1>3, InitLedgers DEF Overtaken

LEMMA StepKeepsOvertaken == Overtaken /\ [Next]_vars => Overtaken'
<1> SUFFICES ASSUME Overtaken, [Next]_vars PROVE Overtaken'
  OBVIOUS
<1>1. CASE UNCHANGED vars
  <2>1. Ledgers'
    BY <1>1, StepKeepsLedgers DEF Overtaken
  <2>2. \A i \in DOMAIN job : Carried(i)
    BY <1>1 DEF vars, Carried
  <2>3. CallsWell' /\ Apart' /\ OthersMidway' = OthersMidway
    <3>1. CallsWell' /\ Apart'
      BY <1>1, <2>2, RowsCarried DEF vars, Overtaken
    <3> QED BY <1>1, <3>1 DEF vars, OthersMidway, Midway
  <2>4. OthersCurrent'
    BY <1>1, <2>3 DEF vars, Overtaken, OthersCurrent, CurrentCopy
  <2>5. \A q \in Projects : Exists(q) => Exists(q)'
    BY <1>1 DEF vars, Exists
  <2>6. OthersBound' /\ UpdatesLed'
    BY <1>1, <2>5, BoundKept, LedKept DEF vars, Overtaken, Ledgers
  <2> QED BY <2>1, <2>3, <2>4, <2>6 DEF Overtaken
<1>2. CASE \E c \in Clients, reuse \in BOOLEAN : Ask(c, reuse)
  BY <1>2, AskKeepsOvertaken
<1>3. CASE \E j \in JobIds : Refuse(j) \/ Join(j) \/ Reuse(j) \/ Follow(j)
  BY <1>3, RefuseKeepsOvertaken, JoinKeepsOvertaken, ReuseKeepsOvertaken, FollowKeepsOvertaken
<1>4. CASE \E p \in Projects : StartBackground(p) \/ Delete(p)
  BY <1>4, BackgroundKeepsOvertaken, DeleteKeepsOvertaken
<1>5. CASE \E j \in JobIds : Claim(j) \/ Lapse(j) \/ Retry(j)
  BY <1>5, RunKeepsOvertaken
<1>6. CASE \E j \in JobIds : Publish(j) \/ FailUpdate(j) \/ PublishOverlay(j) \/ FailOverlay(j)
  BY <1>6, PublishKeepsOvertaken, FailKeepsOvertaken, OverlayKeepsOvertaken
<1> QED BY <1>1, <1>2, <1>3, <1>4, <1>5, <1>6 DEF Next

\* Whichever requests are overtaken between two of their calls, and whatever is
\* published, deleted, retried or lost meanwhile: the other projects that have a snapshot
\* have the published one.  An old copy saved by an overtaken request binds its own
\* project only.
\* (publishRepositoryUpdate(), createOrJoinRepositoryUpdate(), saveProject().)
THEOREM OthersFollowHead == Spec => []FollowsHead
<1>1. Overtaken => FollowsHead
  BY DEF Overtaken, OthersBound, Bound, FollowsHead
<1> QED BY <1>1, InitOvertaken, StepKeepsOvertaken, PTL DEF Spec

\* Whichever requests are overtaken, whoever is deleted and in whatever language: an
\* update that has not ended is the newest one, its leader's job is there for a worker to
\* claim, and every project that joined it is there with a job which its end will end.
\* (createOrJoinRepositoryUpdate(), deleteProject(), claimFairAnalysis().)
THEOREM UpdatesStayLed == Spec => []UpdatesLed
<1>1. Overtaken => UpdatesLed
  BY DEF Overtaken
<1> QED BY <1>1, InitOvertaken, StepKeepsOvertaken, PTL DEF Spec
=============================================================================
