------------------------- MODULE SchedulingProofs -------------------------
(***************************************************************************)
(* Theorems about ResourceAdmission, for any number of jobs, owners and    *)
(* resources: that what is granted stays within the limits, that nobody    *)
(* waits for what is free, that owners take turns, and that background     *)
(* work stands back; and about FairScheduling, for any number of owners    *)
(* and groups: that limits hold and owners begin work in turn.             *)
(***************************************************************************)
EXTENDS ResourceAdmission, FairScheduling, FiniteSetTheorems, WellFoundedInduction, TLAPS

-----------------------------------------------------------------------------
(* Induction over a set of numbers, by its smallest member.                *)

LEMMA LessIsWellFounded ==
  \E R : IsWellFoundedOn(R, Nat) /\ \A x, y \in Nat : y < x => <<y, x>> \in R
<1>1. \A x, y \in Nat : y < x => <<y, x>> \in OpToRel(<, Nat)
  BY DEF OpToRel
<1> QED BY <1>1, NatLessThanWellFounded, Zenon

LEMMA LeastMember ==
  ASSUME NEW U \in SUBSET Nat, U # {}
  PROVE  \E x \in U : \A y \in U : x <= y
<1> PICK R : IsWellFoundedOn(R, Nat) /\ \A x, y \in Nat : y < x => <<y, x>> \in R
  BY LessIsWellFounded
<1>1. PICK x \in U : \A y \in U : ~(<<y, x>> \in R)
  BY WFMin, Zenon
<1>2. ASSUME NEW y \in U PROVE x <= y
  <2>1. x \in Nat /\ y \in Nat /\ ~(y < x)
    BY <1>1
  <2> QED BY <2>1
<1> QED BY <1>2

LEMMA SetInduction ==
  ASSUME NEW T \in SUBSET Nat, 0 \in T, \A n \in T : n + 1 \in T
  PROVE  T = Nat
<1> DEFINE U == Nat \ T
<1>1. SUFFICES ASSUME U # {} PROVE FALSE
  OBVIOUS
<1>2. U \subseteq Nat
  OBVIOUS
<1>3. PICK x \in U : \A y \in U : x <= y
  <2> HIDE DEF U
  <2> QED BY <1>1, <1>2, LeastMember
<1>4. x \in Nat \ {0}
  OBVIOUS
<1>5. x - 1 \in Nat /\ x - 1 < x /\ (x - 1) + 1 = x
  BY <1>4
<1>6. x - 1 \in U
  BY <1>5
<1> QED BY <1>3, <1>5, <1>6

\* A finite strict order has a member nothing comes before.
LEMMA FrontExists ==
  ASSUME NEW W, IsFiniteSet(W), W # {}, NEW before \in [W -> SUBSET W],
         \A j \in W : j \notin before[j] /\ \A k \in before[j] : before[k] \subseteq before[j]
  PROVE  \E j \in W : before[j] = {}
<1> DEFINE counts == {Cardinality(before[j]) : j \in W}
<1>1. \A j \in W : IsFiniteSet(before[j]) /\ Cardinality(before[j]) \in Nat
  BY FS_Subset, FS_CardinalityType
<1>2. counts \subseteq Nat /\ counts # {}
  BY <1>1
<1>3. PICK j \in W : \A k \in W : Cardinality(before[j]) <= Cardinality(before[k])
  <2>1. PICK c \in counts : \A d \in counts : c <= d
    <3> HIDE DEF counts
    <3> QED BY <1>2, LeastMember
  <2> QED BY <2>1
<1>4. ASSUME NEW k \in before[j] PROVE FALSE
  <2>1. k \in W /\ before[k] \in SUBSET before[j] /\ before[k] # before[j]
    OBVIOUS
  <2>2. Cardinality(before[k]) <= Cardinality(before[j]) /\ Cardinality(before[k]) # Cardinality(before[j])
    BY <1>1, <2>1, FS_Subset
  <2> QED BY <1>1, <1>3, <2>1, <2>2
<1> QED BY <1>4

-----------------------------------------------------------------------------
(* Units and shares.                                                       *)

LEMMA DemandType ==
  ASSUME NEW j \in Jobs, NEW n \in Names(j)
  PROVE  /\ Demands[j][n].units \in Nat \ {0} /\ Demands[j][n].limit \in Nat
         /\ Demands[j][n].ceiling \in Nat
BY DemandsAssumption DEF Names

LEMMA UsedIsNumber ==
  ASSUME NEW R \in SUBSET Jobs, IsFiniteSet(R), NEW n
  PROVE  IsFiniteSet(Units(R, n)) /\ Used(R, n) \in Nat
<1> DEFINE Part(j) == {j} \X (1 .. Demands[j][n].units)
           Parts == {Part(j) : j \in Holding(R, n)}
           f == [j \in Holding(R, n) |-> Part(j)]
<1>1. IsFiniteSet(Holding(R, n))
  BY FS_Subset DEF Holding
<1>2. f \in Surjection(Holding(R, n), Parts)
  BY DEF Surjection
<1>3. IsFiniteSet(Parts)
  BY <1>1, <1>2, FS_Surjection
<1>4. ASSUME NEW j \in Holding(R, n)
      PROVE  IsFiniteSet(Part(j))
  <2>1. 1 \in Int /\ Demands[j][n].units \in Int
    BY DemandType DEF Holding
  <2>2. IsFiniteSet(1 .. Demands[j][n].units)
    BY <2>1, FS_Interval
  <2> QED BY <2>2, FS_Singleton, FS_Product
<1>5. IsFiniteSet(UNION Parts)
  BY <1>3, <1>4, FS_UNION
<1> QED BY <1>5, FS_CardinalityType DEF Units, Used

LEMMA UsedGrows ==
  ASSUME NEW R, NEW S \in SUBSET Jobs, R \subseteq S, IsFiniteSet(S), NEW n
  PROVE  Used(R, n) <= Used(S, n) /\ Used(R, n) \in Nat /\ Used(S, n) \in Nat
<1>1. Units(R, n) \subseteq Units(S, n)
  BY DEF Units, Holding
<1>2. IsFiniteSet(R) /\ R \in SUBSET Jobs
  BY FS_Subset
<1> QED BY <1>1, <1>2, UsedIsNumber, FS_Subset DEF Used

LEMMA UsedAdds ==
  ASSUME NEW R \in SUBSET Jobs, IsFiniteSet(R), NEW j \in Jobs \ R, NEW n \in Names(j)
  PROVE  Used(R \cup {j}, n) = Used(R, n) + Demands[j][n].units
<1> DEFINE new == {j} \X (1 .. Demands[j][n].units)
<1>1. Units(R \cup {j}, n) = Units(R, n) \cup new
  BY DEF Units, Holding
<1>2. Units(R, n) \cap new = {}
  BY DEF Units, Holding
<1>3. IsFiniteSet(Units(R, n)) /\ Used(R, n) \in Nat
  BY UsedIsNumber
<1>4. /\ IsFiniteSet({j}) /\ Cardinality({j}) = 1 /\ IsFiniteSet(1 .. Demands[j][n].units)
      /\ Cardinality(1 .. Demands[j][n].units) = Demands[j][n].units
  <2>1. Demands[j][n].units \in Nat /\ Demands[j][n].units \in Int /\ 1 \in Int
    BY DemandType
  <2>2. /\ IsFiniteSet(1 .. Demands[j][n].units)
        /\ Cardinality(1 .. Demands[j][n].units)
             = IF 1 > Demands[j][n].units THEN 0 ELSE Demands[j][n].units - 1 + 1
    BY <2>1, FS_Interval
  <2>3. Cardinality(1 .. Demands[j][n].units) = Demands[j][n].units
    BY <2>1, <2>2
  <2> QED BY <2>2, <2>3, FS_Singleton
<1>5. IsFiniteSet(new) /\ Cardinality(new) = Demands[j][n].units
  <2>1. IsFiniteSet(new) /\ Cardinality(new) = Cardinality({j}) * Cardinality(1 .. Demands[j][n].units)
    BY <1>4, FS_Product
  <2>2. Demands[j][n].units \in Nat
    BY DemandType
  <2> QED BY <1>4, <2>1, <2>2
<1> HIDE DEF new
<1>6. Cardinality(Units(R, n) \cup new) = Cardinality(Units(R, n)) + Cardinality(new) - 0
  BY <1>2, <1>3, <1>5, FS_Union, FS_EmptySet
<1>7. Demands[j][n].units \in Nat
  BY DemandType
<1>8. Used(R \cup {j}, n) = Cardinality(Units(R, n) \cup new) /\ Used(R, n) = Cardinality(Units(R, n))
  BY <1>1 DEF Used
<1> QED BY <1>3, <1>5, <1>6, <1>7, <1>8

LEMMA UsedByOthers ==
  ASSUME NEW R, NEW j, NEW n, n \notin Names(j)
  PROVE  Used(R \cup {j}, n) = Used(R, n) /\ Holding(R \cup {j}, n) = Holding(R, n)
BY DEF Used, Units, Holding

LEMMA UsedByHolder ==
  ASSUME NEW R \in SUBSET Jobs, IsFiniteSet(R), NEW j \in R, NEW n \in Names(j)
  PROVE  Used(R, n) >= Demands[j][n].units /\ Used(R, n) \in Nat
<1>1. R = (R \ {j}) \cup {j} /\ R \ {j} \in SUBSET Jobs /\ j \in Jobs \ (R \ {j})
  OBVIOUS
<1>2. IsFiniteSet(R \ {j})
  BY FS_Subset
<1>3. Used((R \ {j}) \cup {j}, n) = Used(R \ {j}, n) + Demands[j][n].units
  BY <1>1, <1>2, UsedAdds
<1>4. Used(R \ {j}, n) \in Nat /\ Used(R, n) \in Nat /\ Demands[j][n].units \in Nat
  BY <1>1, <1>2, UsedIsNumber, DemandType
<1> QED BY <1>1, <1>3, <1>4

LEMMA SharesGrow ==
  ASSUME NEW R, NEW S, R \subseteq S, IsFiniteSet(S), NEW j
  PROVE  /\ OwnerShares(R, j) \in Nat /\ OwnerShares(S, j) \in Nat
         /\ OwnerShares(R, j) <= OwnerShares(S, j) /\ TaskShares(S, j) \in Nat
<1> DEFINE Of(Q) == {k \in Q : OwnerOf[k] = OwnerOf[j] /\ Names(k) \cap Names(j) # {}}
           Tasks == {k \in S : /\ OwnerOf[k] = OwnerOf[j] /\ TaskOf[k] = TaskOf[j]
                               /\ Names(k) \cap Names(j) # {}}
<1>1. IsFiniteSet(Of(S)) /\ IsFiniteSet(Tasks)
  BY FS_Subset
<1>2. IsFiniteSet(Of(R)) /\ Cardinality(Of(R)) <= Cardinality(Of(S))
  BY <1>1, FS_Subset
<1> QED BY <1>1, <1>2, FS_CardinalityType DEF OwnerShares, TaskShares

-----------------------------------------------------------------------------
(* Well-formed rows.                                                       *)

Ordered(rs) ==
  /\ \A j \in Present(rs) : rs[j].behind \subseteq Present(rs) \ {j}
  /\ \A j, k \in Present(rs) : j # k => j \in rs[k].behind \/ k \in rs[j].behind
  /\ \A i, j, k \in Present(rs) : i \in rs[j].behind /\ j \in rs[k].behind => i \in rs[k].behind

\* Whoever asks for a resource has the same limit in mind.
LimitsAgree(rs) ==
  \A j, k \in Present(rs) : \A n \in Names(j) \cap Names(k) : Demands[j][n].limit = Demands[k][n].limit

WellFormed(rs) ==
  /\ rs \in [Jobs -> Row] /\ IsFiniteSet(Present(rs)) /\ Ordered(rs) /\ LimitsAgree(rs)

LEMMA KeepWellFormed ==
  ASSUME NEW rs, WellFormed(rs), NEW kept \in SUBSET Present(rs)
  PROVE  /\ WellFormed(Keep(rs, kept)) /\ Present(Keep(rs, kept)) = kept
         /\ \A s \in {"waiting", "running"} : InState(Keep(rs, kept), s) = InState(rs, s) \cap kept
         /\ \A j \in kept : Keep(rs, kept)[j] = [rs[j] EXCEPT !.behind = rs[j].behind \cap kept]
<1> DEFINE new == Keep(rs, kept)
<1>1. rs \in [Jobs -> Row] /\ kept \subseteq Jobs
  BY DEF WellFormed, Present
<1>2. /\ \A j \in kept : new[j] = [rs[j] EXCEPT !.behind = rs[j].behind \cap kept]
      /\ \A j \in Jobs \ kept : new[j] = NoRow
  BY <1>1 DEF Keep
<1>3. new \in [Jobs -> Row]
  BY <1>1 DEF Keep, Row, NoRow
<1>4. /\ \A j \in kept : new[j].state = rs[j].state /\ new[j].behind = rs[j].behind \cap kept
      /\ \A j \in Jobs \ kept : new[j].state = "none"
  <2> HIDE DEF new
  <2>1. ASSUME NEW j \in kept
        PROVE  new[j].state = rs[j].state /\ new[j].behind = rs[j].behind \cap kept
    <3>1. rs[j] \in Row
      BY <1>1
    <3> QED BY <1>2, <3>1 DEF Row
  <2> QED BY <1>2, <2>1 DEF NoRow
<1>5. Present(new) = kept
  BY <1>1, <1>4 DEF Present
<1>6. \A s \in {"waiting", "running"} : InState(new, s) = InState(rs, s) \cap kept
  BY <1>1, <1>4 DEF InState
<1>7. IsFiniteSet(kept)
  BY FS_Subset DEF WellFormed
<1>8. Ordered(new)
  BY <1>4, <1>5 DEF Ordered, WellFormed
<1>9. LimitsAgree(new)
  BY <1>5 DEF LimitsAgree, WellFormed
<1> QED BY <1>2, <1>3, <1>5, <1>6, <1>7, <1>8, <1>9 DEF WellFormed

LEMMA EnqueuedWellFormed ==
  ASSUME NEW rs, WellFormed(rs), NEW j \in Jobs \ Present(rs), ~Mismatched(rs, j)
  PROVE  /\ WellFormed(Enqueued(rs, j)) /\ Present(Enqueued(rs, j)) = Present(rs) \cup {j}
         /\ InState(Enqueued(rs, j), "running") = InState(rs, "running")
         /\ InState(Enqueued(rs, j), "waiting") = InState(rs, "waiting") \cup {j}
<1> DEFINE new == Enqueued(rs, j)
           own == [NoRow EXCEPT !.state = "waiting", !.behind = Present(rs)]
<1>1. rs \in [Jobs -> Row] /\ Present(rs) \subseteq Jobs
  BY DEF WellFormed, Present
<1>2. own \in Row /\ own.state = "waiting" /\ own.behind = Present(rs)
  BY <1>1 DEF NoRow, Row
<1>3. new[j] = own /\ \A k \in Jobs \ {j} : new[k] = rs[k]
  BY <1>1 DEF Enqueued
<1>4. new \in [Jobs -> Row]
  BY <1>1, <1>2 DEF Enqueued
<1> HIDE DEF new, own
<1>5. Present(new) = Present(rs) \cup {j}
  BY <1>2, <1>3 DEF Present
<1>6. /\ InState(new, "running") = InState(rs, "running")
      /\ InState(new, "waiting") = InState(rs, "waiting") \cup {j}
  <2>1. rs[j].state = "none"
    BY DEF Present
  <2> QED BY <1>2, <1>3, <2>1 DEF InState
<1>7. IsFiniteSet(Present(new))
  BY <1>5, FS_AddElement DEF WellFormed
<1>8. Ordered(new)
  <2>1. \A k \in Present(rs) : new[k] = rs[k] /\ k # j
    BY <1>1, <1>3
  <2>2. new[j].behind = Present(rs)
    BY <1>2, <1>3
  <2>3. Ordered(rs)
    BY DEF WellFormed
  <2> QED BY <1>5, <2>1, <2>2, <2>3 DEF Ordered
<1>9. LimitsAgree(new)
  <2>1. \A k \in Present(rs) : \A n \in Names(j) \cap Names(k) : Demands[k][n].limit = Demands[j][n].limit
    BY DEF Mismatched
  <2>2. LimitsAgree(rs)
    BY DEF WellFormed
  <2> QED BY <1>5, <2>1, <2>2 DEF LimitsAgree
<1> QED BY <1>4, <1>5, <1>6, <1>7, <1>8, <1>9 DEF WellFormed, new

\* What a pass, ageing and the passage of time leave well formed.
LEMMA SameOrder ==
  ASSUME NEW rs, WellFormed(rs), NEW new \in [Jobs -> Row],
         \A j \in Jobs : /\ new[j].behind = rs[j].behind
                         /\ (new[j].state = "none") = (rs[j].state = "none")
  PROVE  WellFormed(new) /\ Present(new) = Present(rs)
<1>1. Present(new) = Present(rs)
  BY DEF Present
<1>2. \A j \in Present(rs) : new[j].behind = rs[j].behind
  BY DEF Present
<1> QED BY <1>1, <1>2 DEF WellFormed, Ordered, LimitsAgree
-----------------------------------------------------------------------------
(* One turn of the loop.                                                   *)

LEMMA PrecedesOrders ==
  ASSUME NEW rs, WellFormed(rs), NEW R, IsFiniteSet(R)
  PROVE  /\ \A j, k \in Present(rs) : j # k => Precedes(rs, R, j, k) \/ Precedes(rs, R, k, j)
         /\ \A i, j, k \in Present(rs) :
              Precedes(rs, R, i, j) /\ Precedes(rs, R, j, k) => Precedes(rs, R, i, k)
         /\ \A j \in Present(rs) : ~Precedes(rs, R, j, j)
<1>1. \A j : OwnerShares(R, j) \in Nat /\ TaskShares(R, j) \in Nat
  BY SharesGrow
<1>2. Ordered(rs)
  BY DEF WellFormed
<1>3. ASSUME NEW j \in Present(rs), NEW k \in Present(rs), j # k
      PROVE  Precedes(rs, R, j, k) \/ Precedes(rs, R, k, j)
  <2>1. j \in rs[k].behind \/ k \in rs[j].behind
    BY <1>2, <1>3 DEF Ordered
  <2> QED BY <1>1, <2>1 DEF Precedes
<1>4. ASSUME NEW i \in Present(rs), NEW j \in Present(rs), NEW k \in Present(rs),
             Precedes(rs, R, i, j), Precedes(rs, R, j, k)
      PROVE  Precedes(rs, R, i, k)
  <2>1. i \in rs[j].behind /\ j \in rs[k].behind => i \in rs[k].behind
    BY <1>2 DEF Ordered
  <2> QED BY <1>1, <1>4, <2>1 DEF Precedes
<1>5. ASSUME NEW j \in Present(rs)
      PROVE  ~Precedes(rs, R, j, j)
  <2>1. j \notin rs[j].behind
    BY <1>2 DEF Ordered
  <2> QED BY <1>1, <2>1 DEF Precedes
<1> QED BY <1>3, <1>4, <1>5

\* The sort has a first row: the one with the fewest before it.
LEMMA FirstExists ==
  ASSUME NEW rs, WellFormed(rs), NEW R, IsFiniteSet(R), NEW W \in SUBSET Present(rs), W # {}
  PROVE  \E j \in W : \A k \in W \ {j} : Precedes(rs, R, j, k)
<1> DEFINE before == [j \in W |-> {k \in W : Precedes(rs, R, k, j)}]
<1>1. IsFiniteSet(W)
  BY FS_Subset DEF WellFormed
<1>2. before \in [W -> SUBSET W] /\ \A j \in W : before[j] = {k \in W : Precedes(rs, R, k, j)}
  OBVIOUS
<1> HIDE DEF before
<1>3. \A j \in W : j \notin before[j] /\ \A k \in before[j] : before[k] \subseteq before[j]
  BY <1>2, PrecedesOrders
<1>4. PICK j \in W : before[j] = {}
  BY <1>1, <1>2, <1>3, FrontExists
<1> QED BY <1>2, <1>4, PrecedesOrders

Resources == UNION {Names(j) : j \in Jobs}

\* What the loop has decided: who still waits for a turn, who runs, what is reserved.
Decided(rs, pending, pass) ==
  /\ pass \in [waiting : SUBSET pending, running : SUBSET Jobs, reserved : SUBSET Resources]
  /\ InState(rs, "running") \subseteq pass.running
  /\ pass.running \subseteq InState(rs, "running") \cup (pending \ pass.waiting)

FitsAll(pending, pass, j) == \A n \in Names(j) : Fits(pending, pass, j, n)

LEMMA TurnTakes ==
  ASSUME NEW rs, WellFormed(rs), NEW pass, IsFiniteSet(pass.running),
         pass.waiting \in SUBSET Present(rs), pass.waiting # {}, NEW pending
  PROVE  \E j \in pass.waiting :
           /\ \A k \in pass.waiting \ {j} : Precedes(rs, pass.running, j, k)
           /\ Turn(rs, pending, pass) = Taken(rs, pending, pass, j)
<1> DEFINE first == {j \in pass.waiting : \A k \in pass.waiting \ {j} : Precedes(rs, pass.running, j, k)}
<1>1. first # {}
  BY FirstExists
<1>2. Turn(rs, pending, pass) = CHOOSE next \in {Taken(rs, pending, pass, j) : j \in first} : TRUE
  BY DEF Turn
<1>3. \E next \in {Taken(rs, pending, pass, j) : j \in first} : TRUE
  BY <1>1
<1>4. Turn(rs, pending, pass) \in {Taken(rs, pending, pass, j) : j \in first}
  BY <1>2, <1>3
<1> QED BY <1>4

-----------------------------------------------------------------------------
(* The loop as a sequence of passes.                                       *)

Started(rs, pending) == [waiting |-> pending, running |-> InState(rs, "running"), reserved |-> {}]

Listed(rs, pending, m, g) ==
  g = [k \in 0..m |-> IF k = 0 THEN Started(rs, pending)
                      ELSE CHOOSE next \in {Turn(rs, pending, last) : last \in {g[k - 1]}} : TRUE]

LEMMA Following ==
  ASSUME NEW rs, NEW pending, NEW x
  PROVE  (CHOOSE next \in {Turn(rs, pending, last) : last \in {x}} : TRUE) = Turn(rs, pending, x)
<1>1. {Turn(rs, pending, last) : last \in {x}} = {Turn(rs, pending, x)}
  OBVIOUS
<1> QED BY <1>1

LEMMA ListedTurns ==
  ASSUME NEW rs, NEW pending, NEW m \in Nat, NEW g, Listed(rs, pending, m, g)
  PROVE  g[0] = Started(rs, pending) /\ \A k \in 1..m : g[k] = Turn(rs, pending, g[k - 1])
<1> DEFINE Follow(k) == CHOOSE next \in {Turn(rs, pending, last) : last \in {g[k - 1]}} : TRUE
           f == [k \in 0..m |-> IF k = 0 THEN Started(rs, pending) ELSE Follow(k)]
<1>1. \A k : Follow(k) = Turn(rs, pending, g[k - 1])
  BY Following
<1>2. g = f
  BY DEF Listed
<1>3. f[0] = Started(rs, pending) /\ \A k \in 1..m : f[k] = Follow(k)
  OBVIOUS
<1> HIDE DEF Follow, f
<1> QED BY <1>1, <1>2, <1>3

LEMMA TurnsListed ==
  ASSUME NEW rs, NEW pending, NEW m \in Nat, NEW g, g = [k \in 0..m |-> g[k]],
         g[0] = Started(rs, pending), \A k \in 1..m : g[k] = Turn(rs, pending, g[k - 1])
  PROVE  Listed(rs, pending, m, g)
<1> DEFINE Follow(k) == CHOOSE next \in {Turn(rs, pending, last) : last \in {g[k - 1]}} : TRUE
           f == [k \in 0..m |-> IF k = 0 THEN Started(rs, pending) ELSE Follow(k)]
<1>1. \A k : Follow(k) = Turn(rs, pending, g[k - 1])
  BY Following
<1>2. Listed(rs, pending, m, g) <=> g = f
  BY DEF Listed
<1>3. /\ f = [k \in 0..m |-> f[k]] /\ f[0] = Started(rs, pending)
      /\ \A k \in 1..m : f[k] = Follow(k)
  OBVIOUS
<1> HIDE DEF f, Follow
<1>4. \A k \in 0..m : k = 0 \/ k \in 1..m
  OBVIOUS
<1>5. \A k \in 0..m : g[k] = f[k]
  BY <1>1, <1>3, <1>4
<1> QED BY <1>2, <1>3, <1>5

LEMMA PassesExist ==
  ASSUME NEW rs, NEW pending, NEW m \in Nat
  PROVE  \E g : Listed(rs, pending, m, g)
<1> DEFINE T == {i \in Nat : \E g : Listed(rs, pending, i, g)}
<1>1. 0 \in T
  <2> DEFINE g == [k \in 0..0 |-> Started(rs, pending)]
  <2>1. g = [k \in 0..0 |-> g[k]] /\ g[0] = Started(rs, pending) /\ 1..0 = {}
    OBVIOUS
  <2>2. Listed(rs, pending, 0, g)
    <3> HIDE DEF g
    <3> QED BY <2>1, TurnsListed
  <2> QED BY <2>2
<1>2. ASSUME NEW i \in T PROVE i + 1 \in T
  <2>0. i \in Nat /\ i + 1 \in Nat /\ 0 \in 0..i
    OBVIOUS
  <2>1. PICK g : Listed(rs, pending, i, g)
    OBVIOUS
  <2>2. /\ g[0] = Started(rs, pending)
        /\ \A k \in 1..i : g[k] = Turn(rs, pending, g[k - 1])
    BY <2>0, <2>1, ListedTurns
  <2> DEFINE h == [k \in 0..i + 1 |-> IF k = i + 1 THEN Turn(rs, pending, g[i]) ELSE g[k]]
  <2>3. /\ h = [k \in 0..i + 1 |-> h[k]] /\ \A k \in 0..i : h[k] = g[k]
        /\ h[i + 1] = Turn(rs, pending, g[i])
    OBVIOUS
  <2> HIDE DEF h
  <2>4. ASSUME NEW k \in 1..i + 1 PROVE h[k] = Turn(rs, pending, h[k - 1])
    <3>1. k - 1 \in 0..i /\ (k = i + 1 => k - 1 = i) /\ (k # i + 1 => k \in 1..i /\ k \in 0..i)
      OBVIOUS
    <3>2. h[k - 1] = g[k - 1]
      BY <2>3, <3>1
    <3> QED BY <2>2, <2>3, <3>1, <3>2
  <2>5. h[0] = Started(rs, pending)
    BY <2>0, <2>2, <2>3
  <2>6. Listed(rs, pending, i + 1, h)
    BY <2>0, <2>3, <2>4, <2>5, TurnsListed
  <2> QED BY <2>6
<1>3. T = Nat
  <2> HIDE DEF T
  <2>1. T \in SUBSET Nat
    BY DEF T
  <2> QED BY <1>1, <1>2, <2>1, SetInduction
<1> QED BY <1>3

LEMMA PassesFollow ==
  ASSUME NEW rs, NEW pending, IsFiniteSet(pending)
  PROVE  /\ Passes(rs, pending)[0] = Started(rs, pending)
         /\ \A k \in 1..Cardinality(pending) :
              Passes(rs, pending)[k] = Turn(rs, pending, Passes(rs, pending)[k - 1])
<1>1. Cardinality(pending) \in Nat
  BY FS_CardinalityType
<1>2. Passes(rs, pending) = CHOOSE g : Listed(rs, pending, Cardinality(pending), g)
  BY DEF Passes, Started, Listed
<1>3. Listed(rs, pending, Cardinality(pending), Passes(rs, pending))
  BY <1>1, <1>2, PassesExist
<1> DEFINE p == Passes(rs, pending)
           m == Cardinality(pending)
<1>4. /\ p[0] = Started(rs, pending)
      /\ \A k \in 1..m : p[k] = Turn(rs, pending, p[k - 1])
  <2> HIDE DEF p, m
  <2>1. m \in Nat /\ Listed(rs, pending, m, p)
    BY <1>1, <1>3 DEF p, m
  <2> QED BY <2>1, ListedTurns
<1> QED BY <1>4

-----------------------------------------------------------------------------
(* What every turn of the loop keeps.                                      *)

Within(running) ==
  \A j \in running : \A n \in Names(j) : Used(running, n) <= Demands[j][n].limit

\* What is reserved is reserved for an aged user who does not run.
Reserving(rs, pass) ==
  \A n \in pass.reserved :
    \E k \in Pending(rs) \ (pass.waiting \cup pass.running) :
      ~Background(k) /\ rs[k].aged /\ n \in Names(k)

Refused(pass, j) ==
  \E n \in Names(j) : n \in pass.reserved \/ Used(pass.running, n) + Demands[j][n].units > Demands[j][n].limit

PassedOver(rs, pass) ==
  \A j \in Pending(rs) \ (pass.waiting \cup pass.running) : ~Background(j) => Refused(pass, j)

Given(rs, pass) == pass.running \ InState(rs, "running")

\* Who held something when it was the turn of j.
HeldAt(rs, pass, turn, j) ==
  InState(rs, "running") \cup {g \in Given(rs, pass) : turn[g] < turn[j]}

\* Each grant came before the later ones, before those who still wait for a turn, and
\* before those passed over who ask for no more.
InOrder(rs, pass, turn) ==
  \A j \in Given(rs, pass) :
    /\ \A k \in Given(rs, pass) \ {j} : turn[k] # turn[j]
    /\ ~Background(j) =>
         LET held == HeldAt(rs, pass, turn, j) IN
         /\ \A k \in Given(rs, pass) : turn[k] > turn[j] => Precedes(rs, held, j, k)
         /\ \A k \in Pending(rs) \ pass.running :
              ~Background(k) /\ (k \in pass.waiting \/ NoMore(k, j)) => Precedes(rs, held, j, k)

TurnsTaken(rs, pass) == Cardinality(Pending(rs) \ pass.waiting)

Sharing(rs, pass) ==
  \E turn \in [Given(rs, pass) -> 1 .. TurnsTaken(rs, pass)] : InOrder(rs, pass, turn)

BelowCeiling(running, j) ==
  \A n \in Names(j) :
    \/ Demands[j][n].ceiling = NoCeiling
    \/ Used(running, n) <= Demands[j][n].ceiling
    \/ Holding(running, n) = {j}

Yielding(rs, pass) ==
  \A j \in pass.running \ InState(rs, "running") : Background(j) =>
    /\ \A k \in pass.waiting : Background(k)
    /\ \A k \in Pending(rs) \ pass.running : Background(k) \/ Names(k) \cap Names(j) = {}
    /\ BelowCeiling(pass.running, j)

Verdict(rs, pass) ==
  /\ Decided(rs, Pending(rs), pass)
  /\ Within(pass.running) /\ Reserving(rs, pass) /\ PassedOver(rs, pass) /\ Sharing(rs, pass)
  /\ OneConfiguration => Yielding(rs, pass)

LEMMA PendingPresent ==
  ASSUME NEW rs, WellFormed(rs)
  PROVE  /\ Pending(rs) \subseteq Present(rs) /\ InState(rs, "running") \subseteq Present(rs)
         /\ Pending(rs) \cap InState(rs, "running") = {} /\ Present(rs) \subseteq Jobs
         /\ IsFiniteSet(Pending(rs))
<1>1. /\ Pending(rs) \subseteq Present(rs) /\ InState(rs, "running") \subseteq Present(rs)
      /\ Pending(rs) \cap InState(rs, "running") = {} /\ Present(rs) \subseteq Jobs
  BY DEF Pending, InState, Present
<1> QED BY <1>1, FS_Subset DEF WellFormed

\* It is the turn of j: j is taken from those who wait, and runs, reserves or is
\* passed over.
Turning(rs, pass, j, next) ==
  /\ WellFormed(rs) /\ Decided(rs, Pending(rs), pass) /\ j \in pass.waiting
  /\ j \in Pending(rs) /\ j \in Jobs /\ j \notin pass.running
  /\ pass.running \subseteq Present(rs) /\ next.running \subseteq Present(rs)
  /\ IsFiniteSet(pass.running) /\ IsFiniteSet(next.running)
  /\ Decided(rs, Pending(rs), next) /\ next.waiting = pass.waiting \ {j}
  /\ next.running = IF FitsAll(Pending(rs), pass, j) THEN pass.running \cup {j} ELSE pass.running
  /\ next.reserved = IF ~FitsAll(Pending(rs), pass, j) /\ ~Background(j) /\ rs[j].aged
                     THEN pass.reserved \cup Names(j) ELSE pass.reserved

LEMMA TurnEnds ==
  ASSUME NEW rs, WellFormed(rs), NEW pass, Decided(rs, Pending(rs), pass),
         NEW j \in pass.waiting, NEW next, next = Taken(rs, Pending(rs), pass, j)
  PROVE  Turning(rs, pass, j, next)
<1>1. Pending(rs) \subseteq Jobs
  BY PendingPresent
<1>2. j \in Jobs /\ Names(j) \subseteq Resources
  BY <1>1 DEF Decided, Resources
<1>3. /\ next \in [waiting : SUBSET Pending(rs), running : SUBSET Jobs, reserved : SUBSET Resources]
      /\ next.waiting = pass.waiting \ {j}
      /\ next.running = IF FitsAll(Pending(rs), pass, j) THEN pass.running \cup {j} ELSE pass.running
      /\ next.reserved = IF ~FitsAll(Pending(rs), pass, j) /\ ~Background(j) /\ rs[j].aged
                         THEN pass.reserved \cup Names(j) ELSE pass.reserved
  <2>1. CASE FitsAll(Pending(rs), pass, j)
    BY <1>2, <2>1 DEF Decided, Taken, FitsAll
  <2>2. CASE ~FitsAll(Pending(rs), pass, j) /\ (~Background(j) /\ rs[j].aged)
    BY <1>2, <2>2 DEF Decided, Taken, FitsAll
  <2>3. CASE ~FitsAll(Pending(rs), pass, j) /\ ~(~Background(j) /\ rs[j].aged)
    BY <1>2, <2>3 DEF Decided, Taken, FitsAll
  <2> QED BY <2>1, <2>2, <2>3
<1>4. j \in Pending(rs) /\ j \notin pass.running
  BY PendingPresent DEF Decided
<1>5. Decided(rs, Pending(rs), next)
  BY <1>3, <1>4 DEF Decided
<1>6. pass.running \subseteq Present(rs) /\ next.running \subseteq Present(rs)
  BY <1>5, PendingPresent DEF Decided
<1>7. IsFiniteSet(pass.running) /\ IsFiniteSet(next.running)
  BY <1>6, FS_Subset DEF WellFormed
<1> QED BY <1>2, <1>3, <1>4, <1>5, <1>6, <1>7 DEF Turning

LEMMA TurnKeepsWithin ==
  ASSUME NEW rs, NEW pass, NEW j, NEW next, Turning(rs, pass, j, next),
         Within(pass.running)
  PROVE  Within(next.running)
<1> USE DEF Turning
<1>1. CASE ~FitsAll(Pending(rs), pass, j)
  BY <1>1
<1>2. CASE FitsAll(Pending(rs), pass, j)
  <2> SUFFICES ASSUME NEW i \in next.running, NEW n \in Names(i)
               PROVE  Used(next.running, n) <= Demands[i][n].limit
    BY DEF Within
  <2>1. /\ next.running = pass.running \cup {j} /\ j \in Jobs \ pass.running
        /\ pass.running \in SUBSET Jobs /\ IsFiniteSet(pass.running)
        /\ i \in Present(rs) /\ j \in Present(rs)
    BY <1>2, PendingPresent
  <2>2. CASE n \in Names(j)
    <3>1. Used(next.running, n) = Used(pass.running, n) + Demands[j][n].units
      BY <2>1, <2>2, UsedAdds
    <3>2. Used(pass.running, n) + Demands[j][n].units <= Demands[j][n].limit
      BY <1>2, <2>2 DEF FitsAll, Fits
    <3>3. Demands[i][n].limit = Demands[j][n].limit
      BY <2>1, <2>2 DEF WellFormed, LimitsAgree
    <3> QED BY <3>1, <3>2, <3>3
  <2>3. CASE n \notin Names(j)
    <3>1. Used(next.running, n) = Used(pass.running, n) /\ i \in pass.running
      BY <2>1, <2>3, UsedByOthers
    <3> QED BY <3>1 DEF Within
  <2> QED BY <2>2, <2>3
<1> QED BY <1>1, <1>2

LEMMA TurnKeepsReserving ==
  ASSUME NEW rs, NEW pass, NEW j, NEW next, Turning(rs, pass, j, next),
         Reserving(rs, pass)
  PROVE  Reserving(rs, next)
<1> USE DEF Turning
<1> SUFFICES ASSUME NEW n \in next.reserved
             PROVE  \E k \in Pending(rs) \ (next.waiting \cup next.running) :
                      ~Background(k) /\ rs[k].aged /\ n \in Names(k)
  BY DEF Reserving
<1>1. CASE n \in pass.reserved
  <2>1. PICK k \in Pending(rs) \ (pass.waiting \cup pass.running) :
               ~Background(k) /\ rs[k].aged /\ n \in Names(k)
    BY <1>1 DEF Reserving
  <2>2. k \notin next.waiting /\ k \notin next.running
    BY <2>1
  <2> QED BY <2>1, <2>2
<1>2. CASE n \notin pass.reserved
  <2>1. ~FitsAll(Pending(rs), pass, j) /\ ~Background(j) /\ rs[j].aged /\ n \in Names(j)
    BY <1>2
  <2>2. j \in Pending(rs) \ (next.waiting \cup next.running)
    BY <2>1
  <2> QED BY <2>1, <2>2
<1> QED BY <1>1, <1>2

LEMMA RefusedStays ==
  ASSUME NEW rs, NEW pass, NEW j, NEW next, Turning(rs, pass, j, next),
         NEW k \in Jobs, Refused(pass, k)
  PROVE  Refused(next, k)
<1> USE DEF Turning
<1>1. PICK n \in Names(k) : n \in pass.reserved
                            \/ Used(pass.running, n) + Demands[k][n].units > Demands[k][n].limit
  BY DEF Refused
<1>2. /\ pass.reserved \subseteq next.reserved /\ pass.running \subseteq next.running
      /\ next.running \in SUBSET Jobs /\ IsFiniteSet(next.running)
  BY PendingPresent
<1>3. /\ Used(pass.running, n) <= Used(next.running, n)
      /\ Used(pass.running, n) \in Nat /\ Used(next.running, n) \in Nat
  BY <1>2, UsedGrows
<1>4. Demands[k][n].units \in Nat /\ Demands[k][n].limit \in Nat
  BY DemandType
<1> QED BY <1>1, <1>2, <1>3, <1>4 DEF Refused

\* A user who does not fit is refused for a reason that lasts.
LEMMA NoFitRefused ==
  ASSUME NEW rs, WellFormed(rs), NEW pass, Decided(rs, Pending(rs), pass),
         NEW j \in Jobs, ~Background(j)
  PROVE  FitsAll(Pending(rs), pass, j) <=> ~Refused(pass, j)
<1>1. \A n \in Names(j) : Demands[j][n].ceiling = NoCeiling
  BY DEF Background
<1>2. pass.running \in SUBSET Jobs /\ IsFiniteSet(pass.running)
  <2>1. pass.running \subseteq Present(rs)
    BY PendingPresent DEF Decided
  <2> QED BY <2>1, PendingPresent, FS_Subset DEF Turning, WellFormed
<1>3. \A n \in Names(j) : /\ Used(pass.running, n) \in Nat
                          /\ Demands[j][n].units \in Nat /\ Demands[j][n].limit \in Nat
  BY <1>2, UsedIsNumber, DemandType
<1>4. ASSUME NEW n \in Names(j)
      PROVE  Fits(Pending(rs), pass, j, n)
               <=> ~(n \in pass.reserved
                     \/ Used(pass.running, n) + Demands[j][n].units > Demands[j][n].limit)
  BY <1>1, <1>3 DEF Fits
<1> QED BY <1>4 DEF FitsAll, Refused

LEMMA TurnKeepsPassedOver ==
  ASSUME NEW rs, NEW pass, NEW j, NEW next, Turning(rs, pass, j, next),
         PassedOver(rs, pass)
  PROVE  PassedOver(rs, next)
<1> USE DEF Turning
<1> SUFFICES ASSUME NEW i \in Pending(rs) \ (next.waiting \cup next.running), ~Background(i)
             PROVE  Refused(next, i)
  BY DEF PassedOver
<1>1. i \in Jobs
  BY PendingPresent
<1>2. Refused(pass, i)
  <2>1. CASE i = j
    <3>1. ~FitsAll(Pending(rs), pass, j)
      BY <2>1
    <3> QED BY <1>1, <2>1, <3>1, NoFitRefused
  <2>2. CASE i # j
    <3>1. i \notin pass.waiting \cup pass.running
      BY <2>2
    <3> QED BY <3>1 DEF PassedOver
  <2> QED BY <2>1, <2>2
<1> QED BY <1>1, <1>2, RefusedStays

\* The turns taken are counted.
LEMMA TurnCounts ==
  ASSUME NEW rs, NEW pass, NEW j, NEW next, Turning(rs, pass, j, next)
  PROVE  /\ TurnsTaken(rs, pass) \in Nat /\ TurnsTaken(rs, next) = TurnsTaken(rs, pass) + 1
         /\ TurnsTaken(rs, next) <= Cardinality(Pending(rs)) /\ Cardinality(Pending(rs)) \in Nat
<1> DEFINE taken == Pending(rs) \ pass.waiting
           now == Pending(rs) \ next.waiting
<1>1. IsFiniteSet(Pending(rs))
  BY PendingPresent DEF Turning
<1>2. IsFiniteSet(taken) /\ j \notin taken /\ now = taken \cup {j}
  BY <1>1, FS_Subset DEF Turning
<1>3. Cardinality(now) = Cardinality(taken) + 1 /\ Cardinality(taken) \in Nat
  BY <1>2, FS_AddElement, FS_CardinalityType
<1>4. Cardinality(now) <= Cardinality(Pending(rs)) /\ Cardinality(Pending(rs)) \in Nat
  BY <1>1, FS_Subset, FS_CardinalityType
<1> QED BY <1>3, <1>4 DEF TurnsTaken

\* Whoever asks for no more than a user who fits is not passed over.
LEMMA PassedOverAsksMore ==
  ASSUME NEW rs, NEW pass, NEW j, NEW next, Turning(rs, pass, j, next),
         PassedOver(rs, pass), FitsAll(Pending(rs), pass, j), ~Background(j),
         NEW k \in Pending(rs) \ pass.running, ~Background(k), NoMore(k, j)
  PROVE  k \in pass.waiting
<1> USE DEF Turning
<1> SUFFICES ASSUME k \notin pass.waiting PROVE FALSE
  OBVIOUS
<1>1. Refused(pass, k)
  BY DEF PassedOver
<1>2. PICK n \in Names(k) : n \in pass.reserved
                            \/ Used(pass.running, n) + Demands[k][n].units > Demands[k][n].limit
  BY <1>1 DEF Refused
<1>3. k \in Jobs /\ j \in Present(rs) /\ k \in Present(rs) /\ pass.running \in SUBSET Jobs
  BY PendingPresent
<1>4. /\ n \in Names(j) /\ Demands[k][n].units <= Demands[j][n].units
      /\ Demands[k][n].limit = Demands[j][n].limit
  BY <1>3 DEF NoMore, WellFormed, LimitsAgree
<1>5. /\ Used(pass.running, n) \in Nat /\ Demands[k][n].units \in Nat
      /\ Demands[j][n].units \in Nat /\ Demands[j][n].limit \in Nat
  BY <1>3, <1>4, UsedIsNumber, DemandType
<1>6. Refused(pass, j)
  BY <1>2, <1>4, <1>5 DEF Refused
<1> QED BY <1>6, NoFitRefused

LEMMA TurnKeepsSharing ==
  ASSUME NEW rs, NEW pass, NEW j, NEW next, Turning(rs, pass, j, next),
         \A k \in pass.waiting \ {j} : Precedes(rs, pass.running, j, k),
         PassedOver(rs, pass), Sharing(rs, pass)
  PROVE  Sharing(rs, next)
<1> DEFINE n == TurnsTaken(rs, pass)
<1>1. /\ n \in Nat /\ TurnsTaken(rs, next) = n + 1
  BY TurnCounts
<1>2. PICK turn \in [Given(rs, pass) -> 1 .. n] : InOrder(rs, pass, turn)
  BY DEF Sharing
<1> HIDE DEF n
<1>3. /\ InState(rs, "running") \subseteq pass.running /\ next.waiting = pass.waiting \ {j}
      /\ j \in pass.waiting /\ j \in Pending(rs) /\ j \notin pass.running
  BY DEF Turning, Decided
<1>4. CASE ~FitsAll(Pending(rs), pass, j)
  <2>1. next.running = pass.running
    BY <1>4 DEF Turning
  <2>2. Given(rs, next) = Given(rs, pass) /\ \A i : HeldAt(rs, next, turn, i) = HeldAt(rs, pass, turn, i)
    BY <2>1 DEF Given, HeldAt
  <2>3. InOrder(rs, next, turn)
    BY <1>2, <1>3, <2>1, <2>2 DEF InOrder
  <2>4. turn \in [Given(rs, next) -> 1 .. TurnsTaken(rs, next)]
    BY <1>1, <1>2, <2>2
  <2> QED BY <2>3, <2>4 DEF Sharing
<1>5. CASE FitsAll(Pending(rs), pass, j)
  <2>1. /\ next.running = pass.running \cup {j} /\ j \notin Given(rs, pass)
        /\ Given(rs, next) = Given(rs, pass) \cup {j}
    BY <1>3, <1>5 DEF Turning, Given
  <2> DEFINE later == [i \in Given(rs, next) |-> IF i = j THEN n + 1 ELSE turn[i]]
  <2>2. /\ later[j] = n + 1 /\ \A i \in Given(rs, pass) : later[i] = turn[i]
        /\ \A i \in Given(rs, pass) : turn[i] \in 1 .. n /\ later[i] < later[j]
        /\ later \in [Given(rs, next) -> 1 .. TurnsTaken(rs, next)]
    BY <1>1, <1>2, <2>1
  <2> HIDE DEF later
  <2>3. ASSUME NEW i \in Given(rs, pass)
        PROVE  HeldAt(rs, next, later, i) = HeldAt(rs, pass, turn, i)
    <3>1. ~(later[j] < later[i])
      BY <1>1, <2>2
    <3>2. {g \in Given(rs, next) : later[g] < later[i]} = {g \in Given(rs, pass) : turn[g] < turn[i]}
      BY <2>1, <2>2, <3>1
    <3> QED BY <3>2 DEF HeldAt
  <2>4. HeldAt(rs, next, later, j) = pass.running
    <3>1. {g \in Given(rs, next) : later[g] < later[j]} = Given(rs, pass)
      BY <1>1, <2>1, <2>2
    <3> QED BY <1>3, <3>1 DEF HeldAt, Given
  <2>5. ASSUME NEW i \in Given(rs, next), NEW k \in Given(rs, next) \ {i}
        PROVE  later[k] # later[i]
    BY <1>1, <1>2, <2>1, <2>2 DEF InOrder
  <2>6. ASSUME NEW i \in Given(rs, next), ~Background(i), NEW k \in Given(rs, next),
               later[k] > later[i]
        PROVE  Precedes(rs, HeldAt(rs, next, later, i), i, k)
    <3>1. i \in Given(rs, pass)
      BY <1>1, <2>1, <2>2, <2>6
    <3>2. CASE k = j
      <4>1. Background(k) \/ Precedes(rs, HeldAt(rs, pass, turn, i), i, k)
        BY <1>2, <1>3, <2>6, <3>1, <3>2 DEF InOrder
      <4> QED BY <2>3, <2>6, <3>1, <4>1 DEF Precedes
    <3>3. CASE k # j
      BY <1>2, <2>1, <2>2, <2>3, <2>6, <3>1, <3>3 DEF InOrder
    <3> QED BY <3>2, <3>3
  <2>7. ASSUME NEW i \in Given(rs, next), ~Background(i),
               NEW k \in Pending(rs) \ next.running, ~Background(k),
               k \in next.waiting \/ NoMore(k, i)
        PROVE  Precedes(rs, HeldAt(rs, next, later, i), i, k)
    <3>1. k \in Pending(rs) \ pass.running /\ k # j /\ (k \in next.waiting => k \in pass.waiting)
      BY <1>3, <2>1
    <3>2. CASE i \in Given(rs, pass)
      BY <1>2, <2>3, <2>7, <3>1, <3>2 DEF InOrder
    <3>3. CASE i = j
      <4>1. k \in pass.waiting
        BY <1>5, <2>7, <3>1, <3>3, PassedOverAsksMore
      <4> QED BY <2>4, <3>1, <3>3, <4>1
    <3> QED BY <2>1, <3>2, <3>3
  <2>8. InOrder(rs, next, later)
    BY <2>5, <2>6, <2>7 DEF InOrder
  <2> QED BY <2>2, <2>8 DEF Sharing
<1> QED BY <1>4, <1>5

LEMMA TurnKeepsYielding ==
  ASSUME NEW rs, NEW pass, NEW j, NEW next, Turning(rs, pass, j, next),
         \A k \in pass.waiting \ {j} : Precedes(rs, pass.running, j, k),
         OneConfiguration, Yielding(rs, pass)
  PROVE  Yielding(rs, next)
<1> USE DEF Turning
<1> DEFINE R0 == InState(rs, "running")
<1> SUFFICES ASSUME NEW i \in next.running \ R0, Background(i)
             PROVE  /\ \A k \in next.waiting : Background(k)
                    /\ \A k \in Pending(rs) \ next.running : Background(k) \/ Names(k) \cap Names(i) = {}
                    /\ BelowCeiling(next.running, i)
  BY DEF Yielding
<1>1. /\ pass.running \subseteq next.running /\ Present(rs) \subseteq Jobs /\ i \in Jobs
      /\ pass.running \in SUBSET Jobs /\ Pending(rs) \subseteq Jobs
  BY PendingPresent
<1>2. CASE i \in pass.running
  <2>1. /\ \A k \in pass.waiting : Background(k)
        /\ \A k \in Pending(rs) \ pass.running : Background(k) \/ Names(k) \cap Names(i) = {}
        /\ BelowCeiling(pass.running, i)
    BY <1>2 DEF Yielding
  <2>2. /\ \A k \in next.waiting : Background(k)
        /\ \A k \in Pending(rs) \ next.running : Background(k) \/ Names(k) \cap Names(i) = {}
    BY <1>1, <2>1
  <2>3. BelowCeiling(next.running, i)
    <3>1. CASE ~FitsAll(Pending(rs), pass, j)
      BY <2>1, <3>1
    <3>2. CASE FitsAll(Pending(rs), pass, j)
      <4> SUFFICES ASSUME NEW n \in Names(i), Demands[i][n].ceiling # NoCeiling
                   PROVE  \/ Used(next.running, n) <= Demands[i][n].ceiling
                          \/ Holding(next.running, n) = {i}
        BY DEF BelowCeiling
      <4>1. next.running = pass.running \cup {j} /\ j \in Jobs \ pass.running
        BY <3>2
      <4>2. CASE n \notin Names(j)
        <5>1. /\ Used(next.running, n) = Used(pass.running, n)
              /\ Holding(next.running, n) = Holding(pass.running, n)
          BY <4>1, <4>2, UsedByOthers
        <5> QED BY <2>1, <5>1 DEF BelowCeiling
      <4>3. CASE n \in Names(j)
        <5>1. Demands[j][n].ceiling = Demands[i][n].ceiling
          BY <1>1, <2>1, <4>3 DEF OneConfiguration
        <5>2. Used(pass.running, n) >= Demands[i][n].units /\ Used(pass.running, n) \in Nat
          BY <1>1, <1>2, UsedByHolder
        <5>3. Demands[i][n].units \in Nat \ {0}
          BY <1>1, DemandType
        <5>4. Used(pass.running, n) + Demands[j][n].units <= Demands[j][n].ceiling
          BY <3>2, <4>3, <5>1, <5>2, <5>3 DEF FitsAll, Fits
        <5>5. Used(next.running, n) = Used(pass.running, n) + Demands[j][n].units
          BY <1>1, <4>1, <4>3, UsedAdds
        <5> QED BY <5>1, <5>4, <5>5
      <4> QED BY <4>2, <4>3
    <3> QED BY <3>1, <3>2
  <2> QED BY <2>2, <2>3
<1>3. CASE i \notin pass.running
  <2>1. i = j /\ FitsAll(Pending(rs), pass, j) /\ next.running = pass.running \cup {j}
    BY <1>3
  <2>2. \A k \in next.waiting : Background(k)
    <3> SUFFICES ASSUME NEW k \in next.waiting PROVE Background(k)
      OBVIOUS
    <3>1. Precedes(rs, pass.running, j, k)
      OBVIOUS
    <3> QED BY <2>1, <3>1 DEF Precedes
  <2>3. ASSUME NEW k \in Pending(rs) \ next.running, ~Background(k)
        PROVE  Names(k) \cap Names(i) = {}
    <3> SUFFICES ASSUME Names(i) \cap Names(k) # {} PROVE FALSE
      OBVIOUS
    <3>1. PICK n \in Names(i) \cap Names(k) : Demands[i][n].ceiling # NoCeiling
      BY <1>1, <2>3 DEF OneConfiguration
    <3>2. UserWaiting(Pending(rs), pass.running, n)
      BY <1>1, <2>3, <3>1 DEF UserWaiting
    <3> QED BY <2>1, <3>1, <3>2 DEF FitsAll, Fits
  <2>4. BelowCeiling(next.running, i)
    <3> SUFFICES ASSUME NEW n \in Names(i), Demands[i][n].ceiling # NoCeiling
                 PROVE  \/ Used(next.running, n) <= Demands[i][n].ceiling
                        \/ Holding(next.running, n) = {i}
      BY DEF BelowCeiling
    <3>1. Used(next.running, n) = Used(pass.running, n) + Demands[j][n].units
      BY <1>1, <2>1, UsedAdds
    <3>2. \/ Used(pass.running, n) + Demands[j][n].units <= Demands[j][n].ceiling
          \/ Used(pass.running, n) = 0
      BY <2>1 DEF FitsAll, Fits
    <3>3. ASSUME Used(pass.running, n) = 0 PROVE Holding(next.running, n) = {i}
      <4> SUFFICES ASSUME NEW k \in pass.running, n \in Names(k) PROVE FALSE
        BY <2>1 DEF Holding
      <4>1. Used(pass.running, n) >= Demands[k][n].units
        BY <1>1, UsedByHolder
      <4>2. Demands[k][n].units \in Nat \ {0}
        BY <1>1, DemandType
      <4> QED BY <3>3, <4>1, <4>2
    <3> QED BY <2>1, <3>1, <3>2, <3>3
  <2> QED BY <2>2, <2>3, <2>4
<1> QED BY <1>2, <1>3

LEMMA TurnKeeps ==
  ASSUME NEW rs, WellFormed(rs), NEW pass, Verdict(rs, pass), pass.waiting # {},
         NEW next, next = Turn(rs, Pending(rs), pass)
  PROVE  /\ Verdict(rs, next) /\ IsFiniteSet(next.waiting) /\ IsFiniteSet(pass.waiting)
         /\ Cardinality(next.waiting) = Cardinality(pass.waiting) - 1
<1>1. /\ pass.waiting \in SUBSET Present(rs) /\ IsFiniteSet(pass.running) /\ IsFiniteSet(pass.waiting)
      /\ Decided(rs, Pending(rs), pass)
  <2>1. /\ Decided(rs, Pending(rs), pass) /\ pass.waiting \subseteq Pending(rs)
        /\ pass.running \subseteq Present(rs)
    BY PendingPresent DEF Verdict, Decided
  <2> QED BY <2>1, PendingPresent, FS_Subset DEF WellFormed
<1>2. PICK j \in pass.waiting :
             /\ \A k \in pass.waiting \ {j} : Precedes(rs, pass.running, j, k)
             /\ next = Taken(rs, Pending(rs), pass, j)
  BY <1>1, TurnTakes
<1>3. Turning(rs, pass, j, next)
  BY <1>1, <1>2, TurnEnds
<1>4. Decided(rs, Pending(rs), next) /\ next.waiting = pass.waiting \ {j}
  BY <1>3 DEF Turning
<1>5. Within(next.running)
  BY <1>3, TurnKeepsWithin DEF Verdict
<1>6. Reserving(rs, next)
  BY <1>3, TurnKeepsReserving DEF Verdict
<1>7. PassedOver(rs, next)
  BY <1>3, TurnKeepsPassedOver DEF Verdict
<1>8. Sharing(rs, next)
  BY <1>2, <1>3, TurnKeepsSharing DEF Verdict
<1>9. OneConfiguration => Yielding(rs, next)
  BY <1>2, <1>3, TurnKeepsYielding DEF Verdict
<1>10. IsFiniteSet(next.waiting) /\ Cardinality(next.waiting) = Cardinality(pass.waiting) - 1
  BY <1>1, <1>2, <1>4, FS_RemoveElement
<1> QED BY <1>1, <1>4, <1>5, <1>6, <1>7, <1>8, <1>9, <1>10 DEF Verdict

\* The loop ends when everybody has had a turn.
LEMMA LoopEnds ==
  ASSUME NEW rs, WellFormed(rs), Within(InState(rs, "running"))
  PROVE  \E pass : /\ Verdict(rs, pass) /\ pass.waiting = {}
                   /\ pass.running = RunningAfter(rs, Pending(rs))
<1> DEFINE n == Cardinality(Pending(rs))
           p == Passes(rs, Pending(rs))
           T == {k \in Nat : k <= n => /\ Verdict(rs, p[k]) /\ IsFiniteSet(p[k].waiting)
                                       /\ Cardinality(p[k].waiting) = n - k}
<1>1. n \in Nat /\ IsFiniteSet(Pending(rs))
  BY PendingPresent, FS_CardinalityType
<1>2. p[0] = Started(rs, Pending(rs)) /\ \A k \in 1..n : p[k] = Turn(rs, Pending(rs), p[k - 1])
  BY <1>1, PassesFollow
<1>3. Verdict(rs, Started(rs, Pending(rs)))
  <2> DEFINE start == Started(rs, Pending(rs))
  <2>1. start.waiting = Pending(rs) /\ start.running = InState(rs, "running") /\ start.reserved = {}
    BY DEF Started
  <2>2. Decided(rs, Pending(rs), start)
    BY <2>1, PendingPresent DEF Decided, Started
  <2> HIDE DEF start
  <2>3. Reserving(rs, start) /\ PassedOver(rs, start) /\ Yielding(rs, start)
    BY <2>1 DEF Reserving, PassedOver, Yielding
  <2>4. Given(rs, start) = {}
    BY <2>1 DEF Given
  <2>5. [i \in {} |-> 1] \in [Given(rs, start) -> 1 .. TurnsTaken(rs, start)]
        /\ InOrder(rs, start, [i \in {} |-> 1])
    BY <2>4 DEF InOrder
  <2> QED BY <2>1, <2>2, <2>3, <2>5 DEF Verdict, Sharing, start
<1>4. 0 \in T
  <2>1. p[0].waiting = Pending(rs)
    BY <1>2 DEF Started
  <2> QED BY <1>1, <1>2, <1>3, <2>1
<1>5. ASSUME NEW k \in T PROVE k + 1 \in T
  <2> SUFFICES ASSUME k + 1 <= n
               PROVE  /\ Verdict(rs, p[k + 1]) /\ IsFiniteSet(p[k + 1].waiting)
                      /\ Cardinality(p[k + 1].waiting) = n - (k + 1)
    OBVIOUS
  <2>1. k \in Nat /\ k <= n /\ k + 1 \in 1..n /\ (k + 1) - 1 = k
    BY <1>1
  <2>2. Verdict(rs, p[k]) /\ IsFiniteSet(p[k].waiting) /\ Cardinality(p[k].waiting) = n - k
    BY <2>1
  <2>3. p[k + 1] = Turn(rs, Pending(rs), p[k])
    BY <1>2, <2>1
  <2> HIDE DEF n, p
  <2>4. p[k].waiting # {}
    BY <1>1, <2>1, <2>2, FS_EmptySet
  <2>5. /\ Verdict(rs, p[k + 1]) /\ IsFiniteSet(p[k + 1].waiting)
        /\ Cardinality(p[k + 1].waiting) = Cardinality(p[k].waiting) - 1
    BY <2>2, <2>3, <2>4, TurnKeeps
  <2> QED BY <1>1, <2>1, <2>2, <2>5
<1>6. T = Nat
  <2> HIDE DEF T
  <2>1. T \in SUBSET Nat
    BY DEF T
  <2> QED BY <1>4, <1>5, <2>1, SetInduction
<1>7. Verdict(rs, p[n]) /\ IsFiniteSet(p[n].waiting) /\ Cardinality(p[n].waiting) = 0
  <2>1. n \in T /\ n <= n /\ n - n = 0
    BY <1>1, <1>6
  <2> QED BY <2>1
<1>8. p[n].waiting = {}
  BY <1>7, FS_EmptySet
<1> QED BY <1>7, <1>8 DEF RunningAfter

-----------------------------------------------------------------------------
(* Changes of the rows.                                                    *)

Promoted(rs, running) ==
  [j \in Jobs |-> IF j \in running THEN [rs[j] EXCEPT !.state = "running"] ELSE rs[j]]

LEMMA PromotedRows ==
  ASSUME NEW rs, WellFormed(rs), NEW pass, Verdict(rs, pass),
         NEW new, new = Promoted(rs, pass.running)
  PROVE  /\ WellFormed(new) /\ Present(new) = Present(rs)
         /\ InState(new, "running") = pass.running
         /\ InState(new, "waiting") = InState(rs, "waiting") \ pass.running
         /\ \A j \in Jobs : /\ new[j].late = rs[j].late /\ new[j].aged = rs[j].aged
                            /\ new[j].lapsed = rs[j].lapsed /\ new[j].behind = rs[j].behind
<1>1. /\ InState(rs, "running") \subseteq pass.running
      /\ pass.running \subseteq InState(rs, "running") \cup Pending(rs)
  BY DEF Verdict, Decided
<1>2. rs \in [Jobs -> Row]
  BY DEF WellFormed
<1>3. pass.running \subseteq Present(rs)
  BY <1>1, PendingPresent
<1>4. new \in [Jobs -> Row]
  <2> SUFFICES ASSUME NEW j \in Jobs
               PROVE  (IF j \in pass.running THEN [rs[j] EXCEPT !.state = "running"] ELSE rs[j]) \in Row
    BY DEF Promoted
  <2>1. rs[j] \in Row
    BY <1>2
  <2> QED BY <2>1 DEF Row
<1>5. ASSUME NEW j \in Jobs
      PROVE  /\ new[j].state = IF j \in pass.running THEN "running" ELSE rs[j].state
             /\ new[j].behind = rs[j].behind /\ new[j].late = rs[j].late
             /\ new[j].aged = rs[j].aged /\ new[j].lapsed = rs[j].lapsed
  <2>1. rs[j] \in Row
    BY <1>2
  <2>2. new[j] = IF j \in pass.running THEN [rs[j] EXCEPT !.state = "running"] ELSE rs[j]
    BY DEF Promoted
  <2> QED BY <2>1, <2>2 DEF Row
<1>6. \A j \in Jobs : (new[j].state = "none") = (rs[j].state = "none")
  BY <1>3, <1>5 DEF Present
<1>7. WellFormed(new) /\ Present(new) = Present(rs)
  BY <1>4, <1>5, <1>6, SameOrder
<1>8. pass.running \subseteq Jobs
  BY <1>3, PendingPresent
<1>9. InState(new, "running") = pass.running
  BY <1>1, <1>5, <1>8 DEF InState
<1>10. InState(new, "waiting") = InState(rs, "waiting") \ pass.running
  BY <1>5 DEF InState
<1> QED BY <1>5, <1>7, <1>9, <1>10

LEMMA WithinShrinks ==
  ASSUME NEW R, NEW S \in SUBSET Jobs, R \subseteq S, IsFiniteSet(S), Within(S)
  PROVE  Within(R)
<1> SUFFICES ASSUME NEW j \in R, NEW n \in Names(j) PROVE Used(R, n) <= Demands[j][n].limit
  BY DEF Within
<1>1. Used(R, n) <= Used(S, n) /\ Used(R, n) \in Nat /\ Used(S, n) \in Nat
  BY UsedGrows
<1>2. Used(S, n) <= Demands[j][n].limit /\ Demands[j][n].limit \in Nat
  BY DemandType DEF Within
<1> QED BY <1>1, <1>2

\* A caller that waits or runs has a row that has not lapsed, and runs only with a
\* granted one.
Attended ==
  \A j \in Jobs :
    /\ phase[j] # "idle" => rows[j].state # "none" /\ ~rows[j].lapsed
    /\ phase[j] = "running" => rows[j].state = "running"

ResourceInv ==
  /\ WellFormed(rows) /\ Within(InState(rows, "running"))
  /\ phase \in [Jobs -> {"idle", "waiting", "running"}] /\ Attended

LEMMA RunningFinite ==
  ASSUME NEW rs, WellFormed(rs)
  PROVE  InState(rs, "running") \in SUBSET Jobs /\ IsFiniteSet(InState(rs, "running"))
<1>1. InState(rs, "running") \subseteq Present(rs) /\ Present(rs) \subseteq Jobs
  BY PendingPresent
<1> QED BY <1>1, FS_Subset DEF WellFormed

LEMMA UnexpiredRows ==
  ASSUME ResourceInv
  PROVE  /\ WellFormed(Unexpired(rows)) /\ Within(InState(Unexpired(rows), "running"))
         /\ InState(Unexpired(rows), "running") = {j \in InState(rows, "running") : ~rows[j].lapsed}
         /\ Present(Unexpired(rows)) = {j \in Present(rows) : ~rows[j].lapsed}
         /\ \A j \in Present(Unexpired(rows)) :
              /\ Unexpired(rows)[j].state = rows[j].state /\ ~Unexpired(rows)[j].lapsed
<1> DEFINE kept == {j \in Present(rows) : ~rows[j].lapsed}
<1>1. WellFormed(rows) /\ Within(InState(rows, "running")) /\ kept \in SUBSET Present(rows)
  BY DEF ResourceInv
<1>2. /\ WellFormed(Unexpired(rows)) /\ Present(Unexpired(rows)) = kept
      /\ InState(Unexpired(rows), "running") = InState(rows, "running") \cap kept
      /\ \A j \in kept : Unexpired(rows)[j] = [rows[j] EXCEPT !.behind = rows[j].behind \cap kept]
  BY <1>1, KeepWellFormed DEF Unexpired
<1>3. InState(rows, "running") \cap kept = {j \in InState(rows, "running") : ~rows[j].lapsed}
  BY <1>1, PendingPresent
<1>4. Within(InState(Unexpired(rows), "running"))
  BY <1>1, <1>2, RunningFinite, WithinShrinks
<1>5. ASSUME NEW j \in kept
      PROVE  Unexpired(rows)[j].state = rows[j].state /\ ~Unexpired(rows)[j].lapsed
  <2>1. rows[j] \in Row /\ ~rows[j].lapsed
    BY <1>1 DEF WellFormed, Present
  <2> QED BY <1>2, <2>1 DEF Row
<1> QED BY <1>2, <1>3, <1>4, <1>5

\* What a request or a poll does: the lapsed rows go, a row may come, and the loop runs.
LEMMA ChangeEnds ==
  ASSUME ResourceInv, NEW c \in Jobs, Request(c) \/ Refresh(c)
  PROVE  \E rs, pass :
           /\ WellFormed(rs) /\ Verdict(rs, pass) /\ pass.waiting = {}
           /\ InState(rs, "running") = InState(Unexpired(rows), "running")
           /\ rows' = Promoted(rs, pass.running)
           /\ phase' = [phase EXCEPT ![c] = rows'[c].state]
           /\ c \in Present(rs) /\ ~rs[c].lapsed
           /\ \A j \in Jobs \ {c} : phase[j] # "idle" =>
                j \in Present(rs) /\ rs[j].state = rows[j].state /\ ~rs[j].lapsed
           /\ phase[c] # "idle" => rs[c].state = rows[c].state
           /\ \A j \in Present(rs) : ~rs[j].lapsed
<1>1. ASSUME NEW rs, WellFormed(rs), InState(rs, "running") = InState(Unexpired(rows), "running"),
             Promote(rs)
      PROVE  \E pass : Verdict(rs, pass) /\ pass.waiting = {} /\ rows' = Promoted(rs, pass.running)
  <2>1. Within(InState(rs, "running"))
    BY <1>1, UnexpiredRows
  <2>2. PICK pass : Verdict(rs, pass) /\ pass.waiting = {}
                    /\ pass.running = RunningAfter(rs, Pending(rs))
    BY <1>1, <2>1, LoopEnds
  <2>3. rows' = Promoted(rs, RunningAfter(rs, Pending(rs)))
    BY <1>1, Zenon DEF Promote, Promoted
  <2> QED BY <2>2, <2>3
<1>2. ASSUME NEW j \in Jobs, phase[j] # "idle"
      PROVE  /\ j \in Present(Unexpired(rows))
             /\ Unexpired(rows)[j].state = rows[j].state /\ ~Unexpired(rows)[j].lapsed
  <2>1. rows[j].state # "none" /\ ~rows[j].lapsed
    BY <1>2 DEF ResourceInv, Attended
  <2> QED BY <2>1, UnexpiredRows DEF Present
<1>3. CASE Refresh(c)
  <2>1. /\ Promote(Unexpired(rows)) /\ phase' = [phase EXCEPT ![c] = rows'[c].state]
        /\ phase[c] # "idle"
    BY <1>3 DEF Refresh
  <2>2. PICK rs : rs = Unexpired(rows)
    OBVIOUS
  <2>3. PICK pass : Verdict(rs, pass) /\ pass.waiting = {} /\ rows' = Promoted(rs, pass.running)
    BY <1>1, <2>1, <2>2, UnexpiredRows
  <2> QED BY <1>2, <2>1, <2>2, <2>3, UnexpiredRows
<1>4. CASE Request(c)
  <2>1. PICK before : before = Unexpired(rows)
    OBVIOUS
  <2>2. PICK rs : rs = Enqueued(before, c)
    OBVIOUS
  <2>3. /\ phase[c] = "idle" /\ (rows[c] = NoRow \/ rows[c].lapsed)
        /\ ~Mismatched(before, c) /\ Promote(rs)
        /\ phase' = [phase EXCEPT ![c] = rows'[c].state]
    BY <1>4, <2>1, <2>2 DEF Request
  <2>4. WellFormed(before) /\ c \in Jobs \ Present(before)
    <3>1. c \notin Present(rows) \/ rows[c].lapsed
      BY <2>3 DEF NoRow, Present
    <3> QED BY <2>1, <3>1, UnexpiredRows
  <2>5. /\ WellFormed(rs) /\ Present(rs) = Present(before) \cup {c}
        /\ InState(rs, "running") = InState(before, "running")
    BY <2>2, <2>3, <2>4, EnqueuedWellFormed
  <2>6. PICK pass : Verdict(rs, pass) /\ pass.waiting = {} /\ rows' = Promoted(rs, pass.running)
    BY <1>1, <2>1, <2>3, <2>5
  <2>7. ~rs[c].lapsed /\ \A j \in Jobs \ {c} : rs[j] = before[j]
    BY <2>2, <2>4 DEF Enqueued, NoRow, WellFormed
  <2>8. ASSUME NEW j \in Jobs \ {c}, phase[j] # "idle"
        PROVE  j \in Present(rs) /\ rs[j].state = rows[j].state /\ ~rs[j].lapsed
    BY <1>2, <2>1, <2>5, <2>7, <2>8
  <2>9. \A j \in Present(rs) : ~rs[j].lapsed
    <3>1. \A j \in Present(before) : ~before[j].lapsed
      BY <2>1, UnexpiredRows
    <3>2. Present(rs) \subseteq Jobs
      BY <2>5, PendingPresent
    <3> QED BY <2>5, <2>7, <3>1, <3>2
  <2> QED BY <2>1, <2>3, <2>5, <2>6, <2>7, <2>8, <2>9
<1> QED BY <1>3, <1>4

-----------------------------------------------------------------------------
(* The invariant.                                                          *)

LEMMA ChangeKeepsInv ==
  ASSUME ResourceInv, NEW c \in Jobs, Request(c) \/ Refresh(c)
  PROVE  ResourceInv'
<1>1. PICK rs, pass :
           /\ WellFormed(rs) /\ Verdict(rs, pass) /\ pass.waiting = {}
           /\ InState(rs, "running") = InState(Unexpired(rows), "running")
           /\ rows' = Promoted(rs, pass.running)
           /\ phase' = [phase EXCEPT ![c] = rows'[c].state]
           /\ c \in Present(rs) /\ ~rs[c].lapsed
           /\ \A j \in Jobs \ {c} : phase[j] # "idle" =>
                j \in Present(rs) /\ rs[j].state = rows[j].state /\ ~rs[j].lapsed
           /\ phase[c] # "idle" => rs[c].state = rows[c].state
  BY ChangeEnds
<1>2. PICK new : new = rows'
  OBVIOUS
<1>3. /\ WellFormed(new) /\ Present(new) = Present(rs)
      /\ InState(new, "running") = pass.running
      /\ \A j \in Jobs : new[j].lapsed = rs[j].lapsed
  BY <1>1, <1>2, PromotedRows
<1>4. Within(InState(new, "running"))
  BY <1>1, <1>3 DEF Verdict
<1>5. new[c].state \in {"waiting", "running"} /\ new \in [Jobs -> Row]
  <2>1. new \in [Jobs -> Row] /\ c \in Present(new)
    BY <1>1, <1>3 DEF WellFormed
  <2>2. new[c] \in Row /\ new[c].state # "none"
    BY <2>1 DEF Present
  <2> QED BY <2>1, <2>2 DEF Row
<1>6. phase' \in [Jobs -> {"idle", "waiting", "running"}] /\ phase'[c] = new[c].state
      /\ \A j \in Jobs \ {c} : phase'[j] = phase[j]
  BY <1>1, <1>2, <1>5 DEF ResourceInv
<1>7. ASSUME NEW j \in Jobs
      PROVE  /\ phase'[j] # "idle" => new[j].state # "none" /\ ~new[j].lapsed
             /\ phase'[j] = "running" => new[j].state = "running"
  <2>1. CASE j = c
    BY <1>1, <1>3, <1>5, <1>6, <2>1
  <2>2. CASE j # c /\ phase[j] # "idle"
    <3>1. j \in Present(rs) /\ rs[j].state = rows[j].state /\ ~rs[j].lapsed /\ phase'[j] = phase[j]
      BY <1>1, <1>6, <2>2
    <3>2. new[j].state # "none" /\ ~new[j].lapsed
      BY <1>3, <3>1 DEF Present
    <3>3. phase[j] = "running" => rs[j].state = "running"
      BY <3>1 DEF ResourceInv, Attended
    <3>4. rs[j].state = "running" => j \in pass.running
      BY <1>1 DEF Verdict, Decided, InState
    <3>5. j \in pass.running => new[j].state = "running"
      BY <1>3 DEF InState
    <3> QED BY <3>1, <3>2, <3>3, <3>4, <3>5
  <2>3. CASE j # c /\ phase[j] = "idle"
    BY <1>6, <2>3
  <2> QED BY <2>1, <2>2, <2>3
<1>8. Attended'
  BY <1>2, <1>7 DEF Attended
<1> QED BY <1>2, <1>3, <1>4, <1>6, <1>8 DEF ResourceInv

LEMMA LeaveKeepsInv ==
  ASSUME ResourceInv, NEW c \in Jobs, Leave(c)
  PROVE  /\ ResourceInv' /\ InState(rows', "running") \subseteq InState(rows, "running")
         /\ \A j \in InState(rows', "running") : rows[j].lapsed => rows'[j].lapsed
<1> DEFINE kept == Present(rows) \ {c}
<1>1. PICK new : new = rows'
  OBVIOUS
<1>2. new = Keep(rows, kept) /\ phase' = [phase EXCEPT ![c] = "idle"]
  BY <1>1 DEF Leave
<1>3. WellFormed(rows) /\ kept \in SUBSET Present(rows)
  BY DEF ResourceInv
<1>4. /\ WellFormed(new) /\ Present(new) = kept
      /\ InState(new, "running") = InState(rows, "running") \cap kept
      /\ \A j \in kept : new[j] = [rows[j] EXCEPT !.behind = rows[j].behind \cap kept]
  BY <1>2, <1>3, KeepWellFormed
<1>5. Within(InState(new, "running"))
  BY <1>3, <1>4, RunningFinite, WithinShrinks DEF ResourceInv
<1>6. /\ phase' \in [Jobs -> {"idle", "waiting", "running"}] /\ phase'[c] = "idle"
      /\ \A j \in Jobs \ {c} : phase'[j] = phase[j]
  BY <1>2 DEF ResourceInv
<1>7. ASSUME NEW j \in Jobs
      PROVE  /\ phase'[j] # "idle" => new[j].state # "none" /\ ~new[j].lapsed
             /\ phase'[j] = "running" => new[j].state = "running"
  <2>1. CASE j = c
    BY <1>6, <2>1
  <2>2. CASE j # c /\ phase[j] # "idle"
    <3>1. rows[j].state # "none" /\ ~rows[j].lapsed /\ (phase[j] = "running" => rows[j].state = "running")
      BY <2>2 DEF ResourceInv, Attended
    <3>2. j \in kept /\ rows[j] \in Row
      BY <1>3, <2>2, <3>1 DEF Present, WellFormed
    <3>3. new[j].state = rows[j].state /\ new[j].lapsed = rows[j].lapsed
      BY <1>4, <3>2 DEF Row
    <3> QED BY <1>6, <2>2, <3>1, <3>3
  <2>3. CASE j # c /\ phase[j] = "idle"
    BY <1>6, <2>3
  <2> QED BY <2>1, <2>2, <2>3
<1>8. Attended'
  BY <1>1, <1>7 DEF Attended
<1>9. ASSUME NEW j \in InState(new, "running") PROVE new[j].lapsed = rows[j].lapsed
  <2>1. j \in kept /\ rows[j] \in Row
    BY <1>3, <1>4 DEF WellFormed, Present
  <2> QED BY <1>4, <2>1 DEF Row
<1> QED BY <1>1, <1>4, <1>5, <1>6, <1>8, <1>9 DEF ResourceInv

LEMMA TimeKeepsInv ==
  ASSUME ResourceInv, NEW c \in Jobs, Crash(c) \/ Lapse(c) \/ Age(c) \/ PassDeadline(c)
  PROVE  /\ ResourceInv' /\ InState(rows', "running") = InState(rows, "running")
         /\ \A j \in InState(rows', "running") : rows[j].lapsed => rows'[j].lapsed
<1>1. WellFormed(rows) /\ rows \in [Jobs -> Row] /\ rows[c] \in Row
  BY DEF ResourceInv, WellFormed
<1>2. CASE Crash(c)
  <2>1. /\ phase' = [phase EXCEPT ![c] = "idle"] /\ rows' = rows
    BY <1>2 DEF Crash
  <2>2. phase' \in [Jobs -> {"idle", "waiting", "running"}] /\ Attended'
    BY <2>1 DEF ResourceInv, Attended
  <2> QED BY <2>1, <2>2 DEF ResourceInv
<1>3. CASE Lapse(c) \/ Age(c) \/ PassDeadline(c)
  <2>1. PICK new : new = rows'
    OBVIOUS
  <2>2. /\ phase' = phase
        /\ \/ phase[c] = "idle" /\ new = [rows EXCEPT ![c].lapsed = TRUE]
           \/ new = [rows EXCEPT ![c].aged = TRUE]
           \/ new = [rows EXCEPT ![c].late = TRUE]
    BY <1>3, <2>1 DEF Lapse, Age, PassDeadline
  <2>3. new \in [Jobs -> Row] /\ \A j \in Jobs : /\ new[j].behind = rows[j].behind
                                                 /\ new[j].state = rows[j].state
                                                 /\ phase[j] # "idle" => new[j].lapsed = rows[j].lapsed
    <3>1. CASE phase[c] = "idle" /\ new = [rows EXCEPT ![c].lapsed = TRUE]
      <4>1. \A j \in Jobs : new[j] = IF j = c THEN [rows[c] EXCEPT !.lapsed = TRUE] ELSE rows[j]
        BY <1>1, <3>1
      <4>2. [rows[c] EXCEPT !.lapsed = TRUE] \in Row
        BY <1>1 DEF Row
      <4>3. new = [j \in Jobs |-> new[j]]
        BY <1>1, <3>1
      <4> QED BY <1>1, <3>1, <4>1, <4>2, <4>3 DEF Row
    <3>2. CASE new = [rows EXCEPT ![c].aged = TRUE]
      <4>1. \A j \in Jobs : new[j] = IF j = c THEN [rows[c] EXCEPT !.aged = TRUE] ELSE rows[j]
        BY <1>1, <3>2
      <4>2. LET own == [rows[c] EXCEPT !.aged = TRUE] IN
              /\ own \in Row /\ own.behind = rows[c].behind /\ own.state = rows[c].state
              /\ own.lapsed = rows[c].lapsed
        BY <1>1 DEF Row
      <4>3. new = [j \in Jobs |-> new[j]]
        BY <1>1, <3>2
      <4> QED BY <1>1, <4>1, <4>2, <4>3
    <3>3. CASE new = [rows EXCEPT ![c].late = TRUE]
      <4>1. \A j \in Jobs : new[j] = IF j = c THEN [rows[c] EXCEPT !.late = TRUE] ELSE rows[j]
        BY <1>1, <3>3
      <4>2. LET own == [rows[c] EXCEPT !.late = TRUE] IN
              /\ own \in Row /\ own.behind = rows[c].behind /\ own.state = rows[c].state
              /\ own.lapsed = rows[c].lapsed
        BY <1>1 DEF Row
      <4>3. new = [j \in Jobs |-> new[j]]
        BY <1>1, <3>3
      <4> QED BY <1>1, <4>1, <4>2, <4>3
    <3> QED BY <2>2, <3>1, <3>2, <3>3
  <2>4. WellFormed(new)
    BY <1>1, <2>3, SameOrder
  <2>5. InState(new, "running") = InState(rows, "running")
    BY <2>3 DEF InState
  <2>6. ASSUME NEW j \in Jobs
        PROVE  /\ phase[j] # "idle" => new[j].state # "none" /\ ~new[j].lapsed
               /\ phase[j] = "running" => new[j].state = "running"
    BY <2>3 DEF ResourceInv, Attended
  <2>7. Attended'
    BY <2>1, <2>2, <2>6 DEF Attended
  <2>8. ASSUME NEW j \in InState(rows, "running") PROVE rows[j].lapsed => new[j].lapsed
    <3>1. j \in Jobs /\ rows[j] \in Row
      BY <1>1 DEF InState
    <3> QED BY <1>1, <2>2, <3>1 DEF Row
  <2> QED BY <2>1, <2>2, <2>4, <2>5, <2>7, <2>8 DEF ResourceInv
<1> QED BY <1>2, <1>3

LEMMA StepKinds ==
  ASSUME [Next]_vars, vars' # vars
  PROVE  \E c \in Jobs : \/ Request(c) \/ Refresh(c) \/ Leave(c)
                         \/ Crash(c) \/ Lapse(c) \/ Age(c) \/ PassDeadline(c)
BY DEF Next, Step, Finish, Cancel, TimeOut

LEMMA ResourceInvariant == Spec => []ResourceInv
<1>1. Init => ResourceInv
  <2> SUFFICES ASSUME Init PROVE ResourceInv
    OBVIOUS
  <2>1. rows \in [Jobs -> Row] /\ Present(rows) = {} /\ InState(rows, "running") = {}
    BY DEF Init, NoRow, Row, Present, InState
  <2>2. WellFormed(rows)
    BY <2>1, FS_EmptySet DEF WellFormed, Ordered, LimitsAgree
  <2> QED BY <2>1, <2>2 DEF ResourceInv, Init, Within, Attended
<1>2. ResourceInv /\ [Next]_vars => ResourceInv'
  <2> SUFFICES ASSUME ResourceInv, [Next]_vars PROVE ResourceInv'
    OBVIOUS
  <2>1. CASE vars' = vars
    BY <2>1 DEF vars, ResourceInv, Attended
  <2>2. CASE vars' # vars
    <3>1. PICK c \in Jobs : \/ Request(c) \/ Refresh(c) \/ Leave(c)
                            \/ Crash(c) \/ Lapse(c) \/ Age(c) \/ PassDeadline(c)
      BY <2>2, StepKinds
    <3> QED BY <3>1, ChangeKeepsInv, LeaveKeepsInv, TimeKeepsInv
  <2> QED BY <2>1, <2>2
<1> QED BY <1>1, <1>2, PTL DEF Spec

\* Every row is well formed, and a caller runs only with a granted row.
\* (ResourceScheduler.acquire().)
THEOREM ResourcesStayTyped == Spec => []TypeOK
<1>1. ResourceInv => TypeOK
  BY DEF ResourceInv, WellFormed, Attended, TypeOK
<1> QED BY <1>1, ResourceInvariant, PTL

\* The units granted of a resource never exceed its limit, for any number of jobs,
\* resources and owners, however callers crash, lapse, age and are cancelled, and
\* although processes may be configured with different limits.  (promoteResources().)
THEOREM GrantsStayWithinLimits == Spec => []UsageWithinLimits
<1>1. ResourceInv => UsageWithinLimits
  BY DEF ResourceInv, Within, UsageWithinLimits, RunningRows
<1> QED BY <1>1, ResourceInvariant, PTL

\* After a change no user waits for what is free, unless an aged user who waits has
\* reserved it.  (promoteResources().)
THEOREM NobodyWaitsForFree == Spec => WorkConserving
<1>1. ASSUME ResourceInv, NEW j \in WaitingUsers', NEW c \in Jobs, Request(c) \/ Refresh(c)
      PROVE  \E n \in Names(j) :
               \/ Used(RunningRows', n) + Demands[j][n].units > Demands[j][n].limit
               \/ \E k \in WaitingUsers' : rows'[k].aged /\ n \in Names(k)
  <2>1. PICK rs, pass :
             /\ WellFormed(rs) /\ Verdict(rs, pass) /\ pass.waiting = {}
             /\ rows' = Promoted(rs, pass.running)
    BY <1>1, ChangeEnds
  <2>2. PICK new : new = rows'
    OBVIOUS
  <2>3. /\ InState(new, "running") = pass.running
        /\ InState(new, "waiting") = InState(rs, "waiting") \ pass.running
        /\ \A i \in Jobs : new[i].late = rs[i].late /\ new[i].aged = rs[i].aged
    BY <2>1, <2>2, PromotedRows
  <2>4. RunningRows' = pass.running
    BY <2>2, <2>3 DEF RunningRows
  <2>5. WaitingUsers' = {k \in Pending(rs) \ pass.running : ~Background(k)}
    BY <2>2, <2>3 DEF WaitingUsers, Pending, InState
  <2>6. Refused(pass, j)
    BY <2>1, <2>5 DEF Verdict, PassedOver
  <2>7. PICK n \in Names(j) : n \in pass.reserved
                              \/ Used(pass.running, n) + Demands[j][n].units > Demands[j][n].limit
    BY <2>6 DEF Refused
  <2>8. ASSUME n \in pass.reserved
        PROVE  \E k \in WaitingUsers' : rows'[k].aged /\ n \in Names(k)
    <3>1. PICK k \in Pending(rs) \ pass.running : ~Background(k) /\ rs[k].aged /\ n \in Names(k)
      BY <2>1, <2>8 DEF Verdict, Reserving
    <3>2. k \in WaitingUsers' /\ k \in Jobs
      BY <2>1, <2>5, <3>1, PendingPresent
    <3> QED BY <2>2, <2>3, <3>1, <3>2
  <2> QED BY <2>4, <2>7, <2>8
<1>2. ResourceInv /\ [Next]_vars =>
        [\A j \in WaitingUsers' :
           \/ \E n \in Names(j) :
                \/ Used(RunningRows', n) + Demands[j][n].units > Demands[j][n].limit
                \/ \E k \in WaitingUsers' : rows'[k].aged /\ n \in Names(k)
           \/ ~ \E c \in Jobs : Request(c) \/ Refresh(c)]_vars
  BY <1>1
<1> QED BY <1>2, ResourceInvariant, PTL DEF Spec, WorkConserving

\* A grant is made only by a request or a poll.
LEMMA GrantedByChange ==
  ASSUME ResourceInv, [Next]_vars, NEW j \in Jobs, Granted(j)
  PROVE  \E rs, pass :
           /\ WellFormed(rs) /\ Verdict(rs, pass) /\ pass.waiting = {}
           /\ InState(rs, "running") = InState(Unexpired(rows), "running")
           /\ RunningRows' = pass.running /\ Present(rows') = Present(rs)
           /\ WaitingUsers' = {k \in Pending(rs) \ pass.running : ~Background(k)}
           /\ \A k \in Jobs : rows'[k].behind = rs[k].behind
           /\ Grants = Given(rs, pass)
<1>1. vars' # vars
  BY DEF Granted, vars
<1>2. ASSUME NEW c \in Jobs, Leave(c) \/ Crash(c) \/ Lapse(c) \/ Age(c) \/ PassDeadline(c)
      PROVE  FALSE
  <2>1. /\ InState(rows', "running") \subseteq InState(rows, "running")
        /\ \A i \in InState(rows', "running") : rows[i].lapsed => rows'[i].lapsed
    BY <1>2, LeaveKeepsInv, TimeKeepsInv
  <2> QED BY <2>1 DEF Granted, InState
<1>3. PICK c \in Jobs : Request(c) \/ Refresh(c)
  BY <1>1, <1>2, StepKinds
<1>4. PICK rs, pass :
           /\ WellFormed(rs) /\ Verdict(rs, pass) /\ pass.waiting = {}
           /\ InState(rs, "running") = InState(Unexpired(rows), "running")
           /\ rows' = Promoted(rs, pass.running)
           /\ \A k \in Present(rs) : ~rs[k].lapsed
  BY <1>3, ChangeEnds
<1>5. PICK new : new = rows'
  OBVIOUS
<1>6. /\ InState(new, "running") = pass.running /\ Present(new) = Present(rs)
      /\ InState(new, "waiting") = InState(rs, "waiting") \ pass.running
      /\ \A i \in Jobs : /\ new[i].late = rs[i].late /\ new[i].aged = rs[i].aged
                         /\ new[i].lapsed = rs[i].lapsed /\ new[i].behind = rs[i].behind
  BY <1>4, <1>5, PromotedRows
<1>7. RunningRows' = pass.running
  BY <1>5, <1>6 DEF RunningRows
<1>8. WaitingUsers' = {k \in Pending(rs) \ pass.running : ~Background(k)}
  BY <1>5, <1>6 DEF WaitingUsers, Pending, InState
<1>9. Grants = Given(rs, pass)
  <2>1. InState(rs, "running") = {k \in InState(rows, "running") : ~rows[k].lapsed}
    BY <1>4, UnexpiredRows
  <2>2. pass.running \subseteq Present(rs) /\ Present(rs) \subseteq Jobs
    BY <1>4, PendingPresent DEF Verdict, Decided
  <2>3. \A k \in pass.running : ~new[k].lapsed
    BY <1>4, <1>6, <2>2
  <2> QED BY <1>5, <1>6, <2>1, <2>2, <2>3 DEF Grants, Granted, Given, InState
<1> QED BY <1>4, <1>5, <1>6, <1>7, <1>8, <1>9

\* What one change grants can be ordered by the shares of each moment: no user is granted
\* before another who was due earlier, be it granted later or left waiting although it
\* asks for no more; for any number of grants in one pass.  (The sort of
\* promoteResources() is repeated after every grant.)
THEOREM OwnersTakeTurns == Spec => OwnersShare
<1> DEFINE held0 == InState(Unexpired(rows), "running")
           Held(turn, j) == held0 \cup {g \in Grants : turn[g] < turn[j]}
           Ordering(turn) ==
             \A j \in Grants :
               /\ \A k \in Grants \ {j} : turn[k] # turn[j]
               /\ ~Background(j) =>
                    LET held == Held(turn, j)
                    IN /\ \A k \in Grants : ~Background(k) /\ turn[k] > turn[j] => Due(held, j, k)
                       /\ \A k \in WaitingUsers' : NoMore(k, j) => Due(held, j, k)
           Shared == \E turn \in [Grants -> 1 .. Cardinality(Present(rows'))] : Ordering(turn)
<1>1. ASSUME ResourceInv, [Next]_vars PROVE Shared
  <2>1. CASE Grants = {}
    <3>1. [g \in {} |-> 1] \in [Grants -> 1 .. Cardinality(Present(rows'))]
      BY <2>1
    <3>2. Ordering([g \in {} |-> 1])
      BY <2>1
    <3> QED BY <3>1, <3>2
  <2>2. CASE Grants # {}
    <3>1. PICK j \in Jobs : Granted(j)
      BY <2>2 DEF Grants
    <3>2. PICK rs, pass :
             /\ WellFormed(rs) /\ Verdict(rs, pass) /\ pass.waiting = {}
             /\ InState(rs, "running") = held0
             /\ RunningRows' = pass.running /\ Present(rows') = Present(rs)
             /\ WaitingUsers' = {k \in Pending(rs) \ pass.running : ~Background(k)}
             /\ \A k \in Jobs : rows'[k].behind = rs[k].behind
             /\ Grants = Given(rs, pass)
      BY <1>1, <3>1, GrantedByChange
    <3>3. PICK turn \in [Grants -> 1 .. TurnsTaken(rs, pass)] : InOrder(rs, pass, turn)
      BY <3>2 DEF Verdict, Sharing
    <3>4. turn \in [Grants -> 1 .. Cardinality(Present(rows'))]
      <4>1. TurnsTaken(rs, pass) = Cardinality(Pending(rs))
        BY <3>2 DEF TurnsTaken
      <4>2. /\ Cardinality(Pending(rs)) <= Cardinality(Present(rs))
            /\ Cardinality(Pending(rs)) \in Nat /\ Cardinality(Present(rs)) \in Nat
        BY <3>2, PendingPresent, FS_Subset, FS_CardinalityType DEF WellFormed
      <4>3. 1 .. TurnsTaken(rs, pass) \subseteq 1 .. Cardinality(Present(rows'))
        BY <3>2, <4>1, <4>2
      <4> QED BY <3>3, <4>3
    <3>5. \A i : HeldAt(rs, pass, turn, i) = Held(turn, i)
      BY <3>2 DEF HeldAt
    <3>6. ASSUME NEW held, NEW i \in Jobs, NEW k \in Jobs, ~Background(i), ~Background(k),
                 IsFiniteSet(held), Precedes(rs, held, i, k)
          PROVE  Due(held, i, k)
      <4>1. /\ OwnerShares(held, i) \in Nat /\ OwnerShares(held, k) \in Nat
            /\ TaskShares(held, i) \in Nat /\ TaskShares(held, k) \in Nat
        BY <3>6, SharesGrow
      <4>2. rows'[k].behind = rs[k].behind
        BY <3>2
      <4> QED BY <3>6, <4>1, <4>2 DEF Precedes, Due
    <3>7. \A i : IsFiniteSet(Held(turn, i))
      <4>1. pass.running \subseteq Present(rs) /\ held0 \subseteq pass.running
        BY <3>2, PendingPresent DEF Verdict, Decided
      <4>2. \A i : Held(turn, i) \subseteq Present(rs)
        BY <3>2, <4>1 DEF Given
      <4> QED BY <3>2, <4>2, FS_Subset DEF WellFormed
    <3>8. Grants \subseteq Jobs /\ WaitingUsers' \subseteq Jobs
      BY <3>2, PendingPresent DEF Grants
    <3>9. ASSUME NEW i \in Grants, NEW k \in Grants \ {i} PROVE turn[k] # turn[i]
      BY <3>2, <3>3 DEF InOrder
    <3>10. ASSUME NEW i \in Grants, ~Background(i), NEW k \in Grants, ~Background(k), turn[k] > turn[i]
           PROVE  Due(Held(turn, i), i, k)
      <4>1. Precedes(rs, HeldAt(rs, pass, turn, i), i, k)
        BY <3>2, <3>3, <3>10 DEF InOrder
      <4> QED BY <3>5, <3>6, <3>7, <3>8, <3>10, <4>1
    <3>11. ASSUME NEW i \in Grants, ~Background(i), NEW k \in WaitingUsers', NoMore(k, i)
           PROVE  Due(Held(turn, i), i, k)
      <4>1. k \in Pending(rs) \ pass.running /\ ~Background(k)
        BY <3>2
      <4>2. Precedes(rs, HeldAt(rs, pass, turn, i), i, k)
        BY <3>2, <3>3, <3>11, <4>1 DEF InOrder
      <4> QED BY <3>5, <3>6, <3>7, <3>8, <3>11, <4>1, <4>2
    <3>12. Ordering(turn)
      BY <3>9, <3>10, <3>11
    <3> QED BY <3>4, <3>12
  <2> QED BY <2>1, <2>2
<1>2. ResourceInv /\ [Next]_vars => [Shared]_vars
  BY <1>1
<1> QED BY <1>2, ResourceInvariant, PTL DEF Spec, OwnersShare

\* Background work is never granted past a user who waits for one of its resources,
\* and raises usage only to its ceiling, except a larger demand on an otherwise idle
\* resource; among stages of one configuration.  (promoteResources().)
THEOREM BackgroundStandsBack == OneConfiguration => (Spec => BackgroundYields)
<1> SUFFICES ASSUME OneConfiguration PROVE Spec => BackgroundYields
  OBVIOUS
<1>1. ASSUME ResourceInv, [Next]_vars, NEW j \in Jobs, Background(j), Granted(j)
      PROVE  /\ \A k \in WaitingUsers' : Names(k) \cap Names(j) = {}
             /\ \A n \in Names(j) :
                  \/ Demands[j][n].ceiling = NoCeiling
                  \/ Used(RunningRows', n) <= Demands[j][n].ceiling
                  \/ Holding(RunningRows', n) = {j}
  <2>1. PICK rs, pass :
           /\ WellFormed(rs) /\ Verdict(rs, pass)
           /\ RunningRows' = pass.running
           /\ WaitingUsers' = {k \in Pending(rs) \ pass.running : ~Background(k)}
           /\ Grants = Given(rs, pass)
    BY <1>1, GrantedByChange
  <2>2. Yielding(rs, pass) /\ j \in pass.running \ InState(rs, "running")
    BY <1>1, <2>1 DEF Verdict, Grants, Given
  <2> QED BY <1>1, <2>1, <2>2 DEF Yielding, BelowCeiling
<1>2. ResourceInv /\ [Next]_vars =>
        [\A j \in Jobs : Background(j) /\ Granted(j) =>
           /\ \A k \in WaitingUsers' : Names(k) \cap Names(j) = {}
           /\ \A n \in Names(j) :
                \/ Demands[j][n].ceiling = NoCeiling
                \/ Used(RunningRows', n) <= Demands[j][n].ceiling
                \/ Holding(RunningRows', n) = {j}]_vars
  BY <1>1
<1> QED BY <1>2, ResourceInvariant, PTL DEF Spec, BackgroundYields

-----------------------------------------------------------------------------
(* FairScheduling: the order of requests and of turns.                     *)

InAskingOrder ==
  /\ asked \in [Participations -> SUBSET Participations]
  /\ Participations \subseteq Owners \X Groups /\ IsFiniteSet(Participations)
  /\ \A p \in Participations : p \notin asked[p]
  /\ \A p, q \in Participations : p # q => p \in asked[q] \/ q \in asked[p]
  /\ \A p, q, r \in Participations : p \in asked[q] /\ q \in asked[r] => p \in asked[r]

LEMMA OldestIsFirst ==
  ASSUME InAskingOrder, NEW S \in SUBSET Participations, S # {}
  PROVE  /\ Oldest(S) \in S
         /\ \A q \in S \ {Oldest(S)} : Oldest(S) \in asked[q]
<1> DEFINE before == [p \in S |-> asked[p] \cap S]
<1>1. /\ IsFiniteSet(S) /\ before \in [S -> SUBSET S]
      /\ \A p \in S : before[p] = asked[p] \cap S
  BY FS_Subset DEF InAskingOrder
<1>2. \A j \in S : j \notin before[j] /\ \A k \in before[j] : before[k] \subseteq before[j]
  <2> HIDE DEF before
  <2> QED BY <1>1 DEF InAskingOrder
<1>3. PICK p \in S : before[p] = {}
  <2> HIDE DEF before
  <2> QED BY <1>1, <1>2, FrontExists
<1>4. \A q \in S \ {p} : p \in asked[q]
  BY <1>1, <1>3 DEF InAskingOrder
<1>5. \E r \in S : \A q \in S \ {r} : r \in asked[q]
  BY <1>4
<1> QED BY <1>5 DEF Oldest

\* Whoever was served later than b was served later than all before b.
InServingOrder(order) ==
  /\ order \in [Owners -> SUBSET Owners]
  /\ \A a, b \in Owners : b \in order[a] => a \notin order[b]
  /\ \A a, b, c \in Owners : b \in order[a] => c \in order[a] \/ b \in order[c]

LEMMA ServedKeepsOrder ==
  ASSUME NEW order, InServingOrder(order), NEW o \in Owners
  PROVE  /\ InServingOrder(Served(order, o))
         /\ \A p \in Owners \ {o} : Served(order, o)[p] = order[p] \cup {o}
<1> DEFINE new == Served(order, o)
<1>1. /\ new \in [Owners -> SUBSET Owners] /\ new[o] = {}
      /\ \A p \in Owners \ {o} : new[p] = order[p] \cup {o}
  BY DEF Served, InServingOrder
<1> HIDE DEF new
<1>2. \A a, b \in Owners : b \in new[a] => a \notin new[b]
  BY <1>1 DEF InServingOrder
<1>3. ASSUME NEW a \in Owners, NEW b \in Owners, NEW c \in Owners, b \in new[a]
      PROVE  c \in new[a] \/ b \in new[c]
  <2>1. a # o
    BY <1>1, <1>3
  <2>2. CASE b = o
    BY <1>1, <2>1, <2>2
  <2>3. CASE b # o /\ c = o
    BY <1>1, <2>1, <2>3
  <2>4. CASE b # o /\ c # o
    BY <1>1, <1>3, <2>1, <2>4 DEF InServingOrder
  <2> QED BY <2>2, <2>3, <2>4
<1> QED BY <1>1, <1>2, <1>3 DEF InServingOrder, new

Askers == {p[1] : p \in Participations}

LEMMA InTurnOrders ==
  ASSUME InAskingOrder, NEW s, InServingOrder(s.since)
  PROVE  /\ \A a, b \in Askers : a # b => InTurn(s, a, b) \/ InTurn(s, b, a)
         /\ \A a, b, c \in Askers : InTurn(s, a, b) /\ InTurn(s, b, c) => InTurn(s, a, c)
         /\ \A a \in Askers : ~InTurn(s, a, a)
<1>1. \A a \in Askers : a \in Owners /\ Earliest(a) \in Participations /\ Earliest(a)[1] = a
  <2>1. ASSUME NEW a \in Askers
        PROVE  a \in Owners /\ Earliest(a) \in Participations /\ Earliest(a)[1] = a
    <3> DEFINE S == {p \in Participations : p[1] = a}
    <3>1. a \in Owners /\ S \in SUBSET Participations /\ S # {}
      BY DEF Askers, InAskingOrder
    <3>2. Oldest(S) \in S
      <4> HIDE DEF S
      <4> QED BY <3>1, OldestIsFirst
    <3> QED BY <3>1, <3>2 DEF Earliest
  <2> QED BY <2>1
<1>2. /\ \A a, b \in Askers : a # b => Earliest(a) \in asked[Earliest(b)] \/ Earliest(b) \in asked[Earliest(a)]
      /\ \A a, b, c \in Askers : Earliest(a) \in asked[Earliest(b)] /\ Earliest(b) \in asked[Earliest(c)]
                                   => Earliest(a) \in asked[Earliest(c)]
      /\ \A a \in Askers : Earliest(a) \notin asked[Earliest(a)]
  BY <1>1 DEF InAskingOrder
<1>3. ASSUME NEW a \in Askers, NEW b \in Askers, a # b
      PROVE  InTurn(s, a, b) \/ InTurn(s, b, a)
  <2>1. Earliest(a) \in asked[Earliest(b)] \/ Earliest(b) \in asked[Earliest(a)]
    BY <1>2, <1>3
  <2> QED BY <1>3, <2>1 DEF InTurn
<1>4. ASSUME NEW a \in Askers, NEW b \in Askers, NEW c \in Askers, InTurn(s, a, b), InTurn(s, b, c)
      PROVE  InTurn(s, a, c)
  <2>1. a \in Owners /\ b \in Owners /\ c \in Owners
    BY <1>1
  <2>2. /\ b \in s.since[a] => c \in s.since[a] \/ b \in s.since[c]
        /\ c \in s.since[b] => a \in s.since[b] \/ c \in s.since[a]
        /\ a \in s.since[c] => b \in s.since[c] \/ a \in s.since[b]
        /\ b \in s.since[a] => a \notin s.since[b]
        /\ c \in s.since[b] => b \notin s.since[c]
    BY <2>1 DEF InServingOrder
  <2>3. Earliest(a) \in asked[Earliest(b)] /\ Earliest(b) \in asked[Earliest(c)]
          => Earliest(a) \in asked[Earliest(c)]
    BY <1>2
  <2> QED BY <1>4, <2>2, <2>3 DEF InTurn
<1>5. ASSUME NEW a \in Askers
      PROVE  ~InTurn(s, a, a)
  <2>1. a \notin s.since[a] /\ Earliest(a) \notin asked[Earliest(a)]
    BY <1>1, <1>2 DEF InServingOrder
  <2> QED BY <2>1 DEF InTurn
<1> QED BY <1>3, <1>4, <1>5

LEMMA SomebodyIsFirst ==
  ASSUME InAskingOrder, NEW s, InServingOrder(s.since), NEW W \in SUBSET Askers, W # {}
  PROVE  \E o \in W : \A p \in W \ {o} : InTurn(s, o, p)
<1> DEFINE before == [a \in W |-> {b \in W : InTurn(s, b, a)}]
           f == [p \in Participations |-> p[1]]
<1>1. IsFiniteSet(W)
  <2>1. f \in Surjection(Participations, Askers)
    BY DEF Surjection, Askers
  <2>2. IsFiniteSet(Askers)
    BY <2>1, FS_Surjection DEF InAskingOrder
  <2> QED BY <2>2, FS_Subset
<1>2. before \in [W -> SUBSET W] /\ \A a \in W : before[a] = {b \in W : InTurn(s, b, a)}
  OBVIOUS
<1> HIDE DEF before
<1>3. \A j \in W : j \notin before[j] /\ \A k \in before[j] : before[k] \subseteq before[j]
  BY <1>2, InTurnOrders
<1>4. PICK o \in W : before[o] = {}
  BY <1>1, <1>2, <1>3, FrontExists
<1> QED BY <1>2, <1>4, InTurnOrders

-----------------------------------------------------------------------------
(* FairScheduling: one grant of scheduleAnalysis().                        *)

\* What the rounds have decided: limits hold, owners not served yet are as they were,
\* and nobody began work whom an entitled owner waits for in turn.
Dealt(s) ==
  /\ s.held \in SUBSET (Owners \X Groups) /\ \A p \in s.held : p[2] \in s.running
  /\ s.running \in SUBSET Groups /\ IsFiniteSet(s.running) /\ active \subseteq s.running
  /\ Cardinality(s.running) <= AnalysisLimits.running
  /\ \A o \in Owners : Cardinality(Own(s.held, s.running, o)) <= AnalysisLimits.ownerRunning
  /\ InServingOrder(s.since)

Undealt(s, o) ==
  /\ since[o] \subseteq s.since[o] /\ s.served \subseteq s.since[o]
  /\ \A g \in Groups : <<o, g>> \in s.held <=> <<o, g>> \in holding /\ g \in active
  /\ Entitled(o) => \A p \in s.started : p[1] \notin since[o]

Outcome(s) ==
  /\ Dealt(s)
  /\ s.served \subseteq Owners
  /\ s.started = {} => s.running = active
  /\ \A p \in s.started : p[1] \in s.served
  /\ \A o \in Owners \ s.served : Undealt(s, o)

Limits == AnalysisLimits.running \in Nat \ {0} /\ AnalysisLimits.ownerRunning \in Nat \ {0}

LEMMA LimitsAreNumbers == Limits
BY SchedulingAssumption DEF Limits

LEMMA OneMore ==
  ASSUME NEW S, IsFiniteSet(S), NEW x
  PROVE  /\ IsFiniteSet(S \cup {x}) /\ Cardinality(S) \in Nat /\ Cardinality(S \cup {x}) \in Nat
         /\ Cardinality(S \cup {x}) <= Cardinality(S) + 1
BY FS_AddElement, FS_CardinalityType

\* The owner o, first among those who can be served, is granted p.
Granting(s, o, p, next) ==
  /\ o \in Owners /\ p \in Participations \ s.held /\ p = <<o, p[2]>> /\ p[2] \in Groups
  /\ p[2] \in s.running \/ Startable(s, p[2])
  /\ Cardinality(Own(s.held, s.running, o)) < AnalysisLimits.ownerRunning
  /\ \A q \in Askers \ {o} : Eligible(s, q) => InTurn(s, o, q)
  /\ next.held = s.held \cup {p} /\ next.running = s.running \cup {p[2]}
  /\ next.started = IF p[2] \in s.running THEN s.started ELSE {p}
  /\ next.since = Served(s.since, o) /\ next.served = s.served \cup {o}

LEMMA RoundGrants ==
  ASSUME InAskingOrder, NEW s, InServingOrder(s.since)
  PROVE  Round(s) = s \/ \E o, p : Granting(s, o, p, Round(s))
<1> DEFINE able == {o \in Askers : Eligible(s, o)}
           first == CHOOSE o \in able : \A p \in able \ {o} : InTurn(s, o, p)
<1>1. Round(s) = IF able = {} THEN s ELSE Grant(s, first)
  BY Zenon DEF Round, Askers
<1>2. CASE able = {}
  BY <1>1, <1>2
<1>3. CASE able # {}
  <2>1. first \in able /\ \A p \in able \ {first} : InTurn(s, first, p)
    <3>1. \E o \in able : \A p \in able \ {o} : InTurn(s, o, p)
      <4>1. able \in SUBSET Askers
        OBVIOUS
      <4> HIDE DEF able
      <4> QED BY <1>3, <4>1, SomebodyIsFirst
    <3> QED BY <3>1
  <2> HIDE DEF first
  <2>2. PICK o : o = first
    OBVIOUS
  <2> DEFINE p == Oldest(Grantable(s, o))
  <2>3. /\ p \in Participations \ s.held /\ p[1] = o
        /\ p[2] \in s.running \/ Startable(s, p[2])
    <3>1. Grantable(s, o) \in SUBSET Participations /\ Grantable(s, o) # {}
      BY <2>1, <2>2 DEF Grantable, Eligible
    <3>2. p \in Grantable(s, o)
      BY <3>1, OldestIsFirst
    <3> HIDE DEF p
    <3> QED BY <3>2 DEF Grantable
  <2>4. o \in Owners /\ p = <<o, p[2]>> /\ p[2] \in Groups
    <3> HIDE DEF p
    <3>1. p \in Owners \X Groups
      BY <2>3 DEF InAskingOrder
    <3> QED BY <2>3, <3>1
  <2>5. Round(s) = [held |-> s.held \cup {p}, running |-> s.running \cup {p[2]},
                    started |-> IF p[2] \in s.running THEN s.started ELSE {p},
                    since |-> Served(s.since, o), served |-> s.served \cup {o}]
    BY <1>1, <1>3, <2>2 DEF Grant
  <2> HIDE DEF p
  <2>6. Granting(s, o, p, Round(s))
    <3>1. Cardinality(Own(s.held, s.running, o)) < AnalysisLimits.ownerRunning
      BY <2>1, <2>2 DEF Eligible
    <3>2. \A q \in Askers \ {o} : Eligible(s, q) => InTurn(s, o, q)
      BY <2>1, <2>2
    <3> QED BY <2>3, <2>4, <2>5, <3>1, <3>2 DEF Granting
  <2> QED BY <2>6
<1> QED BY <1>2, <1>3

LEMMA GrantKeepsDealt ==
  ASSUME NEW s, Outcome(s), NEW o, NEW p, NEW next, Granting(s, o, p, next)
  PROVE  Dealt(next)
<1> USE DEF Granting
<1>1. /\ s.held \in SUBSET (Owners \X Groups) /\ \A q \in s.held : q[2] \in s.running
      /\ s.running \in SUBSET Groups /\ IsFiniteSet(s.running) /\ active \subseteq s.running
      /\ Cardinality(s.running) <= AnalysisLimits.running /\ InServingOrder(s.since)
  BY DEF Outcome, Dealt
<1>2. next.held \in SUBSET (Owners \X Groups) /\ \A q \in next.held : q[2] \in next.running
  BY <1>1
<1>3. next.running \in SUBSET Groups /\ IsFiniteSet(next.running) /\ active \subseteq next.running
  BY <1>1, FS_AddElement
<1>4. Cardinality(next.running) <= AnalysisLimits.running
  <2>1. CASE p[2] \in s.running
    <3>1. next.running = s.running
      BY <2>1
    <3> QED BY <1>1, <3>1
  <2>2. CASE p[2] \notin s.running
    <3>1. Cardinality(s.running) < AnalysisLimits.running
      BY <2>2 DEF Startable
    <3>2. /\ Cardinality(s.running \cup {p[2]}) <= Cardinality(s.running) + 1
          /\ Cardinality(s.running \cup {p[2]}) \in Nat /\ Cardinality(s.running) \in Nat
      BY <1>1, OneMore
    <3>3. next.running = s.running \cup {p[2]}
      OBVIOUS
    <3> QED BY <3>1, <3>2, <3>3, LimitsAreNumbers DEF Limits
  <2> QED BY <2>1, <2>2
<1>5. ASSUME NEW q \in Owners
      PROVE  Cardinality(Own(next.held, next.running, q)) <= AnalysisLimits.ownerRunning
  <2>1. Cardinality(Own(s.held, s.running, q)) <= AnalysisLimits.ownerRunning
    BY DEF Outcome, Dealt
  <2>2. CASE q # o
    <3>1. Own(next.held, next.running, q) = Own(s.held, s.running, q)
      BY <1>1, <2>2 DEF Own
    <3> QED BY <2>1, <3>1
  <2>3. CASE q = o
    <3>1. Own(next.held, next.running, q) = Own(s.held, s.running, q) \cup {p[2]}
      BY <1>1, <2>3 DEF Own
    <3>2. IsFiniteSet(Own(s.held, s.running, q))
      BY <1>1, FS_Subset DEF Own
    <3> DEFINE own == Own(s.held, s.running, q)
    <3>3. /\ Cardinality(own \cup {p[2]}) <= Cardinality(own) + 1
          /\ Cardinality(own) \in Nat /\ Cardinality(own \cup {p[2]}) \in Nat
      BY <3>2, OneMore
    <3>4. Cardinality(own) < AnalysisLimits.ownerRunning
      BY <2>3
    <3> HIDE DEF own
    <3>5. Cardinality(own \cup {p[2]}) <= AnalysisLimits.ownerRunning
      BY <3>3, <3>4, LimitsAreNumbers DEF Limits
    <3> QED BY <3>1, <3>5 DEF own
  <2> QED BY <2>2, <2>3
<1>6. InServingOrder(next.since)
  BY <1>1, ServedKeepsOrder
<1> QED BY <1>2, <1>3, <1>4, <1>5, <1>6 DEF Dealt

\* Whoever begins work before an owner that is entitled to has waited longer.
LEMMA BeginnerIsDue ==
  ASSUME NEW s, Outcome(s), NEW o, NEW p, NEW next, Granting(s, o, p, next),
         p[2] \notin s.running, NEW q \in Owners \ (s.served \cup {o}), Entitled(q)
  PROVE  o \notin since[q]
<1> USE DEF Granting
<1>1. Undealt(s, q) /\ Startable(s, p[2])
  BY DEF Outcome
<1>2. s.started = {} /\ s.running = active /\ Cardinality(s.running) < AnalysisLimits.running
  BY <1>1 DEF Startable, Outcome
<1>3. PICK g \in Groups : <<q, g>> \in Participations /\ g \notin active
  BY DEF Entitled
<1>4. <<q, g>> \in Grantable(s, q)
  <2>1. <<q, g>> \notin s.held
    BY <1>1, <1>3 DEF Undealt
  <2>2. Startable(s, g)
    BY <1>2, <1>3 DEF Startable
  <2> QED BY <1>3, <2>1, <2>2 DEF Grantable
<1>5. Own(s.held, s.running, q) = Own(holding, active, q)
  <2>1. s.running \subseteq Groups
    BY DEF Outcome, Dealt
  <2> QED BY <1>1, <1>2, <2>1 DEF Undealt, Own
<1>6. Eligible(s, q)
  BY <1>4, <1>5 DEF Eligible, Entitled
<1>7. q \in Askers
  <2>1. q = <<q, g>>[1]
    OBVIOUS
  <2> QED BY <1>3, <2>1 DEF Askers
<1>8. InTurn(s, o, q)
  BY <1>6, <1>7
<1>9. q \in s.since[o] \/ o \notin s.since[q]
  BY <1>8 DEF InTurn, Entitled
<1>10. o \notin s.since[q]
  BY <1>9 DEF Outcome, Dealt, InServingOrder
<1> QED BY <1>1, <1>10 DEF Undealt

LEMMA GrantKeepsOutcome ==
  ASSUME NEW s, Outcome(s), NEW o, NEW p, NEW next, Granting(s, o, p, next)
  PROVE  Outcome(next)
<1> USE DEF Granting
<1>1. Dealt(next)
  BY GrantKeepsDealt
<1>2. next.served \subseteq Owners
  BY DEF Outcome
<1>3. next.started = {} => next.running = active
  <2>1. CASE p[2] \in s.running
    BY <2>1 DEF Outcome
  <2>2. CASE p[2] \notin s.running
    BY <2>2
  <2> QED BY <2>1, <2>2
<1>4. \A q \in next.started : q[1] \in next.served
  <2>1. p[1] = o
    <3>1. <<o, p[2]>>[1] = o
      OBVIOUS
    <3> QED BY <3>1
  <2> QED BY <2>1 DEF Outcome
<1>5. ASSUME NEW q \in Owners \ next.served
      PROVE  Undealt(next, q)
  <2>1. q \in Owners \ s.served /\ q # o /\ Undealt(s, q) /\ InServingOrder(s.since)
    BY DEF Outcome, Dealt
  <2>2. next.since[q] = s.since[q] \cup {o}
    BY <2>1, ServedKeepsOrder
  <2>3. since[q] \subseteq next.since[q] /\ next.served \subseteq next.since[q]
    BY <2>1, <2>2 DEF Undealt
  <2>4. ASSUME NEW g \in Groups
        PROVE  <<q, g>> \in next.held <=> <<q, g>> \in holding /\ g \in active
    <3>1. <<q, g>> # <<o, p[2]>>
      BY <2>1
    <3>2. <<q, g>> \in next.held <=> <<q, g>> \in s.held
      BY <3>1
    <3> QED BY <2>1, <3>2 DEF Undealt
  <2>5. ASSUME Entitled(q), NEW r \in next.started
        PROVE  r[1] \notin since[q]
    <3>1. CASE p[2] \in s.running
      BY <2>1, <2>5, <3>1 DEF Undealt
    <3>2. CASE p[2] \notin s.running
      <4>1. r[1] = o
        <5>1. <<o, p[2]>>[1] = o
          OBVIOUS
        <5> QED BY <3>2, <5>1
      <4>2. q \in Owners \ (s.served \cup {o})
        BY <2>1
      <4>3. o \notin since[q]
        BY <2>5, <3>2, <4>2, BeginnerIsDue
      <4> QED BY <4>1, <4>3
    <3> QED BY <3>1, <3>2
  <2> QED BY <2>3, <2>4, <2>5 DEF Undealt
<1> QED BY <1>1, <1>2, <1>3, <1>4, <1>5 DEF Outcome

-----------------------------------------------------------------------------
(* FairScheduling: the loop of grants.                                     *)

Dealing ==
  [held |-> {p \in holding : p[2] \in active}, running |-> active,
   started |-> {}, since |-> since, served |-> {}]

DealtIn(m, g) ==
  g = [k \in 0..m |-> IF k = 0 THEN Dealing
                      ELSE CHOOSE next \in {Round(last) : last \in {g[k - 1]}} : TRUE]

LEMMA RoundFollows ==
  ASSUME NEW x
  PROVE  (CHOOSE next \in {Round(last) : last \in {x}} : TRUE) = Round(x)
<1>1. {Round(last) : last \in {x}} = {Round(x)}
  OBVIOUS
<1> QED BY <1>1

LEMMA DealtRounds ==
  ASSUME NEW m \in Nat, NEW g, DealtIn(m, g)
  PROVE  g[0] = Dealing /\ \A k \in 1..m : g[k] = Round(g[k - 1])
<1> DEFINE Follow(k) == CHOOSE next \in {Round(last) : last \in {g[k - 1]}} : TRUE
           f == [k \in 0..m |-> IF k = 0 THEN Dealing ELSE Follow(k)]
<1>1. \A k : Follow(k) = Round(g[k - 1])
  BY RoundFollows
<1>2. g = f
  BY DEF DealtIn
<1>3. f[0] = Dealing /\ \A k \in 1..m : f[k] = Follow(k)
  OBVIOUS
<1> HIDE DEF Follow, f
<1> QED BY <1>1, <1>2, <1>3

LEMMA RoundsDeal ==
  ASSUME NEW m \in Nat, NEW g, g = [k \in 0..m |-> g[k]],
         g[0] = Dealing, \A k \in 1..m : g[k] = Round(g[k - 1])
  PROVE  DealtIn(m, g)
<1> DEFINE Follow(k) == CHOOSE next \in {Round(last) : last \in {g[k - 1]}} : TRUE
           f == [k \in 0..m |-> IF k = 0 THEN Dealing ELSE Follow(k)]
<1>1. \A k : Follow(k) = Round(g[k - 1])
  BY RoundFollows
<1>2. DealtIn(m, g) <=> g = f
  BY DEF DealtIn
<1>3. /\ f = [k \in 0..m |-> f[k]] /\ f[0] = Dealing
      /\ \A k \in 1..m : f[k] = Follow(k)
  OBVIOUS
<1> HIDE DEF f, Follow
<1>4. \A k \in 0..m : k = 0 \/ k \in 1..m
  OBVIOUS
<1>5. \A k \in 0..m : g[k] = f[k]
  BY <1>1, <1>3, <1>4
<1> QED BY <1>2, <1>3, <1>5

LEMMA RoundsExist ==
  ASSUME NEW m \in Nat
  PROVE  \E g : DealtIn(m, g)
<1> DEFINE T == {i \in Nat : \E g : DealtIn(i, g)}
<1>1. 0 \in T
  <2> DEFINE g == [k \in 0..0 |-> Dealing]
  <2>1. g = [k \in 0..0 |-> g[k]] /\ g[0] = Dealing /\ 1..0 = {}
    OBVIOUS
  <2>2. DealtIn(0, g)
    <3> HIDE DEF g
    <3> QED BY <2>1, RoundsDeal
  <2> QED BY <2>2
<1>2. ASSUME NEW i \in T PROVE i + 1 \in T
  <2>0. i \in Nat /\ i + 1 \in Nat /\ 0 \in 0..i
    OBVIOUS
  <2>1. PICK g : DealtIn(i, g)
    OBVIOUS
  <2>2. g[0] = Dealing /\ \A k \in 1..i : g[k] = Round(g[k - 1])
    BY <2>0, <2>1, DealtRounds
  <2> DEFINE h == [k \in 0..i + 1 |-> IF k = i + 1 THEN Round(g[i]) ELSE g[k]]
  <2>3. /\ h = [k \in 0..i + 1 |-> h[k]] /\ \A k \in 0..i : h[k] = g[k]
        /\ h[i + 1] = Round(g[i])
    OBVIOUS
  <2> HIDE DEF h
  <2>4. ASSUME NEW k \in 1..i + 1 PROVE h[k] = Round(h[k - 1])
    <3>1. k - 1 \in 0..i /\ (k = i + 1 => k - 1 = i) /\ (k # i + 1 => k \in 1..i /\ k \in 0..i)
      OBVIOUS
    <3>2. h[k - 1] = g[k - 1]
      BY <2>3, <3>1
    <3> QED BY <2>2, <2>3, <3>1, <3>2
  <2>5. h[0] = Dealing
    BY <2>0, <2>2, <2>3
  <2>6. DealtIn(i + 1, h)
    BY <2>0, <2>3, <2>4, <2>5, RoundsDeal
  <2> QED BY <2>6
<1>3. T = Nat
  <2> HIDE DEF T
  <2>1. T \in SUBSET Nat
    BY DEF T
  <2> QED BY <1>1, <1>2, <2>1, SetInduction
<1> QED BY <1>3

\* The inductive invariant.
SchedulingInv ==
  /\ InAskingOrder /\ InServingOrder(since)
  /\ holding \in SUBSET (Owners \X Groups)
  /\ active \in SUBSET Groups /\ IsFiniteSet(active)
  /\ Cardinality(active) <= AnalysisLimits.running
  /\ \A o \in Owners : Cardinality(Own(holding, active, o)) <= AnalysisLimits.ownerRunning
  /\ passed \in [Owners -> [Owners -> {0, 1}]]
  /\ \A o, p \in Owners : passed[o][p] = 1 => p \in since[o]

LEMMA ScheduleEnds ==
  ASSUME SchedulingInv
  PROVE  Outcome(Schedule)
<1> DEFINE m == Cardinality(Participations)
           rounds == Rounds
<1>1. m \in Nat
  BY FS_CardinalityType DEF SchedulingInv, InAskingOrder
<1>2. Rounds = CHOOSE g : DealtIn(m, g)
  BY DEF Rounds, Dealing, DealtIn
<1>3. DealtIn(m, rounds)
  BY <1>1, <1>2, RoundsExist
<1> HIDE DEF rounds, m
<1>4. rounds[0] = Dealing /\ \A k \in 1..m : rounds[k] = Round(rounds[k - 1])
  BY <1>1, <1>3, DealtRounds
<1>5. Outcome(Dealing)
  <2>1. /\ Dealing.held = {p \in holding : p[2] \in active} /\ Dealing.running = active
        /\ Dealing.started = {} /\ Dealing.since = since /\ Dealing.served = {}
    BY DEF Dealing
  <2>2. \A o \in Owners : Own(Dealing.held, Dealing.running, o) = Own(holding, active, o)
    BY <2>1 DEF Own
  <2>3. Dealt(Dealing)
    BY <2>1, <2>2 DEF Dealt, SchedulingInv
  <2>4. \A o \in Owners : Undealt(Dealing, o)
    BY <2>1 DEF Undealt
  <2> QED BY <2>1, <2>3, <2>4 DEF Outcome
<1> DEFINE T == {k \in Nat : k <= m => Outcome(rounds[k])}
<1>6. 0 \in T
  BY <1>4, <1>5
<1>7. ASSUME NEW k \in T PROVE k + 1 \in T
  <2>1. SUFFICES ASSUME k + 1 <= m PROVE Outcome(rounds[k + 1])
    OBVIOUS
  <2>2. k \in Nat /\ k <= m /\ k + 1 \in 1..m /\ (k + 1) - 1 = k
    BY <1>1, <2>1
  <2>3. Outcome(rounds[k]) /\ rounds[k + 1] = Round(rounds[k])
    BY <1>4, <2>2
  <2>4. PICK s : s = rounds[k]
    OBVIOUS
  <2>5. InServingOrder(s.since) /\ Outcome(s)
    BY <2>3, <2>4 DEF Outcome, Dealt
  <2>6. Outcome(Round(s))
    BY <2>5, RoundGrants, GrantKeepsOutcome DEF SchedulingInv
  <2> QED BY <2>3, <2>4, <2>6
<1>8. T = Nat
  <2> HIDE DEF T
  <2>1. T \in SUBSET Nat
    BY DEF T
  <2> QED BY <1>6, <1>7, <2>1, SetInduction
<1>9. Outcome(rounds[m])
  BY <1>1, <1>8
<1> QED BY <1>9 DEF Schedule, rounds, m

-----------------------------------------------------------------------------
(* FairScheduling: the steps.                                              *)

LEMMA ClaimKeepsOrder ==
  ASSUME SchedulingInv, ClaimFair
  PROVE  SchedulingInv'
<1>1. PICK s \in {Schedule} :
        /\ holding' = s.held /\ active' = s.running /\ since' = s.since
        /\ passed' = [o \in Owners |-> [p \in Owners |->
             IF Entitled(o) /\ o \notin s.served
             THEN passed[o][p] + (IF \E g \in Groups : <<p, g>> \in s.started THEN 1 ELSE 0) ELSE 0]]
        /\ UNCHANGED <<projects, asked, lapses>>
  BY Zenon DEF ClaimFair
<1>2. Outcome(s)
  BY <1>1, ScheduleEnds
<1>3. InAskingOrder'
  BY <1>1 DEF SchedulingInv, InAskingOrder, Participations
<1>4. /\ InServingOrder(since)' /\ holding' \in SUBSET (Owners \X Groups)
      /\ active' \in SUBSET Groups /\ IsFiniteSet(active')
      /\ Cardinality(active') <= AnalysisLimits.running
      /\ \A o \in Owners : Cardinality(Own(holding', active', o)) <= AnalysisLimits.ownerRunning
  BY <1>1, <1>2 DEF Outcome, Dealt, InServingOrder
<1>5. ASSUME NEW o \in Owners, NEW p \in Owners
      PROVE  passed'[o][p] \in {0, 1} /\ (passed'[o][p] = 1 => p \in since'[o])
  <2> DEFINE begun == \E g \in Groups : <<p, g>> \in s.started
             waits == Entitled(o) /\ o \notin s.served
  <2>1. passed'[o][p] = IF waits THEN passed[o][p] + (IF begun THEN 1 ELSE 0) ELSE 0
    BY <1>1
  <2>2. CASE ~waits
    <3> HIDE DEF waits, begun
    <3> QED BY <2>1, <2>2
  <2>3. CASE waits
    <3>1. Undealt(s, o)
      BY <1>2, <2>3 DEF Outcome
    <3>2. begun => p \notin since[o] /\ p \in since'[o]
      <4>1. SUFFICES ASSUME NEW g \in Groups, <<p, g>> \in s.started
                     PROVE  p \notin since[o] /\ p \in since'[o]
        OBVIOUS
      <4>2. <<p, g>>[1] = p
        OBVIOUS
      <4>3. p \in s.served
        BY <1>2, <4>1, <4>2 DEF Outcome
      <4> QED BY <1>1, <2>3, <3>1, <4>1, <4>2, <4>3 DEF Undealt
    <3>3. since[o] \subseteq since'[o]
      BY <1>1, <3>1 DEF Undealt
    <3>4. passed[o][p] \in {0, 1} /\ (passed[o][p] = 1 => p \in since[o])
      BY DEF SchedulingInv
    <3>5. passed'[o][p] = passed[o][p] + (IF begun THEN 1 ELSE 0)
      BY <2>1, <2>3
    <3> HIDE DEF begun
    <3> QED BY <3>2, <3>3, <3>4, <3>5
  <2> QED BY <2>2, <2>3
<1>6. passed' \in [Owners -> [Owners -> {0, 1}]]
  BY <1>1, <1>5
<1> QED BY <1>3, <1>4, <1>5, <1>6 DEF SchedulingInv

LEMMA FewerOwn ==
  ASSUME NEW h, NEW r, IsFiniteSet(r), NEW k \in SUBSET h, NEW t \in SUBSET r, NEW o,
         Cardinality(Own(h, r, o)) <= AnalysisLimits.ownerRunning
  PROVE  Cardinality(Own(k, t, o)) <= AnalysisLimits.ownerRunning
<1>1. IsFiniteSet(Own(h, r, o)) /\ Own(k, t, o) \in SUBSET Own(h, r, o)
  BY FS_Subset DEF Own
<1>2. /\ IsFiniteSet(Own(k, t, o)) /\ Cardinality(Own(k, t, o)) <= Cardinality(Own(h, r, o))
      /\ Cardinality(Own(k, t, o)) \in Nat /\ Cardinality(Own(h, r, o)) \in Nat
  BY <1>1, FS_Subset, FS_CardinalityType
<1> QED BY <1>2, LimitsAreNumbers DEF Limits

\* Whatever ends or is withdrawn leaves the order of the rest as it was.
LEMMA LeavingKeeps ==
  ASSUME SchedulingInv, UNCHANGED <<since, passed>>,
         asked' = asked \/ \E ps : Without(ps), holding' \in SUBSET holding, active' \in SUBSET active
  PROVE  SchedulingInv'
<1>1. InAskingOrder'
  <2>1. CASE asked' = asked
    BY <2>1 DEF SchedulingInv, InAskingOrder, Participations
  <2>2. CASE \E ps : Without(ps)
    <3>1. PICK ps : asked' = [p \in Participations \ ps |-> asked[p] \ ps]
      BY <2>2 DEF Without
    <3> DEFINE rest == Participations \ ps
    <3>2. Participations' = rest /\ \A p \in rest : asked'[p] = asked[p] \ ps
      BY <3>1 DEF Participations
    <3>3. asked' \in [rest -> SUBSET rest]
      BY <3>1 DEF SchedulingInv, InAskingOrder
    <3>4. rest \in SUBSET Participations /\ IsFiniteSet(rest)
      BY FS_Subset DEF SchedulingInv, InAskingOrder
    <3>5. /\ \A p \in rest : p \notin asked'[p]
          /\ \A p, q \in rest : p # q => p \in asked'[q] \/ q \in asked'[p]
          /\ \A p, q, r \in rest : p \in asked'[q] /\ q \in asked'[r] => p \in asked'[r]
      BY <3>2 DEF SchedulingInv, InAskingOrder
    <3>6. rest \subseteq Owners \X Groups
      BY <3>4 DEF SchedulingInv, InAskingOrder
    <3> HIDE DEF rest
    <3> QED BY <3>2, <3>3, <3>4, <3>5, <3>6 DEF InAskingOrder
  <2> QED BY <2>1, <2>2
<1>2. /\ InServingOrder(since)' /\ passed' \in [Owners -> [Owners -> {0, 1}]]
      /\ \A o, p \in Owners : passed'[o][p] = 1 => p \in since'[o]
  BY DEF SchedulingInv, InServingOrder
<1>3. /\ holding' \in SUBSET (Owners \X Groups) /\ active' \in SUBSET Groups
      /\ IsFiniteSet(active') /\ Cardinality(active') <= AnalysisLimits.running
  <2>1. IsFiniteSet(active) /\ Cardinality(active) <= AnalysisLimits.running
    BY DEF SchedulingInv
  <2>2. IsFiniteSet(active') /\ Cardinality(active') <= Cardinality(active)
    BY <2>1, FS_Subset
  <2>3. Cardinality(active') \in Nat /\ Cardinality(active) \in Nat
    BY <2>1, <2>2, FS_CardinalityType
  <2> QED BY <2>1, <2>2, <2>3, LimitsAreNumbers DEF SchedulingInv, Limits
<1>4. \A o \in Owners : Cardinality(Own(holding', active', o)) <= AnalysisLimits.ownerRunning
  BY FewerOwn DEF SchedulingInv
<1> QED BY <1>1, <1>2, <1>3, <1>4 DEF SchedulingInv

LEMMA AdmitKeeps ==
  ASSUME SchedulingInv, NEW o \in Owners, NEW g \in Groups, Admit(o, g)
  PROVE  SchedulingInv'
<1> DEFINE new == <<o, g>>
<1>1. /\ new \notin Participations /\ UNCHANGED <<active, since, passed>>
      /\ asked' = [p \in Participations \cup {new} |-> IF p = new THEN Participations ELSE asked[p]]
      /\ holding' = IF Joins(o, g) THEN holding \cup {new} ELSE holding
  BY DEF Admit
<1>2. new \in Owners \X Groups
  OBVIOUS
<1>3. InAskingOrder'
  <2> HIDE DEF new
  <2>1. /\ Participations' = Participations \cup {new} /\ asked'[new] = Participations
        /\ \A p \in Participations : asked'[p] = asked[p]
    BY <1>1 DEF Participations
  <2>2. asked' \in [Participations' -> SUBSET Participations']
    BY <1>1, <2>1 DEF SchedulingInv, InAskingOrder
  <2>3. Participations' \subseteq Owners \X Groups /\ IsFiniteSet(Participations')
    BY <1>2, <2>1, FS_AddElement DEF SchedulingInv, InAskingOrder
  <2>4. /\ \A p \in Participations' : p \notin asked'[p]
        /\ \A p, q \in Participations' : p # q => p \in asked'[q] \/ q \in asked'[p]
    BY <1>1, <2>1 DEF SchedulingInv, InAskingOrder
  <2>5. ASSUME NEW p \in Participations', NEW q \in Participations', NEW r \in Participations',
               p \in asked'[q], q \in asked'[r]
        PROVE  p \in asked'[r]
    <3>1. \A x \in Participations : asked[x] \subseteq Participations
      BY DEF SchedulingInv, InAskingOrder
    <3>2. q # new
      BY <1>1, <2>1, <2>5, <3>1
    <3>3. CASE r = new
      BY <2>1, <2>5, <3>1, <3>2, <3>3
    <3>4. CASE r # new
      <4>1. q \in Participations /\ r \in Participations /\ p \in asked[q] /\ q \in asked[r]
        BY <2>1, <2>5, <3>2, <3>4
      <4>2. p \in asked[r]
        BY <3>1, <4>1 DEF SchedulingInv, InAskingOrder
      <4> QED BY <2>1, <4>1, <4>2
    <3> QED BY <3>3, <3>4
  <2> QED BY <2>2, <2>3, <2>4, <2>5 DEF InAskingOrder
<1>4. ASSUME NEW q \in Owners
      PROVE  Cardinality(Own(holding', active', q)) <= AnalysisLimits.ownerRunning
  <2>1. Cardinality(Own(holding, active, q)) <= AnalysisLimits.ownerRunning /\ active' = active
    BY <1>1 DEF SchedulingInv
  <2>2. CASE ~Joins(o, g) \/ q # o
    <3>1. Own(holding', active', q) = Own(holding, active, q)
      BY <1>1, <2>2 DEF Own
    <3> QED BY <2>1, <3>1
  <2>3. CASE Joins(o, g) /\ q = o
    <3>1. Own(holding', active', q) = Own(holding, active, q) \cup {g}
      BY <1>1, <2>3 DEF Own, Joins
    <3>2. IsFiniteSet(Own(holding, active, q))
      BY FS_Subset DEF Own, SchedulingInv
    <3> DEFINE own == Own(holding, active, q)
    <3>3. /\ Cardinality(own \cup {g}) <= Cardinality(own) + 1
          /\ Cardinality(own) \in Nat /\ Cardinality(own \cup {g}) \in Nat
      BY <3>2, OneMore
    <3>4. Cardinality(own) < AnalysisLimits.ownerRunning
      BY <2>3 DEF Joins
    <3> HIDE DEF own
    <3>5. Cardinality(own \cup {g}) <= AnalysisLimits.ownerRunning
      BY <3>3, <3>4, LimitsAreNumbers DEF Limits
    <3> QED BY <3>1, <3>5 DEF own
  <2> QED BY <2>2, <2>3
<1>5. holding' \in SUBSET (Owners \X Groups)
  BY <1>1, <1>2 DEF SchedulingInv
<1>6. /\ InServingOrder(since)' /\ passed' \in [Owners -> [Owners -> {0, 1}]]
      /\ \A q, p \in Owners : passed'[q][p] = 1 => p \in since'[q]
      /\ active' \in SUBSET Groups /\ IsFiniteSet(active')
      /\ Cardinality(active') <= AnalysisLimits.running
  BY <1>1 DEF SchedulingInv, InServingOrder
<1> QED BY <1>3, <1>4, <1>5, <1>6 DEF SchedulingInv

LEMMA SchedulingInvariant == SchedulingSpec => []SchedulingInv
<1>1. SchedulingInit => SchedulingInv
  <2> SUFFICES ASSUME SchedulingInit PROVE SchedulingInv
    OBVIOUS
  <2>1. Participations = {} /\ asked \in [Participations -> SUBSET Participations]
    BY DEF SchedulingInit, Participations
  <2>2. InAskingOrder
    BY <2>1, FS_EmptySet DEF InAskingOrder
  <2>3. InServingOrder(since)
    BY DEF SchedulingInit, InServingOrder
  <2>4. IsFiniteSet({}) /\ Cardinality({}) = 0
    BY FS_EmptySet
  <2>5. ASSUME NEW o \in Owners
        PROVE  Cardinality(Own(holding, active, o)) <= AnalysisLimits.ownerRunning
    <3>1. Own(holding, active, o) = {}
      BY DEF SchedulingInit, Own
    <3> QED BY <2>4, <3>1, LimitsAreNumbers DEF Limits
  <2>6. active = {} /\ IsFiniteSet(active) /\ Cardinality(active) <= AnalysisLimits.running
    BY <2>4, LimitsAreNumbers DEF SchedulingInit, Limits
  <2> QED BY <2>2, <2>3, <2>5, <2>6 DEF SchedulingInit, SchedulingInv
<1>2. SchedulingInv /\ [SchedulingNext]_schedulingVars => SchedulingInv'
  <2> SUFFICES ASSUME SchedulingInv, [SchedulingNext]_schedulingVars
               PROVE  SchedulingInv'
    OBVIOUS
  <2>1. CASE ClaimFair
    BY <2>1, ClaimKeepsOrder
  <2>2. ASSUME NEW g \in Groups, EndGroup(g)
        PROVE  SchedulingInv'
    <3>1. /\ UNCHANGED <<since, passed>> /\ \E ps : Without(ps)
          /\ holding' \in SUBSET holding /\ active' \in SUBSET active
      BY <2>2 DEF EndGroup, Without
    <3> QED BY <3>1, LeavingKeeps
  <2>3. ASSUME NEW g \in Groups, LapseGroup(g)
        PROVE  SchedulingInv'
    <3>1. /\ UNCHANGED <<since, passed>> /\ asked' = asked
          /\ holding' \in SUBSET holding /\ active' \in SUBSET active
      BY <2>3 DEF LapseGroup
    <3> QED BY <3>1, LeavingKeeps
  <2>4. ASSUME NEW g \in Groups, NEW o \in Owners, Admit(o, g)
        PROVE  SchedulingInv'
    BY <2>4, AdmitKeeps
  <2>5. ASSUME NEW g \in Groups, NEW o \in Owners, NEW led \in BOOLEAN, Withdraw(o, g, led)
        PROVE  SchedulingInv'
    <3>1. /\ UNCHANGED <<since, passed>> /\ \E ps : Without(ps)
          /\ holding' \in SUBSET holding /\ active' \in SUBSET active
      BY <2>5 DEF Withdraw, Without
    <3> QED BY <3>1, LeavingKeeps
  <2>6. CASE UNCHANGED schedulingVars
    <3>1. /\ UNCHANGED <<since, passed>> /\ asked' = asked
          /\ holding' \in SUBSET holding /\ active' \in SUBSET active
      BY <2>6 DEF schedulingVars
    <3> QED BY <3>1, LeavingKeeps
  <2> QED BY <2>1, <2>2, <2>3, <2>4, <2>5, <2>6 DEF SchedulingNext
<1> QED BY <1>1, <1>2, PTL DEF SchedulingSpec

\* However requests join, are claimed, lapse and are withdrawn, for any number of
\* owners and groups: workers and owners stay within their limits, and while a user waits
\* for its turn no other owner begins work twice.
THEOREM TurnsStayWithinLimits == SchedulingSpec => []TurnsWithinLimits
<1>1. SchedulingInv => TurnsWithinLimits
  BY DEF SchedulingInv, TurnsWithinLimits
<1> QED BY <1>1, SchedulingInvariant, PTL
=============================================================================
