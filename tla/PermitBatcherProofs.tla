------------------------ MODULE PermitBatcherProofs ------------------------
(***************************************************************************)
(* Theorems about PermitBatcher, for any number of requests, namespaces    *)
(* and cancellations and any size of a batch: that it keeps the contract   *)
(* of PermitStore, and that the changes of a namespace run in the order in *)
(* which their callers came.                                               *)
(***************************************************************************)
EXTENDS PermitBatcher, WellFoundedInduction, TLAPS

-----------------------------------------------------------------------------
(* Induction over a set of numbers, by its smallest member.                *)

LEMMA LessIsWellFounded ==
  \E R : IsWellFoundedOn(R, Nat) /\ \A x, y \in Nat : y < x => <<y, x>> \in R
<1>1. \A x, y \in Nat : y < x => <<y, x>> \in OpToRel(<, Nat)
  BY DEF OpToRel
<1> QED BY <1>1, NatLessThanWellFounded, Zenon

LEMMA SetInduction ==
  ASSUME NEW T \in SUBSET Nat, 0 \in T, \A n \in T : n + 1 \in T
  PROVE  T = Nat
<1> PICK R : IsWellFoundedOn(R, Nat) /\ \A x, y \in Nat : y < x => <<y, x>> \in R
  BY LessIsWellFounded
<1> DEFINE U == Nat \ T
<1>1. SUFFICES ASSUME U # {} PROVE FALSE
  OBVIOUS
<1>2. U \subseteq Nat
  OBVIOUS
<1>3. PICK x \in U : \A y \in U : ~(<<y, x>> \in R)
  <2> HIDE DEF U
  <2> QED BY <1>1, <1>2, WFMin, Zenon
<1>4. x \in Nat \ {0}
  OBVIOUS
<1>5. x - 1 \in Nat /\ x - 1 < x /\ (x - 1) + 1 = x
  BY <1>4
<1>6. x - 1 \in U
  BY <1>5
<1>7. <<x - 1, x>> \in R
  BY <1>4, <1>5
<1> QED BY <1>3, <1>6, <1>7

-----------------------------------------------------------------------------
(* Lists.                                                                  *)

\* s is what is left of t: places of t, in order, give s.
Places(s, t, f) ==
  /\ f \in [DOMAIN s -> DOMAIN t]
  /\ \A i, j \in DOMAIN s : i < j => f[i] < f[j]
  /\ \A i \in DOMAIN s : s[i] = t[f[i]]
PartOf(s, t) == \E f : Places(s, t, f)

\* The steps of Kept.
Filters(f, list, S, N) ==
  f = [i \in 0 .. N |->
         IF i = 0 THEN << >>
         ELSE IF list[i] \in S THEN Append(f[i - 1], list[i]) ELSE f[i - 1]]

LEMMA FilterExists ==
  ASSUME NEW list, NEW S
  PROVE  \A N \in Nat : \E f : Filters(f, list, S, N)
<1> DEFINE T == {N \in Nat : \E f : Filters(f, list, S, N)}
<1>1. 0 \in T
  <2> DEFINE f == [i \in 0 .. 0 |-> << >>]
  <2>1. f = [i \in 0 .. 0 |->
              IF i = 0 THEN << >>
              ELSE IF list[i] \in S THEN Append(f[i - 1], list[i]) ELSE f[i - 1]]
    <3>1. \A i \in 0 .. 0 : i = 0
      OBVIOUS
    <3> QED BY <3>1
  <2> QED BY <2>1 DEF Filters
<1>2. ASSUME NEW N \in T
      PROVE  N + 1 \in T
  <2> PICK f : Filters(f, list, S, N)
    OBVIOUS
  <2> DEFINE step(g, i) == IF list[i] \in S THEN Append(g[i - 1], list[i]) ELSE g[i - 1]
             g == [i \in 0 .. N + 1 |-> IF i = N + 1 THEN step(f, i) ELSE f[i]]
  <2>1. \A i \in 0 .. N : f[i] = IF i = 0 THEN << >> ELSE step(f, i)
    BY DEF Filters
  <2>2. \A i \in 0 .. N + 1 : i - 1 \in 0 .. N \/ i = 0
    OBVIOUS
  <2>3. \A i \in 0 .. N : g[i] = f[i]
    OBVIOUS
  <2>4. \A i \in 0 .. N + 1 : i # 0 => step(g, i) = step(f, i)
    BY <2>2, <2>3
  <2>5. \A i \in 0 .. N + 1 : i = N + 1 \/ i \in 0 .. N
    OBVIOUS
  <2>6. g[N + 1] = step(f, N + 1) /\ N + 1 # 0
    OBVIOUS
  <2>7. \A i \in 0 .. N + 1 : g[i] = IF i = 0 THEN << >> ELSE step(g, i)
    <3> HIDE DEF g, step
    <3> QED BY <2>1, <2>3, <2>4, <2>5, <2>6
  <2>8. g = [i \in 0 .. N + 1 |-> IF i = 0 THEN << >> ELSE step(g, i)]
    <3>1. g = [i \in 0 .. N + 1 |-> g[i]]
      OBVIOUS
    <3> HIDE DEF g, step
    <3> QED BY <2>7, <3>1
  <2>9. Filters(g, list, S, N + 1)
    <3> HIDE DEF g
    <3> QED BY <2>8 DEF Filters
  <2> HIDE DEF g
  <2> QED BY <2>9
<1> HIDE DEF T
<1>3. T = Nat
  <2>1. T \subseteq Nat
    BY DEF T
  <2> QED BY <1>1, <1>2, <2>1, SetInduction
<1> QED BY <1>3 DEF T

\* What a list says at growing places below m, all of it in S.
Picks(k, list, S, m) ==
  \E g \in [DOMAIN k -> 1 .. m] :
    /\ \A i, j \in DOMAIN k : i < j => g[i] < g[j]
    /\ \A i \in DOMAIN k : k[i] = list[g[i]] /\ k[i] \in S

LEMMA PicksOneMore ==
  ASSUME NEW T, NEW k \in Seq(T), NEW list, NEW S, NEW m \in Nat, Picks(k, list, S, m),
         list[m + 1] \in S, list[m + 1] \in T
  PROVE  Picks(Append(k, list[m + 1]), list, S, m + 1)
<1> PICK g \in [DOMAIN k -> 1 .. m] :
      /\ \A i, j \in DOMAIN k : i < j => g[i] < g[j]
      /\ \A i \in DOMAIN k : k[i] = list[g[i]] /\ k[i] \in S
  BY DEF Picks
<1> DEFINE q == Append(k, list[m + 1])
           n == Len(k)
           h == [i \in 1 .. n + 1 |-> IF i = n + 1 THEN m + 1 ELSE g[i]]
<1>1. /\ n \in Nat /\ DOMAIN k = 1 .. n /\ DOMAIN q = 1 .. n + 1
      /\ \A i \in 1 .. n : q[i] = k[i]
      /\ q[n + 1] = list[m + 1]
  OBVIOUS
<1> HIDE DEF q, n
<1>2. \A i \in 1 .. n + 1 : i = n + 1 \/ i \in 1 .. n
  BY <1>1
<1>3. \A i \in 1 .. n : h[i] = g[i] /\ g[i] \in 1 .. m
  BY <1>1
<1>4. h[n + 1] = m + 1
  BY <1>1
<1>5. h \in [DOMAIN q -> 1 .. m + 1]
  BY <1>1, <1>2, <1>3, <1>4
<1> HIDE DEF h
<1>6. ASSUME NEW i \in DOMAIN q, NEW j \in DOMAIN q, i < j
      PROVE  h[i] < h[j]
  <2>1. i \in 1 .. n
    BY <1>1, <1>6
  <2>2. CASE j = n + 1
    BY <1>3, <1>4, <2>1, <2>2
  <2>3. CASE j \in 1 .. n
    BY <1>1, <1>3, <1>6, <2>1, <2>3
  <2> QED BY <1>1, <1>2, <2>2, <2>3
<1>7. ASSUME NEW i \in DOMAIN q
      PROVE  q[i] = list[h[i]] /\ q[i] \in S
  <2>1. CASE i = n + 1
    BY <1>1, <1>4, <2>1
  <2>2. CASE i \in 1 .. n
    BY <1>1, <1>3, <2>2
  <2> QED BY <1>1, <1>2, <2>1, <2>2
<1>8. Picks(q, list, S, m + 1)
  BY <1>5, <1>6, <1>7 DEF Picks
<1> QED BY <1>8 DEF q

LEMMA KeptPicks ==
  ASSUME NEW T, NEW list \in Seq(T), NEW S
  PROVE  Kept(list, S) \in Seq(T) /\ Picks(Kept(list, S), list, S, Len(list))
<1> DEFINE N == Len(list)
           f == CHOOSE k : Filters(k, list, S, N)
<1>1. N \in Nat /\ \A i \in 1 .. N : list[i] \in T
  OBVIOUS
<1>2. Filters(f, list, S, N)
  <2>1. \E k : Filters(k, list, S, N)
    BY <1>1, FilterExists
  <2> QED BY <2>1
<1>3. Kept(list, S) = f[N]
  BY DEF Kept, Filters
<1> HIDE DEF f, N
<1>4. /\ f[0] = << >>
      /\ \A i \in 0 .. N - 1 :
           f[i + 1] = IF list[i + 1] \in S THEN Append(f[i], list[i + 1]) ELSE f[i]
  <2>1. \A i \in 0 .. N :
          f[i] = IF i = 0 THEN << >> ELSE IF list[i] \in S THEN Append(f[i - 1], list[i]) ELSE f[i - 1]
    BY <1>2 DEF Filters
  <2>2. f[0] = << >>
    BY <1>1, <2>1
  <2>3. ASSUME NEW i \in 0 .. N - 1
        PROVE  f[i + 1] = IF list[i + 1] \in S THEN Append(f[i], list[i + 1]) ELSE f[i]
    <3>1. i + 1 \in 0 .. N /\ i + 1 # 0 /\ (i + 1) - 1 = i
      BY <1>1
    <3> QED BY <2>1, <3>1
  <2> QED BY <2>2, <2>3
<1> DEFINE U == {m \in Nat : m <= N => f[m] \in Seq(T) /\ Picks(f[m], list, S, m)}
<1>5. 0 \in U
  <2>1. << >> \in Seq(T) /\ Picks(<< >>, list, S, 0)
    <3>1. << >> \in Seq(T) /\ DOMAIN << >> = {}
      OBVIOUS
    <3>2. \A k, V : DOMAIN k = {} => [i \in DOMAIN k |-> 0] \in [DOMAIN k -> V]
      OBVIOUS
    <3>3. \A k : DOMAIN k = {} => Picks(k, list, S, 0)
      <4> SUFFICES ASSUME NEW k, DOMAIN k = {} PROVE Picks(k, list, S, 0)
        OBVIOUS
      <4>1. PICK g \in [DOMAIN k -> 1 .. 0] : TRUE
        BY <3>2
      <4> QED BY <4>1 DEF Picks
    <3> QED BY <3>1, <3>3
  <2> QED BY <1>4, <2>1
<1>6. ASSUME NEW m \in U
      PROVE  m + 1 \in U
  <2>1. SUFFICES ASSUME m + 1 <= N
                 PROVE  f[m + 1] \in Seq(T) /\ Picks(f[m + 1], list, S, m + 1)
    OBVIOUS
  <2>2. f[m] \in Seq(T) /\ Picks(f[m], list, S, m) /\ m \in 0 .. N - 1 /\ m + 1 \in 1 .. N
    BY <1>1, <2>1
  <2>3. CASE list[m + 1] \in S
    <3>1. f[m + 1] = Append(f[m], list[m + 1]) /\ list[m + 1] \in T
      BY <1>1, <1>4, <2>2, <2>3
    <3>2. Append(f[m], list[m + 1]) \in Seq(T)
      BY <2>2, <3>1
    <3> QED BY <2>2, <2>3, <3>1, <3>2, PicksOneMore
  <2>4. CASE list[m + 1] \notin S
    <3>1. f[m + 1] = f[m]
      BY <1>4, <2>2, <2>4
    <3>2. 1 .. m \subseteq 1 .. m + 1
      OBVIOUS
    <3> QED BY <2>2, <3>1, <3>2 DEF Picks
  <2> QED BY <2>3, <2>4
<1>7. U = Nat
  <2>1. U \subseteq Nat
    OBVIOUS
  <2> HIDE DEF U
  <2> QED BY <1>5, <1>6, <2>1, SetInduction
<1> QED BY <1>1, <1>3, <1>7 DEF N

LEMMA KeptPart ==
  ASSUME NEW T, NEW list \in Seq(T), NEW S
  PROVE  /\ Kept(list, S) \in Seq(T) /\ PartOf(Kept(list, S), list)
         /\ \A i \in DOMAIN Kept(list, S) : Kept(list, S)[i] \in S
<1> DEFINE k == Kept(list, S)
<1>1. k \in Seq(T) /\ Picks(k, list, S, Len(list)) /\ DOMAIN list = 1 .. Len(list)
  BY KeptPicks
<1> HIDE DEF k
<1>2. PartOf(k, list) /\ \A i \in DOMAIN k : k[i] \in S
  BY <1>1 DEF Picks, PartOf, Places
<1> QED BY <1>1, <1>2 DEF k

Distinct(s) == \A i, j \in DOMAIN s : i < j => s[i] # s[j]
Ordered(s, A, e) == \A i, j \in DOMAIN s : i < j /\ s[i] \in A /\ s[j] \in A => s[j] \notin e[s[i]]

LEMMA PartOrdered ==
  ASSUME NEW s, NEW t, PartOf(s, t), NEW A, NEW B \in SUBSET A, NEW e
  PROVE  /\ Distinct(t) => Distinct(s)
         /\ Ordered(t, A, e) => Ordered(s, B, e)
         /\ \A i \in DOMAIN s : \E j \in DOMAIN t : s[i] = t[j]
BY DEF PartOf, Places, Distinct, Ordered

LEMMA PartTrivial ==
  ASSUME NEW T, NEW s \in Seq(T)
  PROVE  PartOf(s, s) /\ PartOf(<< >>, s)
<1>1. DOMAIN s = 1 .. Len(s) /\ Len(s) \in Nat
  OBVIOUS
<1>2. PartOf(s, s)
  <2>1. Places(s, s, [i \in DOMAIN s |-> i])
    BY <1>1 DEF Places
  <2> QED BY <2>1 DEF PartOf
<1>3. \A k : DOMAIN k = {} => PartOf(k, s)
  <2> SUFFICES ASSUME NEW k, DOMAIN k = {} PROVE PartOf(k, s)
    OBVIOUS
  <2>1. [i \in DOMAIN k |-> 0] \in [DOMAIN k -> DOMAIN s]
    OBVIOUS
  <2> QED BY <2>1 DEF PartOf, Places
<1> QED BY <1>2, <1>3, DOMAIN << >> = {}

LEMMA JoinIs ==
  ASSUME NEW T, NEW s \in Seq(T), NEW t \in Seq(T)
  PROVE  /\ s \o t \in Seq(T) /\ DOMAIN (s \o t) = 1 .. Len(s) + Len(t)
         /\ Len(s) \in Nat /\ Len(t) \in Nat
         /\ DOMAIN s = 1 .. Len(s) /\ DOMAIN t = 1 .. Len(t)
         /\ \A i \in 1 .. Len(s) : (s \o t)[i] = s[i]
         /\ \A i \in 1 .. Len(t) : (s \o t)[Len(s) + i] = t[i]
OBVIOUS

LEMMA PartsJoin ==
  ASSUME NEW T, NEW s \in Seq(T), NEW t \in Seq(T), NEW u \in Seq(T), NEW v \in Seq(T),
         PartOf(s, u), PartOf(t, v)
  PROVE  PartOf(s \o t, u \o v)
<1> DEFINE k == Len(s)
           n == Len(t)
           p == Len(u)
           q == Len(v)
           a == s \o t
           b == u \o v
<1>1. /\ k \in Nat /\ n \in Nat /\ p \in Nat /\ q \in Nat
      /\ DOMAIN s = 1 .. k /\ DOMAIN t = 1 .. n /\ DOMAIN u = 1 .. p /\ DOMAIN v = 1 .. q
      /\ DOMAIN a = 1 .. k + n /\ DOMAIN b = 1 .. p + q
      /\ \A i \in 1 .. k : a[i] = s[i]
      /\ \A i \in 1 .. n : a[k + i] = t[i]
      /\ \A i \in 1 .. p : b[i] = u[i]
      /\ \A i \in 1 .. q : b[p + i] = v[i]
  BY JoinIs
<1> HIDE DEF k, n, p, q, a, b
<1>2. PICK f : Places(s, u, f)
  BY DEF PartOf
<1>3. PICK g : Places(t, v, g)
  BY DEF PartOf
<1> DEFINE h == [i \in 1 .. k + n |-> IF i <= k THEN f[i] ELSE p + g[i - k]]
<1>4. ASSUME NEW i \in 1 .. k
      PROVE  /\ i \in 1 .. k + n /\ h[i] = f[i] /\ f[i] \in 1 .. p
             /\ h[i] \in 1 .. p + q /\ a[i] = b[h[i]]
  <2>1. f[i] \in 1 .. p /\ s[i] = u[f[i]]
    BY <1>1, <1>2 DEF Places
  <2>2. i \in 1 .. k + n /\ i <= k
    BY <1>1
  <2>3. h[i] = f[i]
    BY <2>2
  <2> HIDE DEF h
  <2> QED BY <1>1, <2>1, <2>2, <2>3
<1>5. ASSUME NEW i \in 1 .. n
      PROVE  /\ k + i \in 1 .. k + n /\ h[k + i] = p + g[i] /\ g[i] \in 1 .. q
             /\ h[k + i] \in 1 .. p + q /\ a[k + i] = b[h[k + i]]
  <2>1. g[i] \in 1 .. q /\ t[i] = v[g[i]]
    BY <1>1, <1>3 DEF Places
  <2>2. k + i \in 1 .. k + n /\ ~(k + i <= k) /\ (k + i) - k = i
    BY <1>1
  <2>3. h[k + i] = p + g[i]
    BY <2>2
  <2>4. a[k + i] = t[i]
    BY <1>1
  <2> HIDE DEF h
  <2> QED BY <1>1, <2>1, <2>2, <2>3, <2>4
<1> HIDE DEF h
<1>10. ASSUME NEW i \in 1 .. k + n
       PROVE  i \in 1 .. k \/ \E m \in 1 .. n : i = k + m
  <2>1. i \in 1 .. k \/ (i - k \in 1 .. n /\ i = k + (i - k))
    BY <1>1
  <2> QED BY <2>1
<1>6. h \in [1 .. k + n -> 1 .. p + q]
  <2>1. \A i \in 1 .. k + n : h[i] \in 1 .. p + q
    BY <1>4, <1>5, <1>10
  <2>2. \E X : h = [i \in 1 .. k + n |-> X[i]]
    <3>1. h = [i \in 1 .. k + n |-> h[i]]
      BY DEF h
    <3> QED BY <3>1
  <2> QED BY <2>1, <2>2
<1>7. ASSUME NEW i \in 1 .. k + n, NEW j \in 1 .. k + n, i < j
      PROVE  h[i] < h[j]
  <2>1. CASE i \in 1 .. k /\ j \in 1 .. k
    BY <1>1, <1>2, <1>4, <1>7, <2>1 DEF Places
  <2>2. ASSUME i \in 1 .. k, NEW m \in 1 .. n, j = k + m
        PROVE  h[i] < h[j]
    <3>1. h[i] \in 1 .. p /\ h[j] = p + g[m] /\ g[m] \in 1 .. q
      BY <1>4, <1>5, <2>2
    <3> QED BY <1>1, <3>1
  <2>3. ASSUME NEW l \in 1 .. n, i = k + l, NEW m \in 1 .. n, j = k + m
        PROVE  h[i] < h[j]
    <3>1. l < m /\ h[i] = p + g[l] /\ h[j] = p + g[m] /\ g[l] \in 1 .. q /\ g[m] \in 1 .. q
      BY <1>1, <1>5, <1>7, <2>3
    <3>2. g[l] < g[m]
      BY <1>1, <1>3, <3>1 DEF Places
    <3> QED BY <1>1, <3>1, <3>2
  <2>4. ASSUME NEW l \in 1 .. n, i = k + l, j \in 1 .. k
        PROVE  FALSE
    BY <1>1, <1>7, <2>4
  <2> QED BY <1>10, <2>1, <2>2, <2>3, <2>4
<1>8. ASSUME NEW i \in 1 .. k + n
      PROVE  a[i] = b[h[i]]
  BY <1>4, <1>5, <1>10
<1>9. PartOf(a, b)
  <2>1. Places(a, b, h)
    BY <1>1, <1>6, <1>7, <1>8 DEF Places
  <2> QED BY <2>1 DEF PartOf
<1> QED BY <1>9 DEF a, b

\* A list cut in two.
LEMMA CutIs ==
  ASSUME NEW T, NEW s \in Seq(T), NEW k \in 0 .. Len(s)
  PROVE  LET a == SubSeq(s, 1, k)
             b == SubSeq(s, k + 1, Len(s)) IN
         /\ a \in Seq(T) /\ b \in Seq(T) /\ a \o b = s /\ Len(a) = k /\ Len(b) = Len(s) - k
         /\ \A i \in 1 .. k : a[i] = s[i]
         /\ \A i \in 1 .. Len(s) - k : b[i] = s[k + i]
<1> DEFINE a == SubSeq(s, 1, k)
           b == SubSeq(s, k + 1, Len(s))
<1>1. a \in Seq(T) /\ Len(a) = k /\ \A i \in 1 .. k : a[i] = s[i]
  OBVIOUS
<1>2. b \in Seq(T) /\ Len(b) = Len(s) - k /\ \A i \in 1 .. Len(s) - k : b[i] = s[k + i]
  OBVIOUS
<1> HIDE DEF a, b
<1>4. Len(s) \in Nat /\ k \in Nat /\ k <= Len(s)
  OBVIOUS
<1>3. a \o b = s
  <2>1. /\ a \o b \in Seq(T) /\ DOMAIN (a \o b) = 1 .. k + (Len(s) - k)
        /\ \A i \in 1 .. k : (a \o b)[i] = a[i]
        /\ \A i \in 1 .. Len(s) - k : (a \o b)[k + i] = b[i]
    BY <1>1, <1>2, JoinIs
  <2> DEFINE c == a \o b
  <2> HIDE DEF c
  <2>2. c \in Seq(T) /\ DOMAIN c = 1 .. Len(s) /\ DOMAIN s = 1 .. Len(s)
    BY <1>4, <2>1 DEF c
  <2>3. ASSUME NEW i \in 1 .. Len(s)
        PROVE  c[i] = s[i]
    <3>1. CASE i \in 1 .. k
      BY <1>1, <2>1, <3>1 DEF c
    <3>2. CASE i \notin 1 .. k
      <4>1. i - k \in 1 .. Len(s) - k /\ k + (i - k) = i
        BY <1>4, <3>2
      <4> QED BY <1>2, <2>1, <4>1 DEF c
    <3> QED BY <3>1, <3>2
  <2>4. c = [i \in 1 .. Len(s) |-> c[i]] /\ s = [i \in 1 .. Len(s) |-> s[i]]
    BY <2>2
  <2>5. c = s
    BY <2>3, <2>4
  <2> QED BY <2>5 DEF c
<1> QED BY <1>1, <1>2, <1>3 DEF a, b

LEMMA DistinctJoin ==
  ASSUME NEW T, NEW s \in Seq(T), NEW t \in Seq(T), Distinct(s \o t)
  PROVE  \A i \in DOMAIN s, j \in DOMAIN t : s[i] # t[j]
<1> SUFFICES ASSUME NEW i \in DOMAIN s, NEW j \in DOMAIN t PROVE s[i] # t[j]
  OBVIOUS
<1> DEFINE a == s \o t
           k == Len(s)
           n == Len(t)
<1>1. /\ k \in Nat /\ n \in Nat /\ DOMAIN a = 1 .. k + n /\ i \in 1 .. k /\ j \in 1 .. n
      /\ a[i] = s[i] /\ a[k + j] = t[j]
  BY JoinIs
<1>2. Distinct(a)
  OBVIOUS
<1> HIDE DEF a, k, n
<1>3. i < k + j /\ i \in DOMAIN a /\ k + j \in DOMAIN a
  BY <1>1
<1> QED BY <1>1, <1>2, <1>3 DEF Distinct

LEMMA JoinAssociates ==
  ASSUME NEW T, NEW s \in Seq(T), NEW t \in Seq(T), NEW u \in Seq(T)
  PROVE  (s \o t) \o u = s \o (t \o u)
<1> DEFINE a == (s \o t) \o u
           b == s \o (t \o u)
<1>1. a \in Seq(T) /\ b \in Seq(T)
  OBVIOUS
<1>2. Len(a) = Len(b)
  OBVIOUS
<1>3. \A i \in 1 .. Len(a) : a[i] = b[i]
  OBVIOUS
<1> HIDE DEF a, b
<1>4. a = b
  BY <1>1, <1>2, <1>3
<1> QED BY <1>4 DEF a, b

-----------------------------------------------------------------------------
(* The invariant of the queues.                                            *)

Calls == {"idle", "queued", "active", "done", "failed"}
Steps == {"none", "acquiring", "precommit", "locked", "ran", "commit"}
Attempts ==
  [stage : Steps, ns : Namespaces \cup {"none"}, jobs : Seq(Requests),
   results : SUBSET Requests, broken : BOOLEAN]

\* Every variable keeps its type.
BatcherTypeOK ==
  /\ call \in [Requests -> Calls]
  /\ queues \in [Namespaces -> Seq(Requests)]
  /\ ready \in Seq(Namespaces) /\ delayed \in SUBSET Namespaces
  /\ loop \in {"idle", "scheduled", "running"}
  /\ attempt \in Attempts /\ cancels \in Nat
  /\ lock \in [Namespaces -> {"free", "held", "committing", "severed", "other"}]
  /\ staged \in [Namespaces -> SUBSET Requests]
  /\ applied \in [Requests -> Nat]
  /\ earlier \in [Requests -> SUBSET Requests]

\* Nobody stands twice in the line of its namespace; who is in the queue is queued, who
\* is in the batch is not.
QueueInv ==
  /\ Stage("none") => attempt = NoAttempt
  /\ attempt.ns = "none" => Stage("none")
  /\ Len(attempt.jobs) <= MaxBatch
  /\ \A n \in Namespaces : Distinct(Line(n))
  /\ \A n \in Namespaces : \A i \in DOMAIN queues[n] :
       call[queues[n][i]] = "queued" /\ NamespaceOf[queues[n][i]] = n
  /\ \A r \in Jobs : call[r] # "queued" /\ NamespaceOf[r] = attempt.ns
  /\ \A r \in Requests : call[r] = "active" => r \in Jobs

\* The batch changes by these updates of its record.
LEMMA AttemptUpdates ==
  ASSUME attempt \in Attempts
  PROVE  /\ \A s \in Steps :
              LET a == [attempt EXCEPT !.stage = s] IN
              /\ a \in Attempts /\ a.stage = s /\ a.ns = attempt.ns /\ a.jobs = attempt.jobs
              /\ a.results = attempt.results /\ a.broken = attempt.broken
         /\ \A j \in Seq(Requests) :
              LET a == [attempt EXCEPT !.stage = "precommit", !.jobs = j] IN
              /\ a \in Attempts /\ a.stage = "precommit" /\ a.ns = attempt.ns /\ a.jobs = j
              /\ a.results = attempt.results /\ a.broken = attempt.broken
         /\ \A w \in SUBSET Requests :
              LET a == [attempt EXCEPT !.stage = "ran", !.results = w] IN
              /\ a \in Attempts /\ a.stage = "ran" /\ a.ns = attempt.ns /\ a.jobs = attempt.jobs
              /\ a.results = w /\ a.broken = attempt.broken
         /\ LET a == [attempt EXCEPT !.broken = TRUE] IN
              /\ a \in Attempts /\ a.stage = attempt.stage /\ a.ns = attempt.ns
              /\ a.jobs = attempt.jobs /\ a.results = attempt.results /\ a.broken
         /\ NoAttempt \in Attempts
<1>1. NoAttempt \in Attempts
  <2>1. << >> \in Seq(Requests)
    OBVIOUS
  <2> QED BY <2>1 DEF NoAttempt, Attempts, Steps
<1> QED BY <1>1 DEF Attempts, Steps

LEMMA CallUpdates ==
  ASSUME call \in [Requests -> Calls]
  PROVE  /\ \A n, s : Activated(n, s) \in [Requests -> Calls]
         /\ SentBack \in [Requests -> Calls]
         /\ \A a \in Calls : [r \in Requests |-> IF r \in Wanted THEN a ELSE call[r]] \in [Requests -> Calls]
         /\ \A r \in Requests, a \in Calls : [call EXCEPT ![r] = a] \in [Requests -> Calls]
BY DEF Activated, SentBack, Calls

LEMMA ReadyMarked ==
  ASSUME NEW list \in Seq(Namespaces), NEW n \in Namespaces,
         loop \in {"idle", "scheduled", "running"}, MarkReady(list, n)
  PROVE  ready' \in Seq(Namespaces) /\ loop' \in {"idle", "scheduled", "running"}
BY DEF MarkReady

\* A batch is the front of the queue of its namespace.
LEMMA TakeEffect ==
  ASSUME BatcherTypeOK, QueueInv, Take, ready # << >>
  PROVE  \E n \in Namespaces : \E jobs, rest \in Seq(Requests) :
           /\ queues[n] = jobs \o rest /\ Len(jobs) <= MaxBatch
           /\ queues' = [queues EXCEPT ![n] = rest]
           /\ attempt' = [stage |-> "acquiring", ns |-> n, jobs |-> jobs, results |-> {}, broken |-> FALSE]
           /\ call' = Activated(n, jobs)
           /\ ready' \in Seq(Namespaces) /\ loop' = "running" /\ delayed' = delayed
<1> DEFINE n == Head(ready)
           size == IF Len(queues[n]) < MaxBatch THEN Len(queues[n]) ELSE MaxBatch
           jobs == SubSeq(queues[n], 1, size)
           rest == SubSeq(queues[n], size + 1, Len(queues[n]))
<1>1. n \in Namespaces /\ Tail(ready) \in Seq(Namespaces)
  BY DEF BatcherTypeOK
<1>2. queues[n] \in Seq(Requests) /\ Len(queues[n]) \in Nat
  BY <1>1 DEF BatcherTypeOK
<1>3. size \in 0 .. Len(queues[n]) /\ size <= MaxBatch
  BY <1>2, BatcherAssumption
<1>4. /\ queues' = [queues EXCEPT ![n] = rest]
      /\ ready' = IF queues'[n] # << >> THEN Append(Tail(ready), n) ELSE Tail(ready)
      /\ attempt' = [stage |-> "acquiring", ns |-> n, jobs |-> jobs, results |-> {}, broken |-> FALSE]
      /\ call' = Activated(n, jobs) /\ loop' = "running" /\ delayed' = delayed
  BY DEF Take
<1> HIDE DEF n, size
<1>5. /\ jobs \in Seq(Requests) /\ rest \in Seq(Requests) /\ jobs \o rest = queues[n]
      /\ Len(jobs) = size
  BY <1>2, <1>3, CutIs
<1>6. ready' \in Seq(Namespaces)
  BY <1>1, <1>4
<1> HIDE DEF jobs, rest
<1> QED BY <1>1, <1>3, <1>4, <1>5, <1>6

\* Who joins the batch comes from the front of the queue.
LEMMA ConnectEffect ==
  ASSUME BatcherTypeOK, QueueInv, Connect
  PROVE  /\ attempt.ns \in Namespaces
         /\ \E more, rest \in Seq(Requests) :
              /\ queues[attempt.ns] = more \o rest /\ Len(attempt.jobs \o more) <= MaxBatch
              /\ queues' = [queues EXCEPT ![attempt.ns] = rest]
              /\ attempt' = [attempt EXCEPT !.stage = "precommit", !.jobs = attempt.jobs \o more]
              /\ call' = Activated(attempt.ns, more)
              /\ ready' \in Seq(Namespaces) /\ loop' = loop /\ delayed' = delayed
<1> DEFINE n == attempt.ns
           space == MaxBatch - Len(attempt.jobs)
           size == IF Len(queues[n]) < space THEN Len(queues[n]) ELSE space
           more == SubSeq(queues[n], 1, size)
           rest == SubSeq(queues[n], size + 1, Len(queues[n]))
<1>1. n \in Namespaces /\ attempt.jobs \in Seq(Requests) /\ Len(attempt.jobs) \in Nat
  BY DEF Connect, BatcherTypeOK, QueueInv, Stage, Attempts
<1>2. queues[n] \in Seq(Requests) /\ Len(queues[n]) \in Nat
  BY <1>1 DEF BatcherTypeOK
<1>3. size \in 0 .. Len(queues[n]) /\ size <= space /\ space \in Nat
  BY <1>1, <1>2, BatcherAssumption DEF QueueInv
<1>4. /\ queues' = [queues EXCEPT ![n] = rest]
      /\ ready' = Unready(ready, n)
      /\ attempt' = [attempt EXCEPT !.stage = "precommit", !.jobs = attempt.jobs \o more]
      /\ call' = Activated(n, more) /\ loop' = loop /\ delayed' = delayed
  BY DEF Connect
<1>5. ready' \in Seq(Namespaces)
  BY <1>4, KeptPart DEF Unready, BatcherTypeOK
<1> HIDE DEF size
<1>6. /\ more \in Seq(Requests) /\ rest \in Seq(Requests) /\ more \o rest = queues[n]
      /\ Len(more) = size
  BY <1>2, <1>3, CutIs
<1> HIDE DEF more, rest
<1>7. Len(attempt.jobs \o more) = Len(attempt.jobs) + size
  BY <1>1, <1>6
<1>8. Len(attempt.jobs \o more) <= MaxBatch
  <2>1. size \in Nat
    BY <1>2, <1>3
  <2> QED BY <1>1, <1>3, <1>7, <2>1, BatcherAssumption
<1> QED BY <1>1, <1>4, <1>5, <1>6, <1>8

\* The survivors of a batch go before the queue.
LEMMA TriesAgainEffect ==
  ASSUME BatcherTypeOK, QueueInv, NEW later \in BOOLEAN, TriesAgain(later), attempt.ns \in Namespaces
  PROVE  /\ attempt' = NoAttempt /\ call' = SentBack /\ cancels' = cancels
         /\ \/ queues' = queues
            \/ queues' = [queues EXCEPT ![attempt.ns] = Kept(attempt.jobs, Wanted) \o queues[attempt.ns]]
         /\ ready' \in Seq(Namespaces) /\ delayed' \in SUBSET Namespaces
         /\ loop' \in {"idle", "scheduled", "running"}
<1>1. /\ attempt' = NoAttempt /\ call' = SentBack /\ cancels' = cancels
      /\ \/ queues' = queues
         \/ queues' = [queues EXCEPT ![attempt.ns] = Kept(attempt.jobs, Wanted) \o queues[attempt.ns]]
      /\ delayed' \in SUBSET Namespaces
  BY DEF TriesAgain, Requeued, BatcherTypeOK
<1>2. CASE Wanted = {}
  BY <1>1, <1>2 DEF TriesAgain, BatcherTypeOK
<1>3. CASE Wanted # {} /\ later
  <2>1. ready' = Kept(ready, Namespaces \ {attempt.ns}) /\ loop' = loop
    BY <1>3 DEF TriesAgain
  <2>2. Kept(ready, Namespaces \ {attempt.ns}) \in Seq(Namespaces)
    BY KeptPart DEF BatcherTypeOK
  <2> QED BY <1>1, <2>1, <2>2 DEF BatcherTypeOK
<1>4. CASE Wanted # {} /\ ~later
  <2>1. MarkReady(ready, attempt.ns)
    BY <1>4 DEF TriesAgain
  <2> QED BY <1>1, <2>1, ReadyMarked DEF BatcherTypeOK
<1> QED BY <1>2, <1>3, <1>4

\* What each step makes of the types.
LEMMA BatcherTypeStep == BatcherTypeOK /\ QueueInv /\ [BatcherNext]_batcherVars => BatcherTypeOK'
<1> SUFFICES ASSUME BatcherTypeOK, QueueInv, [BatcherNext]_batcherVars PROVE BatcherTypeOK'
  OBVIOUS
<1>1. ASSUME NEW r \in Requests, Submit(r)
      PROVE  BatcherTypeOK'
  <2>1. CASE Cardinality(Outstanding) < MaxOutstanding
    <3>1. NamespaceOf[r] \in Namespaces
      BY BatcherAssumption
    <3>2. queues' = [queues EXCEPT ![NamespaceOf[r]] = Append(queues[NamespaceOf[r]], r)]
      BY <1>1, <2>1 DEF Submit
    <3>3. queues' \in [Namespaces -> Seq(Requests)]
      BY <3>1, <3>2 DEF BatcherTypeOK
    <3>4. MarkReady(ready, NamespaceOf[r])
      BY <1>1, <2>1 DEF Submit
    <3>5. ready' \in Seq(Namespaces) /\ loop' \in {"idle", "scheduled", "running"}
      BY <3>1, <3>4, ReadyMarked DEF BatcherTypeOK
    <3>6. call' \in [Requests -> Calls] /\ delayed' = delayed /\ applied' \in [Requests -> Nat]
      <4>1. /\ call' = [call EXCEPT ![r] = "queued"] /\ delayed' = delayed
            /\ applied' = [applied EXCEPT ![r] = 0]
        BY <1>1, <2>1 DEF Submit
      <4>2. "queued" \in Calls
        BY DEF Calls
      <4> QED BY <4>1, <4>2 DEF BatcherTypeOK
    <3>7. earlier' \in [Requests -> SUBSET Requests]
      <4>1. Outstanding \subseteq Requests
        BY DEF Outstanding
      <4>2. earlier' = [q \in Requests |->
              IF q = r THEN {p \in Outstanding : NamespaceOf[p] = NamespaceOf[r]} ELSE earlier[q] \ {r}]
        BY <1>1, <2>1 DEF Submit
      <4> QED BY <4>1, <4>2 DEF BatcherTypeOK
    <3>8. UNCHANGED <<attempt, cancels, lock, staged>>
      BY <1>1 DEF Submit
    <3> QED BY <3>3, <3>5, <3>6, <3>7, <3>8 DEF BatcherTypeOK
  <2>2. CASE ~(Cardinality(Outstanding) < MaxOutstanding)
    <3>1. /\ call' = [call EXCEPT ![r] = "failed"] /\ applied' = [applied EXCEPT ![r] = 0]
          /\ UNCHANGED <<queues, ready, delayed, loop, earlier, attempt, cancels, lock, staged>>
      BY <1>1, <2>2 DEF Submit
    <3>2. "failed" \in Calls
      BY DEF Calls
    <3> QED BY <3>1, <3>2 DEF BatcherTypeOK
  <2> QED BY <2>1, <2>2
<1>2. ASSUME NEW r \in Requests, Cancel(r)
      PROVE  BatcherTypeOK'
  <2>1. /\ cancels' \in Nat /\ call' \in [Requests -> Calls] /\ UNCHANGED <<delayed, loop, database, earlier>>
    BY <1>2 DEF Cancel, BatcherTypeOK, Calls
  <2>2. CASE call[r] = "queued"
    <3>1. NamespaceOf[r] \in Namespaces
      BY BatcherAssumption
    <3>2. /\ queues' = [queues EXCEPT ![NamespaceOf[r]] = Kept(queues[NamespaceOf[r]], Requests \ {r})]
          /\ ready' \in {ready, Kept(ready, Namespaces \ {NamespaceOf[r]})} /\ attempt' = attempt
      BY <1>2, <2>2 DEF Cancel, Unready
    <3>3. Kept(queues[NamespaceOf[r]], Requests \ {r}) \in Seq(Requests)
      BY <3>1, KeptPart DEF BatcherTypeOK
    <3>4. Kept(ready, Namespaces \ {NamespaceOf[r]}) \in Seq(Namespaces)
      BY KeptPart DEF BatcherTypeOK
    <3>5. queues' \in [Namespaces -> Seq(Requests)] /\ ready' \in Seq(Namespaces)
      BY <3>1, <3>2, <3>3, <3>4 DEF BatcherTypeOK
    <3> QED BY <2>1, <3>2, <3>5 DEF BatcherTypeOK, database
  <2>3. CASE call[r] # "queued"
    <3>1. attempt' \in Attempts /\ UNCHANGED <<queues, ready>>
      BY <1>2, <2>3, AttemptUpdates DEF Cancel, BatcherTypeOK
    <3> QED BY <2>1, <3>1 DEF BatcherTypeOK, database
  <2> QED BY <2>2, <2>3
<1>3. CASE Take
  <2>1. CASE ready = << >>
    BY <1>3, <2>1 DEF Take, BatcherTypeOK, database
  <2>2. CASE ready # << >>
    <3>1. PICK n \in Namespaces : \E jobs, rest \in Seq(Requests) :
            /\ queues' = [queues EXCEPT ![n] = rest]
            /\ attempt' = [stage |-> "acquiring", ns |-> n, jobs |-> jobs, results |-> {}, broken |-> FALSE]
            /\ call' = Activated(n, jobs)
            /\ ready' \in Seq(Namespaces) /\ loop' = "running" /\ delayed' = delayed
      BY <1>3, <2>2, TakeEffect
    <3>2. attempt' \in Attempts
      BY <3>1 DEF Attempts, Steps
    <3>3. call' \in [Requests -> Calls]
      BY <3>1, CallUpdates DEF BatcherTypeOK
    <3>4. UNCHANGED <<cancels, database, earlier>>
      BY <1>3 DEF Take
    <3> QED BY <3>1, <3>2, <3>3, <3>4 DEF BatcherTypeOK, database
  <2> QED BY <2>1, <2>2
<1>4. CASE Connect
  <2>1. PICK more \in Seq(Requests), rest \in Seq(Requests) :
          /\ queues' = [queues EXCEPT ![attempt.ns] = rest]
          /\ attempt' = [attempt EXCEPT !.stage = "precommit", !.jobs = attempt.jobs \o more]
          /\ call' = Activated(attempt.ns, more)
          /\ ready' \in Seq(Namespaces) /\ loop' = loop /\ delayed' = delayed
    BY <1>4, ConnectEffect
  <2>2. attempt.jobs \o more \in Seq(Requests)
    BY DEF BatcherTypeOK, Attempts
  <2>3. attempt' \in Attempts
    BY <2>1, <2>2, AttemptUpdates DEF BatcherTypeOK
  <2>4. call' \in [Requests -> Calls]
    BY <2>1, CallUpdates DEF BatcherTypeOK
  <2>5. UNCHANGED <<cancels, database, earlier>> /\ attempt.ns \in Namespaces
    BY <1>4, ConnectEffect DEF Connect
  <2> QED BY <2>1, <2>3, <2>4, <2>5 DEF BatcherTypeOK, database
<1>5. ASSUME \/ Fails \/ Ends("done"),
             UNCHANGED <<staged, applied, earlier>>, lock' \in [Namespaces -> {"free", "held", "committing", "severed", "other"}]
      PROVE  BatcherTypeOK'
  <2>1. attempt' = NoAttempt /\ UNCHANGED <<queues, ready, delayed, loop, cancels>>
    BY <1>5 DEF Fails, Ends
  <2>2. \E a \in Calls : call' = [r \in Requests |-> IF r \in Wanted THEN a ELSE call[r]]
    BY <1>5 DEF Fails, Ends, Calls
  <2>3. call' \in [Requests -> Calls]
    <3>1. call \in [Requests -> Calls]
      BY DEF BatcherTypeOK
    <3> QED BY <2>2, <3>1
  <2>4. attempt' \in Attempts
    BY <2>1, AttemptUpdates DEF BatcherTypeOK
  <2> QED BY <1>5, <2>1, <2>3, <2>4 DEF BatcherTypeOK
<1>6. ASSUME NEW later \in BOOLEAN, TriesAgain(later), attempt.ns \in Namespaces,
             UNCHANGED <<staged, applied, earlier>>, lock' \in [Namespaces -> {"free", "held", "committing", "severed", "other"}]
      PROVE  BatcherTypeOK'
  <2>1. Kept(attempt.jobs, Wanted) \o queues[attempt.ns] \in Seq(Requests)
    <3>1. Kept(attempt.jobs, Wanted) \in Seq(Requests) /\ queues[attempt.ns] \in Seq(Requests)
      BY <1>6, KeptPart DEF BatcherTypeOK, Attempts
    <3> QED BY <3>1
  <2>2. call' \in [Requests -> Calls] /\ attempt' \in Attempts /\ cancels' = cancels
    BY <1>6, CallUpdates, AttemptUpdates, TriesAgainEffect DEF BatcherTypeOK
  <2>3. queues' \in [Namespaces -> Seq(Requests)]
    BY <1>6, <2>1, TriesAgainEffect DEF BatcherTypeOK
  <2>4. ready' \in Seq(Namespaces) /\ delayed' \in SUBSET Namespaces
        /\ loop' \in {"idle", "scheduled", "running"}
    BY <1>6, TriesAgainEffect
  <2> QED BY <1>6, <2>2, <2>3, <2>4 DEF BatcherTypeOK
<1> DEFINE Locks == [Namespaces -> {"free", "held", "committing", "severed", "other"}]
<1>7. ~Stage("none") => attempt.ns \in Namespaces
  BY DEF QueueInv, BatcherTypeOK, Attempts
<1>8. CASE ConnectFails \/ Succeed \/ CommitFails
  <2>1. Fails \/ Ends("done")
    BY <1>8 DEF ConnectFails, Succeed, CommitFails
  <2>2. UNCHANGED <<lock, staged, applied, earlier>> /\ lock' \in Locks
    BY <1>8 DEF ConnectFails, Succeed, CommitFails, database, BatcherTypeOK
  <2> QED BY <1>5, <2>1, <2>2
<1>9. CASE Lock
  <2>1. CASE lock[attempt.ns] = "free"
    <3>1. /\ lock' = [lock EXCEPT ![attempt.ns] = "held"]
          /\ attempt' = [attempt EXCEPT !.stage = "locked"]
          /\ UNCHANGED callers /\ UNCHANGED <<staged, applied, earlier>>
      BY <1>9, <2>1 DEF Lock
    <3>2. lock' \in Locks
      BY <3>1 DEF BatcherTypeOK
    <3>3. attempt' \in Attempts
      BY <3>1, AttemptUpdates DEF BatcherTypeOK, Steps
    <3> QED BY <3>1, <3>2, <3>3 DEF BatcherTypeOK, callers
  <2>2. CASE lock[attempt.ns] # "free"
    <3>1. TriesAgain(TRUE) /\ UNCHANGED <<lock, staged, applied, earlier>> /\ ~Stage("none")
      BY <1>9, <2>2 DEF Lock, Stage
    <3>2. lock' \in Locks
      BY <3>1 DEF BatcherTypeOK
    <3> QED BY <1>6, <1>7, <3>1, <3>2
  <2> QED BY <2>1, <2>2
<1>10. CASE Run
  <2>1. PICK results \in SUBSET Wanted :
          IF results = {} THEN Fails /\ lock' = [lock EXCEPT ![attempt.ns] = "free"]
          ELSE /\ attempt' = [attempt EXCEPT !.stage = "ran", !.results = results]
               /\ call' = [r \in Requests |-> IF r \in Wanted \ results THEN "failed" ELSE call[r]]
               /\ UNCHANGED <<queues, ready, delayed, loop, cancels, lock>>
    BY <1>10 DEF Run
  <2>2. UNCHANGED <<staged, applied, earlier>>
    BY <1>10 DEF Run
  <2>3. CASE results = {}
    <3>1. lock' \in Locks
      BY <2>1, <2>3 DEF BatcherTypeOK
    <3> QED BY <1>5, <2>1, <2>2, <2>3, <3>1
  <2>4. CASE results # {}
    <3>1. results \in SUBSET Requests
      BY DEF Wanted, Jobs, ToSet, BatcherTypeOK, Attempts
    <3>2. attempt' \in Attempts
      <4>1. attempt' = [attempt EXCEPT !.stage = "ran", !.results = results]
        BY <2>1, <2>4
      <4> QED BY <3>1, <4>1, AttemptUpdates DEF BatcherTypeOK
    <3>3. call' \in [Requests -> Calls]
      <4>1. call \in [Requests -> Calls] /\ "failed" \in Calls
        BY DEF BatcherTypeOK, Calls
      <4>2. call' = [r \in Requests |-> IF r \in Wanted \ results THEN "failed" ELSE call[r]]
        BY <2>1, <2>4
      <4> QED BY <4>1, <4>2
    <3> QED BY <2>1, <2>2, <2>4, <3>2, <3>3 DEF BatcherTypeOK
  <2> QED BY <2>3, <2>4
<1>11. CASE SendCommit
  <2>1. /\ lock' = [lock EXCEPT ![attempt.ns] = "committing"]
        /\ staged' = [staged EXCEPT ![attempt.ns] = attempt.results]
        /\ attempt' = [attempt EXCEPT !.stage = "commit"]
        /\ UNCHANGED callers /\ UNCHANGED <<applied, earlier>>
    BY <1>11 DEF SendCommit
  <2>2. lock' \in Locks /\ staged' \in [Namespaces -> SUBSET Requests]
    BY <2>1 DEF BatcherTypeOK, Attempts
  <2>3. attempt' \in Attempts
    BY <2>1, AttemptUpdates DEF BatcherTypeOK, Steps
  <2> QED BY <2>1, <2>2, <2>3 DEF BatcherTypeOK, callers
<1>12. CASE QueryFails \/ Unwind
  <2>1. UNCHANGED <<staged, applied, earlier>> /\ ~Stage("none")
    BY <1>12 DEF QueryFails, Unwind, Stage
  <2>2. \E left \in {"free", "severed"} : RolledBack(left)
    BY <1>12 DEF QueryFails, Unwind
  <2>3. lock' \in Locks
    <3>1. PICK left \in {"free", "severed"} :
            lock' = [lock EXCEPT ![attempt.ns] = IF lock[attempt.ns] = "held" THEN left ELSE lock[attempt.ns]]
      BY <2>2 DEF RolledBack
    <3> QED BY <1>7, <2>1, <3>1 DEF BatcherTypeOK
  <2>4. Fails \/ TriesAgain(TRUE) \/ TriesAgain(FALSE)
    BY <1>12 DEF QueryFails, Unwind
  <2> QED BY <1>5, <1>6, <1>7, <2>1, <2>3, <2>4
<1>13. ASSUME NEW n \in Namespaces, TimerFires(n)
       PROVE  BatcherTypeOK'
  <2>1. /\ delayed' = delayed \ {n} /\ queues' = queues /\ MarkReady(ready, n)
        /\ UNCHANGED <<call, cancels, attempt, database, earlier>>
    BY <1>13 DEF TimerFires
  <2>2. ready' \in Seq(Namespaces) /\ loop' \in {"idle", "scheduled", "running"}
    BY <2>1, ReadyMarked DEF BatcherTypeOK
  <2> QED BY <2>1, <2>2 DEF BatcherTypeOK, database
<1>14. ASSUME NEW n \in Namespaces,
              Land(n) \/ Vanish(n) \/ Notice(n) \/ OtherTakes(n) \/ OtherLeaves(n)
       PROVE  BatcherTypeOK'
  <2>1. UNCHANGED <<callers, attempt, earlier>>
    BY <1>14 DEF Land, Vanish, Notice, OtherTakes, OtherLeaves
  <2>2. lock' \in Locks /\ staged' \in [Namespaces -> SUBSET Requests]
    BY <1>14 DEF Land, Vanish, Notice, OtherTakes, OtherLeaves, BatcherTypeOK
  <2>3. applied' \in [Requests -> Nat]
    <3>1. CASE Land(n)
      <4>1. applied' = [r \in Requests |-> IF r \in staged[n] THEN applied[r] + 1 ELSE applied[r]]
        BY <3>1 DEF Land
      <4>2. \A r \in Requests : applied[r] \in Nat /\ applied[r] + 1 \in Nat
        BY DEF BatcherTypeOK
      <4> QED BY <4>1, <4>2
    <3>2. CASE ~Land(n)
      BY <1>14, <3>2 DEF Vanish, Notice, OtherTakes, OtherLeaves, BatcherTypeOK
    <3> QED BY <3>1, <3>2
  <2> QED BY <2>1, <2>2, <2>3 DEF BatcherTypeOK, callers
<1>15. CASE UNCHANGED batcherVars
  BY <1>15 DEF BatcherTypeOK, batcherVars, callers, database
<1> QED BY <1>1, <1>2, <1>3, <1>4, <1>8, <1>9, <1>10, <1>11, <1>12, <1>13, <1>14, <1>15
        DEF BatcherNext

-----------------------------------------------------------------------------
(* The line of a namespace: its batch and its queue.                       *)

LineOf(a, q, n) == (IF a.ns = n THEN a.jobs ELSE << >>) \o q[n]

LEMMA LineIs ==
  ASSUME BatcherTypeOK, NEW n \in Namespaces
  PROVE  /\ Line(n) = LineOf(attempt, queues, n) /\ Line(n) \in Seq(Requests)
         /\ attempt.jobs \in Seq(Requests) /\ queues[n] \in Seq(Requests)
         /\ DOMAIN attempt.jobs = 1 .. Len(attempt.jobs) /\ DOMAIN queues[n] = 1 .. Len(queues[n])
         /\ attempt.ns = n => Line(n) = attempt.jobs \o queues[n]
         /\ attempt.ns # n => Line(n) = queues[n]
<1>1. /\ attempt.jobs \in Seq(Requests) /\ queues[n] \in Seq(Requests)
  BY DEF BatcherTypeOK, Attempts
<1>2. \A s \in Seq(Requests) : << >> \o s = s /\ DOMAIN s = 1 .. Len(s)
  OBVIOUS
<1>3. attempt.jobs \o queues[n] \in Seq(Requests)
  BY <1>1
<1> QED BY <1>1, <1>2, <1>3 DEF Line, LineOf

\* The order that the property states, over the line as a list.
OrderInv == \A n \in Namespaces : Ordered(Line(n), Outstanding, earlier)

LEMMA OrderIs == BatcherTypeOK => (OrderInv <=> ServedInOrder)
<1> SUFFICES ASSUME BatcherTypeOK
             PROVE  OrderInv <=> ServedInOrder
  OBVIOUS
<1>1. ASSUME NEW n \in Namespaces
      PROVE  /\ DOMAIN Line(n) = 1 .. Len(Line(n))
             /\ \A i \in DOMAIN Line(n) : Line(n)[i] \in Requests
  <2>1. Line(n) \in Seq(Requests)
    BY LineIs
  <2> QED BY <2>1
<1>2. ASSUME NEW n \in Namespaces
      PROVE  Ordered(Line(n), Outstanding, earlier) <=>
               \A i, j \in 1..Len(Line(n)) :
                 i < j /\ {Line(n)[i], Line(n)[j]} \subseteq Outstanding =>
                   Line(n)[j] \notin earlier[Line(n)[i]]
  BY <1>1 DEF Ordered
<1> QED BY <1>2 DEF OrderInv, ServedInOrder

\* A line of which a step only takes away keeps its order.
LEMMA LinesShrink ==
  ASSUME BatcherTypeOK, BatcherTypeOK', QueueInv, OrderInv, earlier' = earlier,
         Outstanding' \subseteq Outstanding,
         \A n \in Namespaces : PartOf(LineOf(attempt', queues', n), LineOf(attempt, queues, n))
  PROVE  (\A n \in Namespaces : Distinct(Line(n))') /\ OrderInv'
<1>1. ASSUME NEW n \in Namespaces
      PROVE  Line(n)' = LineOf(attempt', queues', n) /\ Line(n) = LineOf(attempt, queues, n)
  BY LineIs DEF Line, LineOf
<1>2. ASSUME NEW n \in Namespaces
      PROVE  Distinct(Line(n)') /\ Ordered(Line(n)', Outstanding', earlier')
  <2>1. Distinct(Line(n)) /\ Ordered(Line(n), Outstanding, earlier)
    BY DEF QueueInv, OrderInv
  <2>2. PartOf(Line(n)', Line(n))
    BY <1>1
  <2> QED BY <2>1, <2>2, PartOrdered
<1> QED BY <1>2 DEF OrderInv

\* The lines of a step that leaves the batch and the queues, ends the batch, or sends
\* its survivors back.
LEMMA LinesKept ==
  ASSUME BatcherTypeOK, QueueInv,
         \/ /\ queues' = queues
            /\ \/ attempt'.ns = attempt.ns /\ attempt'.jobs = attempt.jobs
               \/ attempt' = NoAttempt
         \/ /\ attempt.ns \in Namespaces /\ attempt' = NoAttempt
            /\ queues' = [queues EXCEPT ![attempt.ns] = Kept(attempt.jobs, Wanted) \o queues[attempt.ns]]
  PROVE  \A n \in Namespaces : PartOf(LineOf(attempt', queues', n), LineOf(attempt, queues, n))
<1> SUFFICES ASSUME NEW n \in Namespaces
             PROVE  PartOf(LineOf(attempt', queues', n), LineOf(attempt, queues, n))
  OBVIOUS
<1>1. /\ attempt.jobs \in Seq(Requests) /\ queues[n] \in Seq(Requests)
      /\ LineOf(attempt, queues, n) \in Seq(Requests) /\ << >> \in Seq(Requests)
      /\ PartOf(queues[n], queues[n]) /\ PartOf(<< >>, attempt.jobs)
      /\ \A s \in Seq(Requests) : << >> \o s = s
  <2>1. /\ attempt.jobs \in Seq(Requests) /\ queues[n] \in Seq(Requests)
        /\ LineOf(attempt, queues, n) \in Seq(Requests)
    BY LineIs
  <2>2. \A s \in Seq(Requests) : << >> \o s = s
    OBVIOUS
  <2> QED BY <2>1, <2>2, PartTrivial
<1>2. NoAttempt.ns # n
  BY BatcherAssumption DEF NoAttempt
<1>3. CASE queues' = queues /\ attempt'.ns = attempt.ns /\ attempt'.jobs = attempt.jobs
  <2>1. LineOf(attempt', queues', n) = LineOf(attempt, queues, n)
    BY <1>3 DEF LineOf
  <2> QED BY <1>1, <2>1, PartTrivial
<1>4. CASE queues' = queues /\ attempt' = NoAttempt
  <2>1. LineOf(attempt', queues', n) = << >> \o queues[n]
    BY <1>2, <1>4 DEF LineOf
  <2>2. CASE attempt.ns = n
    <3>1. PartOf(<< >> \o queues[n], attempt.jobs \o queues[n])
      BY <1>1, PartsJoin
    <3>2. LineOf(attempt, queues, n) = attempt.jobs \o queues[n]
      BY <2>2 DEF LineOf
    <3> QED BY <2>1, <3>1, <3>2
  <2>3. CASE attempt.ns # n
    <3>1. LineOf(attempt, queues, n) = << >> \o queues[n]
      BY <2>3 DEF LineOf
    <3> QED BY <1>1, <2>1, <3>1
  <2> QED BY <2>2, <2>3
<1>5. CASE /\ attempt.ns \in Namespaces /\ attempt' = NoAttempt
           /\ queues' = [queues EXCEPT ![attempt.ns] = Kept(attempt.jobs, Wanted) \o queues[attempt.ns]]
  <2> DEFINE k == Kept(attempt.jobs, Wanted)
  <2>1. k \in Seq(Requests) /\ PartOf(k, attempt.jobs)
    BY <1>1, KeptPart
  <2> HIDE DEF k
  <2>2. LineOf(attempt', queues', n) = << >> \o queues'[n]
    BY <1>2, <1>5 DEF LineOf
  <2>3. CASE attempt.ns = n
    <3>1. queues'[n] = k \o queues[n]
      BY <1>5, <2>3 DEF BatcherTypeOK, k
    <3>2. PartOf(k \o queues[n], attempt.jobs \o queues[n]) /\ k \o queues[n] \in Seq(Requests)
      BY <1>1, <2>1, PartsJoin
    <3>3. LineOf(attempt, queues, n) = attempt.jobs \o queues[n]
      BY <2>3 DEF LineOf
    <3> QED BY <1>1, <2>2, <3>1, <3>2, <3>3
  <2>4. CASE attempt.ns # n
    <3>1. queues'[n] = queues[n] /\ LineOf(attempt, queues, n) = << >> \o queues[n]
      BY <1>5, <2>4 DEF LineOf, BatcherTypeOK
    <3> QED BY <1>1, <2>2, <3>1
  <2> QED BY <2>3, <2>4
<1> QED BY <1>3, <1>4, <1>5

LEMMA WaitsWanted ==
  ASSUME BatcherTypeOK, QueueInv
  PROVE  /\ Jobs \subseteq Requests /\ Wanted = {r \in Requests : call[r] = "active"}
         /\ \A n \in Namespaces : \A i \in DOMAIN queues[n] :
              queues[n][i] \in Requests \ Jobs /\ queues[n][i] \in Outstanding
         /\ \A i \in DOMAIN attempt.jobs : attempt.jobs[i] \in Jobs
<1>1. attempt.jobs \in Seq(Requests)
  BY DEF BatcherTypeOK, Attempts
<1>2. Jobs \subseteq Requests /\ \A i \in DOMAIN attempt.jobs : attempt.jobs[i] \in Jobs
  BY <1>1 DEF Jobs, ToSet
<1>3. ASSUME NEW n \in Namespaces, NEW i \in DOMAIN queues[n]
      PROVE  queues[n][i] \in Requests \ Jobs /\ queues[n][i] \in Outstanding
  <2>1. queues[n][i] \in Requests
    BY DEF BatcherTypeOK
  <2> QED BY <2>1 DEF QueueInv, Outstanding
<1> QED BY <1>2, <1>3 DEF Wanted, QueueInv

\* The batch is gone: its callers are answered or, the survivors, sent back.
LEMMA QueueLoses ==
  ASSUME BatcherTypeOK, BatcherTypeOK', QueueInv, OrderInv, earlier' = earlier, ~Stage("none"),
         Fails \/ Ends("done") \/ TriesAgain(TRUE) \/ TriesAgain(FALSE)
  PROVE  QueueInv' /\ OrderInv'
<1>1. attempt.ns \in Namespaces /\ attempt.jobs \in Seq(Requests)
  BY DEF QueueInv, BatcherTypeOK, Attempts
<1>2. attempt' = NoAttempt
  BY DEF Fails, Ends, TriesAgain
<1>3. \/ queues' = queues
      \/ /\ TriesAgain(TRUE) \/ TriesAgain(FALSE)
         /\ queues' = [queues EXCEPT ![attempt.ns] = Kept(attempt.jobs, Wanted) \o queues[attempt.ns]]
  BY <1>1, TriesAgainEffect DEF Fails, Ends
<1>4. /\ \A r \in Requests \ Wanted : call'[r] = call[r]
      /\ \A r \in Wanted : call'[r] \in {"queued", "failed", "done"}
      /\ TriesAgain(TRUE) \/ TriesAgain(FALSE) => \A r \in Wanted : call'[r] = "queued"
      /\ Wanted = {r \in Requests : call[r] = "active"}
  BY WaitsWanted DEF Fails, Ends, TriesAgain, SentBack
<1>5. Outstanding' \subseteq Outstanding
  BY <1>4 DEF Outstanding
<1>6. (\A n \in Namespaces : Distinct(Line(n))') /\ OrderInv'
  BY <1>1, <1>2, <1>3, <1>5, LinesKept, LinesShrink
<1>7. ASSUME NEW n \in Namespaces, NEW i \in DOMAIN queues'[n]
      PROVE  call'[queues'[n][i]] = "queued" /\ NamespaceOf[queues'[n][i]] = n
  <2>1. ASSUME NEW j \in DOMAIN queues[n]
        PROVE  call'[queues[n][j]] = "queued" /\ NamespaceOf[queues[n][j]] = n
    <3>1. queues[n][j] \in Requests /\ call[queues[n][j]] = "queued"
      BY DEF BatcherTypeOK, QueueInv
    <3> QED BY <1>4, <3>1 DEF QueueInv
  <2>2. CASE queues'[n] = queues[n]
    BY <1>7, <2>1, <2>2
  <2>3. CASE /\ n = attempt.ns
             /\ TriesAgain(TRUE) \/ TriesAgain(FALSE)
             /\ queues'[n] = Kept(attempt.jobs, Wanted) \o queues[n]
    <3> DEFINE k == Kept(attempt.jobs, Wanted)
    <3>1. k \in Seq(Requests) /\ \A j \in DOMAIN k : k[j] \in Wanted
      BY <1>1, KeptPart
    <3>2. \A r \in Wanted : call'[r] = "queued" /\ NamespaceOf[r] = n
      BY <1>4, <2>3 DEF Wanted, QueueInv
    <3> HIDE DEF k
    <3>3. queues[n] \in Seq(Requests) /\ queues'[n] = k \o queues[n]
      BY <2>3 DEF BatcherTypeOK, k
    <3>4. \/ i \in DOMAIN k /\ queues'[n][i] = k[i]
          \/ \E j \in DOMAIN queues[n] : queues'[n][i] = queues[n][j]
      <4>1. /\ DOMAIN k = 1 .. Len(k) /\ DOMAIN queues[n] = 1 .. Len(queues[n])
            /\ Len(k) \in Nat /\ Len(queues[n]) \in Nat
            /\ i \in 1 .. Len(k) + Len(queues[n])
            /\ i \in 1 .. Len(k) => queues'[n][i] = k[i]
            /\ \A j \in 1 .. Len(queues[n]) : queues'[n][Len(k) + j] = queues[n][j]
        BY <3>1, <3>3, JoinIs
      <4>2. i \in 1 .. Len(k) \/ (i - Len(k) \in 1 .. Len(queues[n]) /\ Len(k) + (i - Len(k)) = i)
        BY <4>1
      <4> QED BY <4>1, <4>2
    <3> QED BY <2>1, <3>1, <3>2, <3>4
  <2> QED BY <1>1, <1>3, <2>2, <2>3 DEF BatcherTypeOK
<1>8. Jobs' = {}
  BY <1>2 DEF Jobs, ToSet, NoAttempt
<1>9. \A r \in Requests : call'[r] # "active"
  BY <1>4
<1>10. Len(NoAttempt.jobs) <= MaxBatch
  BY BatcherAssumption DEF NoAttempt
<1> QED BY <1>2, <1>6, <1>7, <1>8, <1>9, <1>10 DEF QueueInv, Stage, NoAttempt

\* A step that leaves the queues and who stands in the batch, and answers callers at most.
LEMMA QueueStays ==
  ASSUME BatcherTypeOK, BatcherTypeOK', QueueInv, OrderInv, earlier' = earlier, queues' = queues,
         attempt'.ns = attempt.ns, attempt'.jobs = attempt.jobs,
         attempt' = attempt \/ (~Stage("none") /\ ~Stage("none")'),
         \A r \in Requests : call'[r] = call[r] \/ (call[r] # "queued" /\ call'[r] = "failed")
  PROVE  QueueInv' /\ OrderInv'
<1>1. Outstanding' \subseteq Outstanding
  BY DEF Outstanding
<1>2. (\A n \in Namespaces : Distinct(Line(n))') /\ OrderInv'
  BY <1>1, LinesKept, LinesShrink
<1>3. Jobs' = Jobs /\ Jobs \subseteq Requests
  BY WaitsWanted DEF Jobs
<1>4. ASSUME NEW n \in Namespaces, NEW i \in DOMAIN queues[n]
      PROVE  call'[queues[n][i]] = "queued" /\ NamespaceOf[queues[n][i]] = n
  BY WaitsWanted DEF QueueInv
<1>5. \A r \in Jobs : call'[r] # "queued" /\ NamespaceOf[r] = attempt.ns
  BY <1>3 DEF QueueInv
<1>6. \A r \in Requests : call'[r] = "active" => r \in Jobs
  BY DEF QueueInv
<1> QED BY <1>2, <1>3, <1>4, <1>5, <1>6 DEF QueueInv, Stage

\* A caller gives up: it leaves the queue, or stays in the batch unanswered.
LEMMA QueueCancels ==
  ASSUME BatcherTypeOK, BatcherTypeOK', QueueInv, OrderInv, NEW r \in Requests, Cancel(r)
  PROVE  QueueInv' /\ OrderInv'
<1> DEFINE m == NamespaceOf[r]
<1>1. /\ call' = [call EXCEPT ![r] = "failed"] /\ earlier' = earlier
      /\ call[r] \in {"queued", "active"} /\ m \in Namespaces
  BY BatcherAssumption DEF Cancel, Outstanding
<1>2. CASE call[r] = "active"
  <2>1. queues' = queues /\ attempt' \in {attempt, [attempt EXCEPT !.broken = TRUE]}
    BY <1>2 DEF Cancel
  <2>2. attempt'.ns = attempt.ns /\ attempt'.jobs = attempt.jobs /\ attempt'.stage = attempt.stage
    BY <2>1, AttemptUpdates DEF BatcherTypeOK
  <2>3. r \in Jobs /\ ~Stage("none")
    BY <1>2 DEF QueueInv, NoAttempt, Jobs, ToSet
  <2>4. \A q \in Requests : call'[q] = call[q] \/ (call[q] # "queued" /\ call'[q] = "failed")
    BY <1>1, <1>2 DEF BatcherTypeOK
  <2> QED BY <1>1, <2>1, <2>2, <2>3, <2>4, QueueStays DEF Stage
<1>3. CASE call[r] = "queued"
  <2> DEFINE k == Kept(queues[m], Requests \ {r})
  <2>1. queues' = [queues EXCEPT ![m] = k] /\ attempt' = attempt
    BY <1>3 DEF Cancel
  <2>2. k \in Seq(Requests) /\ PartOf(k, queues[m]) /\ \A i \in DOMAIN k : k[i] # r
    BY <1>1, KeptPart DEF BatcherTypeOK
  <2> HIDE DEF k
  <2>3. ASSUME NEW n \in Namespaces
        PROVE  PartOf(queues'[n], queues[n]) /\ \A i \in DOMAIN queues'[n] : queues'[n][i] # r
    <3>1. CASE n = m
      BY <2>1, <2>2, <3>1 DEF BatcherTypeOK
    <3>2. CASE n # m
      <4>1. queues'[n] = queues[n] /\ queues[n] \in Seq(Requests)
        BY <2>1, <3>2 DEF BatcherTypeOK
      <4>2. \A i \in DOMAIN queues[n] : queues[n][i] # r
        BY <3>2 DEF QueueInv
      <4> QED BY <4>1, <4>2, PartTrivial
    <3> QED BY <3>1, <3>2
  <2>4. ASSUME NEW n \in Namespaces
        PROVE  PartOf(LineOf(attempt', queues', n), LineOf(attempt, queues, n))
    <3> DEFINE b == IF attempt.ns = n THEN attempt.jobs ELSE << >>
    <3>1. b \in Seq(Requests) /\ queues[n] \in Seq(Requests) /\ queues'[n] \in Seq(Requests)
      BY DEF BatcherTypeOK, Attempts
    <3> HIDE DEF b
    <3>2. PartOf(b \o queues'[n], b \o queues[n])
      BY <2>3, <3>1, PartTrivial, PartsJoin
    <3> QED BY <2>1, <3>2 DEF LineOf, b
  <2>5. \A q \in Requests \ {r} : call'[q] = call[q]
    BY <1>1 DEF BatcherTypeOK
  <2>6. call'[r] = "failed"
    BY <1>1 DEF BatcherTypeOK
  <2>7. (\A n \in Namespaces : Distinct(Line(n))') /\ OrderInv'
    <3>1. Outstanding' \subseteq Outstanding
      BY <1>1, <2>5 DEF Outstanding
    <3> QED BY <1>1, <2>4, <3>1, LinesShrink
  <2>8. ASSUME NEW n \in Namespaces, NEW i \in DOMAIN queues'[n]
        PROVE  call'[queues'[n][i]] = "queued" /\ NamespaceOf[queues'[n][i]] = n
    <3>1. PICK j \in DOMAIN queues[n] : queues'[n][i] = queues[n][j]
      BY <2>3 DEF PartOf, Places
    <3>2. queues[n][j] \in Requests \ {r}
      BY <2>3, <3>1, WaitsWanted
    <3> QED BY <2>5, <3>1, <3>2 DEF QueueInv
  <2>9. \A q \in Jobs : call'[q] # "queued" /\ NamespaceOf[q] = attempt.ns
    BY <2>5, <2>6, WaitsWanted DEF QueueInv
  <2>10. \A q \in Requests : call'[q] = "active" => q \in Jobs
    BY <2>5, <2>6 DEF QueueInv
  <2> QED BY <2>1, <2>7, <2>8, <2>9, <2>10 DEF QueueInv, Stage, Jobs
<1> QED BY <1>1, <1>2, <1>3

\* A batch is taken from the front of its line, which stays as it is.
LEMMA QueueTakes ==
  ASSUME BatcherTypeOK, BatcherTypeOK', QueueInv, OrderInv, Take
  PROVE  QueueInv' /\ OrderInv'
<1>1. Stage("none") /\ attempt = NoAttempt /\ earlier' = earlier /\ Jobs = {}
  BY DEF Take, QueueInv, NoAttempt, Jobs, ToSet
<1>2. CASE ready = << >>
  <2>1. attempt' = attempt /\ queues' = queues /\ call' = call
    BY <1>2 DEF Take
  <2> QED BY <1>1, <2>1, QueueStays
<1>3. CASE ready # << >>
  <2>1. PICK n \in Namespaces, jobs \in Seq(Requests), rest \in Seq(Requests) :
          /\ queues[n] = jobs \o rest /\ Len(jobs) <= MaxBatch
          /\ queues' = [queues EXCEPT ![n] = rest]
          /\ attempt' = [stage |-> "acquiring", ns |-> n, jobs |-> jobs, results |-> {}, broken |-> FALSE]
          /\ call' = Activated(n, jobs)
    BY <1>3, TakeEffect
  <2>2. /\ attempt'.ns = n /\ attempt'.jobs = jobs /\ attempt'.stage = "acquiring"
        /\ Jobs' = ToSet(jobs)
    BY <2>1 DEF Jobs
  <2>3. /\ DOMAIN queues[n] = 1 .. Len(jobs) + Len(rest)
        /\ Len(jobs) \in Nat /\ Len(rest) \in Nat
        /\ DOMAIN jobs = 1 .. Len(jobs) /\ DOMAIN rest = 1 .. Len(rest)
        /\ \A i \in 1 .. Len(jobs) : queues[n][i] = jobs[i]
        /\ \A i \in 1 .. Len(rest) : queues[n][Len(jobs) + i] = rest[i]
    BY <2>1, JoinIs
  <2>4. /\ \A i \in DOMAIN jobs : i \in DOMAIN queues[n] /\ jobs[i] = queues[n][i]
        /\ \A i \in DOMAIN rest : Len(jobs) + i \in DOMAIN queues[n] /\ rest[i] = queues[n][Len(jobs) + i]
    BY <2>3
  <2>5. Line(n) = queues[n] /\ Distinct(queues[n])
    <3>1. attempt.ns # n
      BY <1>1, BatcherAssumption DEF NoAttempt
    <3> QED BY <3>1, LineIs DEF QueueInv
  <2>6. \A i \in DOMAIN rest : rest[i] \notin ToSet(jobs)
    BY <2>1, <2>5, DistinctJoin DEF ToSet
  <2>7. ASSUME NEW m \in Namespaces
        PROVE  LineOf(attempt', queues', m) = LineOf(attempt, queues, m)
    <3>1. << >> \o queues[m] = queues[m]
      BY LineIs, BatcherAssumption DEF LineOf, NoAttempt
    <3>2. attempt.ns # m
      BY <1>1, BatcherAssumption DEF NoAttempt
    <3>3. CASE m = n
      BY <2>1, <2>2, <3>1, <3>2, <3>3 DEF LineOf, BatcherTypeOK
    <3>4. CASE m # n
      BY <2>1, <2>2, <3>2, <3>4 DEF LineOf, BatcherTypeOK
    <3> QED BY <3>3, <3>4
  <2>8. /\ \A r \in ToSet(jobs) : call'[r] = "active" /\ r \in Requests
                                  /\ call[r] = "queued" /\ NamespaceOf[r] = n
        /\ \A r \in Requests \ ToSet(jobs) : call'[r] = call[r]
    <3>1. \A r \in ToSet(jobs) : r \in Requests /\ call[r] = "queued" /\ NamespaceOf[r] = n
      BY <2>4, WaitsWanted DEF ToSet, QueueInv
    <3> QED BY <2>1, <3>1 DEF Activated
  <2>9. (\A m \in Namespaces : Distinct(Line(m))') /\ OrderInv'
    <3>1. Outstanding' \subseteq Outstanding
      BY <2>8 DEF Outstanding
    <3>2. \A m \in Namespaces : PartOf(LineOf(attempt', queues', m), LineOf(attempt, queues, m))
      BY <2>7, LineIs, PartTrivial
    <3> QED BY <1>1, <3>1, <3>2, LinesShrink
  <2>10. ASSUME NEW m \in Namespaces, NEW i \in DOMAIN queues'[m]
         PROVE  call'[queues'[m][i]] = "queued" /\ NamespaceOf[queues'[m][i]] = m
    <3>1. CASE m = n
      <4>1. queues'[m] = rest
        BY <2>1, <3>1 DEF BatcherTypeOK
      <4>2. rest[i] \in Requests \ ToSet(jobs) /\ call[rest[i]] = "queued" /\ NamespaceOf[rest[i]] = m
        BY <2>4, <2>6, <2>10, <3>1, <4>1, WaitsWanted, SMTT(30) DEF QueueInv
      <4> QED BY <2>8, <4>1, <4>2
    <3>2. CASE m # n
      <4>1. queues'[m] = queues[m]
        BY <2>1, <3>2 DEF BatcherTypeOK
      <4>2. queues[m][i] \in Requests \ ToSet(jobs)
        BY <2>8, <2>10, <3>2, <4>1, WaitsWanted DEF QueueInv
      <4> QED BY <2>8, <2>10, <4>1, <4>2 DEF QueueInv
    <3> QED BY <3>1, <3>2
  <2>11. \A r \in Requests : call'[r] = "active" => r \in ToSet(jobs)
    BY <1>1, <2>8 DEF QueueInv
  <2> QED BY <2>1, <2>2, <2>8, <2>9, <2>10, <2>11, BatcherAssumption DEF QueueInv, Stage
<1> QED BY <1>2, <1>3

\* The batch is filled up from the front of the queue.
LEMMA QueueConnects ==
  ASSUME BatcherTypeOK, BatcherTypeOK', QueueInv, OrderInv, Connect
  PROVE  QueueInv' /\ OrderInv'
<1> DEFINE n == attempt.ns
           old == attempt.jobs
<1>1. PICK more \in Seq(Requests), rest \in Seq(Requests) :
        /\ queues[n] = more \o rest /\ Len(old \o more) <= MaxBatch
        /\ queues' = [queues EXCEPT ![n] = rest]
        /\ attempt' = [attempt EXCEPT !.stage = "precommit", !.jobs = old \o more]
        /\ call' = Activated(n, more)
  BY ConnectEffect
<1>2. n \in Namespaces /\ earlier' = earlier /\ old \in Seq(Requests)
  BY ConnectEffect DEF Connect, BatcherTypeOK, Attempts
<1>3. /\ attempt'.ns = n /\ attempt'.jobs = old \o more /\ attempt'.stage = "precommit"
      /\ old \o more \in Seq(Requests)
  <2>1. old \o more \in Seq(Requests) /\ attempt \in Attempts
    BY <1>2 DEF BatcherTypeOK
  <2> QED BY <1>1, <2>1, AttemptUpdates
<1> DEFINE jobs == old \o more
<1>4. /\ DOMAIN queues[n] = 1 .. Len(more) + Len(rest)
      /\ Len(more) \in Nat /\ Len(rest) \in Nat
      /\ DOMAIN more = 1 .. Len(more) /\ DOMAIN rest = 1 .. Len(rest)
      /\ \A i \in 1 .. Len(more) : queues[n][i] = more[i]
      /\ \A i \in 1 .. Len(rest) : queues[n][Len(more) + i] = rest[i]
  BY <1>1, JoinIs
<1>5. /\ \A i \in DOMAIN more : i \in DOMAIN queues[n] /\ more[i] = queues[n][i]
      /\ \A i \in DOMAIN rest : Len(more) + i \in DOMAIN queues[n] /\ rest[i] = queues[n][Len(more) + i]
  BY <1>4
<1>6. \A i \in DOMAIN rest : rest[i] \notin ToSet(more)
  <2>1. PartOf(queues[n], Line(n))
    <3>1. Line(n) = old \o queues[n] /\ queues[n] \in Seq(Requests)
      BY <1>2, LineIs
    <3>2. << >> \in Seq(Requests) /\ << >> \o queues[n] = queues[n]
      BY <3>1
    <3>3. PartOf(<< >>, old) /\ PartOf(queues[n], queues[n])
      BY <1>2, <3>1, PartTrivial
    <3>4. PartOf(<< >> \o queues[n], old \o queues[n])
      BY <1>2, <3>1, <3>2, <3>3, PartsJoin
    <3> QED BY <3>1, <3>2, <3>4
  <2>2. Distinct(queues[n])
    BY <1>2, <2>1, PartOrdered DEF QueueInv
  <2> QED BY <1>1, <2>2, DistinctJoin DEF ToSet
<1>7. /\ \A i \in DOMAIN jobs : jobs[i] \in Jobs \/ jobs[i] \in ToSet(more)
      /\ \A r \in Jobs \cup ToSet(more) : \E i \in DOMAIN jobs : jobs[i] = r
  <2>1. /\ DOMAIN jobs = 1 .. Len(old) + Len(more)
        /\ Len(old) \in Nat /\ Len(more) \in Nat
        /\ DOMAIN old = 1 .. Len(old) /\ DOMAIN more = 1 .. Len(more)
        /\ \A i \in 1 .. Len(old) : jobs[i] = old[i]
        /\ \A i \in 1 .. Len(more) : jobs[Len(old) + i] = more[i]
    BY <1>2, JoinIs
  <2> HIDE DEF jobs
  <2>2. \A i \in DOMAIN jobs : i \in 1 .. Len(old) \/ (i - Len(old) \in 1 .. Len(more)
                                                       /\ Len(old) + (i - Len(old)) = i)
    BY <2>1
  <2>3. \A i \in DOMAIN jobs : jobs[i] \in Jobs \/ jobs[i] \in ToSet(more)
    BY <2>1, <2>2 DEF Jobs, ToSet
  <2>4. /\ \A i \in 1 .. Len(old) : i \in DOMAIN jobs
        /\ \A i \in 1 .. Len(more) : Len(old) + i \in DOMAIN jobs
    BY <2>1
  <2>5. \A r \in Jobs \cup ToSet(more) : \E i \in DOMAIN jobs : jobs[i] = r
    BY <2>1, <2>4 DEF Jobs, ToSet
  <2> QED BY <2>3, <2>5
<1>8. Jobs' = Jobs \cup ToSet(more)
  <2>1. Jobs' = {jobs[i] : i \in DOMAIN jobs}
    BY <1>3 DEF Jobs, ToSet
  <2> HIDE DEF jobs
  <2> QED BY <1>7, <2>1
<1>9. /\ \A r \in ToSet(more) : call'[r] = "active" /\ r \in Requests
                                /\ call[r] = "queued" /\ NamespaceOf[r] = n
      /\ \A r \in Requests \ ToSet(more) : call'[r] = call[r]
  <2>1. \A r \in ToSet(more) : r \in Requests /\ call[r] = "queued" /\ NamespaceOf[r] = n
    BY <1>2, <1>5, WaitsWanted DEF ToSet, QueueInv
  <2> QED BY <1>1, <2>1 DEF Activated
<1>10. ASSUME NEW m \in Namespaces
       PROVE  LineOf(attempt', queues', m) = LineOf(attempt, queues, m)
  <2>1. CASE m = n
    <3>1. queues'[m] = rest
      BY <1>1, <2>1 DEF BatcherTypeOK
    <3>2. (old \o more) \o rest = old \o (more \o rest)
      <4>1. \A a, b, c \in Seq(Requests) : (a \o b) \o c = a \o (b \o c)
        BY JoinAssociates
      <4> QED BY <1>2, <4>1
    <3> QED BY <1>1, <1>3, <2>1, <3>1, <3>2 DEF LineOf
  <2>2. CASE m # n
    BY <1>1, <1>3, <2>2 DEF LineOf, BatcherTypeOK
  <2> QED BY <2>1, <2>2
<1> HIDE DEF jobs
<1>11. (\A m \in Namespaces : Distinct(Line(m))') /\ OrderInv'
  <2>1. Outstanding' \subseteq Outstanding
    BY <1>9 DEF Outstanding
  <2>2. \A m \in Namespaces : PartOf(LineOf(attempt', queues', m), LineOf(attempt, queues, m))
    BY <1>10, LineIs, PartTrivial
  <2> QED BY <1>2, <2>1, <2>2, LinesShrink
<1>12. ASSUME NEW m \in Namespaces, NEW i \in DOMAIN queues'[m]
       PROVE  call'[queues'[m][i]] = "queued" /\ NamespaceOf[queues'[m][i]] = m
  <2>1. CASE m = n
    <3>1. queues'[m] = rest
      BY <1>1, <2>1 DEF BatcherTypeOK
    <3>2. rest[i] \in Requests \ ToSet(more) /\ call[rest[i]] = "queued" /\ NamespaceOf[rest[i]] = m
      BY <1>2, <1>5, <1>6, <1>12, <2>1, <3>1, WaitsWanted DEF QueueInv
    <3> QED BY <1>9, <3>1, <3>2
  <2>2. CASE m # n
    <3>1. queues'[m] = queues[m]
      BY <1>1, <2>2 DEF BatcherTypeOK
    <3>2. queues[m][i] \in Requests \ ToSet(more)
      BY <1>9, <1>12, <2>2, <3>1, WaitsWanted DEF QueueInv
    <3> QED BY <1>9, <1>12, <3>1, <3>2 DEF QueueInv
  <2> QED BY <2>1, <2>2
<1>13. \A r \in Jobs' : call'[r] # "queued" /\ NamespaceOf[r] = n
  BY <1>8, <1>9, WaitsWanted DEF QueueInv
<1>14. \A r \in Requests : call'[r] = "active" => r \in Jobs'
  BY <1>8, <1>9 DEF QueueInv
<1>15. n # "none"
  BY <1>2, BatcherAssumption
<1> QED BY <1>1, <1>3, <1>11, <1>12, <1>13, <1>14, <1>15 DEF QueueInv, Stage

\* A new caller stands at the end of its line, and before nobody.
LEMMA QueueGrows ==
  ASSUME BatcherTypeOK, BatcherTypeOK', QueueInv, OrderInv, NEW r \in Requests, Submit(r)
  PROVE  QueueInv' /\ OrderInv'
<1> DEFINE m == NamespaceOf[r]
<1>1. /\ call[r] \notin {"queued", "active"} /\ r \notin Jobs /\ attempt' = attempt
      /\ m \in Namespaces
  BY BatcherAssumption DEF Submit
<1>2. CASE ~(Cardinality(Outstanding) < MaxOutstanding)
  <2>1. /\ call' = [call EXCEPT ![r] = "failed"] /\ queues' = queues /\ earlier' = earlier
    BY <1>2 DEF Submit
  <2> QED BY <1>1, <2>1, QueueStays DEF BatcherTypeOK
<1>3. CASE Cardinality(Outstanding) < MaxOutstanding
  <2>1. /\ call' = [call EXCEPT ![r] = "queued"]
        /\ queues' = [queues EXCEPT ![m] = Append(queues[m], r)]
        /\ earlier' = [q \in Requests |->
             IF q = r THEN {p \in Outstanding : NamespaceOf[p] = m} ELSE earlier[q] \ {r}]
    BY <1>3 DEF Submit
  <2>2. /\ call'[r] = "queued" /\ \A q \in Requests \ {r} : call'[q] = call[q]
        /\ \A q \in Requests \ {r} : earlier'[q] = earlier[q] \ {r}
        /\ Outstanding' = Outstanding \cup {r}
    BY <2>1 DEF BatcherTypeOK, Outstanding
  <2>3. ASSUME NEW n \in Namespaces
        PROVE  \A i \in DOMAIN Line(n) : Line(n)[i] \in Requests \ {r}
    <3> SUFFICES ASSUME NEW i \in DOMAIN Line(n) PROVE Line(n)[i] \in Requests \ {r}
      OBVIOUS
    <3>1. Line(n) \in Seq(Requests)
      BY LineIs
    <3>2. CASE attempt.ns # n
      <4>1. Line(n) = queues[n]
        BY <3>2, LineIs
      <4> QED BY <1>1, <3>1, <4>1 DEF QueueInv
    <3>3. CASE attempt.ns = n
      <4>1. Line(n) = attempt.jobs \o queues[n] /\ attempt.jobs \in Seq(Requests) /\ queues[n] \in Seq(Requests)
        BY <3>3, LineIs
      <4>2. /\ DOMAIN Line(n) = 1 .. Len(attempt.jobs) + Len(queues[n])
            /\ Len(attempt.jobs) \in Nat /\ Len(queues[n]) \in Nat
            /\ DOMAIN attempt.jobs = 1 .. Len(attempt.jobs) /\ DOMAIN queues[n] = 1 .. Len(queues[n])
            /\ \A k \in 1 .. Len(attempt.jobs) : Line(n)[k] = attempt.jobs[k]
            /\ \A k \in 1 .. Len(queues[n]) : Line(n)[Len(attempt.jobs) + k] = queues[n][k]
        <5> DEFINE a == attempt.jobs
                   b == queues[n]
                   c == Line(n)
        <5>1. a \in Seq(Requests) /\ b \in Seq(Requests) /\ c = a \o b
          BY <4>1
        <5> HIDE DEF a, b, c
        <5>2. /\ DOMAIN c = 1 .. Len(a) + Len(b) /\ Len(a) \in Nat /\ Len(b) \in Nat
              /\ DOMAIN a = 1 .. Len(a) /\ DOMAIN b = 1 .. Len(b)
              /\ \A k \in 1 .. Len(a) : c[k] = a[k]
              /\ \A k \in 1 .. Len(b) : c[Len(a) + k] = b[k]
          BY <5>1, JoinIs
        <5> QED BY <5>2 DEF a, b, c
      <4>3. \/ i \in DOMAIN attempt.jobs
            \/ i - Len(attempt.jobs) \in DOMAIN queues[n] /\ Len(attempt.jobs) + (i - Len(attempt.jobs)) = i
        <5>1. \A x, y \in Nat : \A k \in 1 .. x + y :
                k \in 1 .. x \/ (k - x \in 1 .. y /\ x + (k - x) = k)
          OBVIOUS
        <5> QED BY <4>2, <5>1
      <4>4. \A k \in DOMAIN attempt.jobs : attempt.jobs[k] \in Requests \ {r}
        BY <1>1, WaitsWanted
      <4>5. \A k \in DOMAIN queues[n] : queues[n][k] \in Requests \ {r}
        BY <1>1, WaitsWanted DEF QueueInv
      <4> QED BY <4>2, <4>3, <4>4, <4>5
    <3> QED BY <3>2, <3>3
  <2>4. ASSUME NEW n \in Namespaces \ {m}
        PROVE  Line(n)' = Line(n)
    BY <1>1, <2>1 DEF Line, BatcherTypeOK
  <2>5. /\ Line(m)' = Append(Line(m), r) /\ Line(m) \in Seq(Requests)
    <3> DEFINE b == IF attempt.ns = m THEN attempt.jobs ELSE << >>
    <3>1. b \in Seq(Requests) /\ queues[m] \in Seq(Requests)
      <4>1. attempt.jobs \in Seq(Requests) /\ << >> \in Seq(Requests)
        BY DEF BatcherTypeOK, Attempts
      <4> QED BY <1>1, <4>1 DEF BatcherTypeOK
    <3>2. queues'[m] = Append(queues[m], r)
      BY <2>1 DEF BatcherTypeOK
    <3> HIDE DEF b
    <3>3. b \o Append(queues[m], r) = Append(b \o queues[m], r)
      BY <3>1
    <3> QED BY <1>1, <3>2, <3>3, LineIs DEF Line, b
  <2>6. ASSUME NEW n \in Namespaces
        PROVE  Distinct(Line(n)') /\ Ordered(Line(n)', Outstanding', earlier')
    <3>1. Distinct(Line(n)) /\ Ordered(Line(n), Outstanding, earlier)
      BY DEF QueueInv, OrderInv
    <3>2. CASE n # m
      <4>1. Line(n)' = Line(n)
        BY <2>4, <3>2
      <4> QED BY <2>2, <2>3, <3>1, <4>1 DEF Distinct, Ordered
    <3>3. CASE n = m
      <4> DEFINE s == Line(m)
                 t == Append(s, r)
      <4>1. /\ s \in Seq(Requests) /\ Len(s) \in Nat /\ DOMAIN s = 1 .. Len(s)
            /\ DOMAIN t = 1 .. Len(s) + 1 /\ t[Len(s) + 1] = r /\ \A i \in 1 .. Len(s) : t[i] = s[i]
        BY <2>5
      <4> HIDE DEF t
      <4>2. \A i \in DOMAIN s : s[i] \in Requests \ {r}
        BY <1>1, <2>3
      <4> HIDE DEF s
      <4>3. Distinct(s) /\ Ordered(s, Outstanding, earlier)
        BY <3>1, <3>3 DEF s
      <4>4. ASSUME NEW i \in DOMAIN t, NEW j \in DOMAIN t, i < j
            PROVE  /\ i \in DOMAIN s /\ t[i] = s[i]
                   /\ \/ j \in DOMAIN s /\ t[j] = s[j]
                      \/ t[j] = r
        BY <4>1, <4>4
      <4>5. Distinct(t)
        BY <4>2, <4>3, <4>4 DEF Distinct
      <4>6. Ordered(t, Outstanding', earlier')
        <5> SUFFICES ASSUME NEW i \in DOMAIN t, NEW j \in DOMAIN t, i < j,
                            t[i] \in Outstanding', t[j] \in Outstanding'
                     PROVE  t[j] \notin earlier'[t[i]]
          BY DEF Ordered
        <5>1. i \in DOMAIN s /\ t[i] = s[i] /\ earlier'[t[i]] = earlier[t[i]] \ {r} /\ t[i] \in Outstanding
          BY <2>2, <4>2, <4>4
        <5>2. CASE t[j] = r
          BY <5>1, <5>2
        <5>3. CASE j \in DOMAIN s /\ t[j] = s[j]
          <6>1. t[j] \in Outstanding
            BY <2>2, <4>2, <5>3
          <6> QED BY <4>3, <5>1, <5>3, <6>1 DEF Ordered
        <5> QED BY <4>4, <5>2, <5>3
      <4> QED BY <2>5, <3>3, <4>5, <4>6 DEF s, t
    <3> QED BY <3>2, <3>3
  <2>7. ASSUME NEW n \in Namespaces, NEW i \in DOMAIN queues'[n]
        PROVE  call'[queues'[n][i]] = "queued" /\ NamespaceOf[queues'[n][i]] = n
    <3>1. ASSUME NEW j \in DOMAIN queues[n]
          PROVE  call'[queues[n][j]] = "queued" /\ NamespaceOf[queues[n][j]] = n
      BY <1>1, <2>2, WaitsWanted DEF QueueInv
    <3>2. CASE n # m
      BY <2>1, <2>7, <3>1, <3>2 DEF BatcherTypeOK
    <3>3. CASE n = m
      <4>1. queues'[n] = Append(queues[n], r) /\ queues[n] \in Seq(Requests)
        BY <2>1, <3>3 DEF BatcherTypeOK
      <4>2. (i \in DOMAIN queues[n] /\ queues'[n][i] = queues[n][i]) \/ queues'[n][i] = r
        BY <2>7, <4>1
      <4> QED BY <2>2, <3>1, <3>3, <4>2
    <3> QED BY <3>2, <3>3
  <2>8. \A q \in Jobs : call'[q] # "queued" /\ NamespaceOf[q] = attempt.ns
    BY <1>1, <2>2, WaitsWanted DEF QueueInv
  <2>9. \A q \in Requests : call'[q] = "active" => q \in Jobs
    BY <2>2 DEF QueueInv
  <2> QED BY <1>1, <2>6, <2>7, <2>8, <2>9 DEF QueueInv, OrderInv, Stage, Jobs
<1> QED BY <1>2, <1>3

LEMMA QueueStep ==
  BatcherTypeOK /\ BatcherTypeOK' /\ QueueInv /\ OrderInv /\ [BatcherNext]_batcherVars
    => QueueInv' /\ OrderInv'
<1> SUFFICES ASSUME BatcherTypeOK, BatcherTypeOK', QueueInv, OrderInv, [BatcherNext]_batcherVars
             PROVE  QueueInv' /\ OrderInv'
  OBVIOUS
<1> DEFINE Answers == \A r \in Requests : call'[r] = call[r] \/ (call[r] # "queued" /\ call'[r] = "failed")
<1>1. ASSUME NEW r \in Requests, Submit(r) \/ Cancel(r)
      PROVE  QueueInv' /\ OrderInv'
  BY <1>1, QueueGrows, QueueCancels
<1>2. CASE Take \/ Connect
  BY <1>2, QueueTakes, QueueConnects
<1>3. CASE ConnectFails \/ Succeed \/ CommitFails
  <2>1. ~Stage("none") /\ earlier' = earlier /\ (Fails \/ Ends("done"))
    BY <1>3 DEF ConnectFails, Succeed, Committed, CommitFails, Stage
  <2> QED BY <2>1, QueueLoses
<1>4. CASE QueryFails \/ Unwind
  <2>1. ~Stage("none") /\ earlier' = earlier /\ (Fails \/ TriesAgain(TRUE) \/ TriesAgain(FALSE))
    BY <1>4 DEF QueryFails, Unwind, Stage
  <2> QED BY <2>1, QueueLoses
<1>5. CASE Lock
  <2>1. CASE lock[attempt.ns] = "free"
    <3>1. /\ attempt' = [attempt EXCEPT !.stage = "locked"] /\ Stage("precommit")
          /\ UNCHANGED callers /\ earlier' = earlier
      BY <1>5, <2>1 DEF Lock
    <3>2. attempt'.ns = attempt.ns /\ attempt'.jobs = attempt.jobs /\ attempt'.stage = "locked"
      BY <3>1, AttemptUpdates DEF BatcherTypeOK, Steps
    <3>3. Answers /\ queues' = queues
      BY <3>1 DEF callers
    <3> QED BY <3>1, <3>2, <3>3, QueueStays DEF Stage
  <2>2. CASE lock[attempt.ns] # "free"
    <3>1. ~Stage("none") /\ earlier' = earlier /\ TriesAgain(TRUE)
      BY <1>5, <2>2 DEF Lock, Stage
    <3> QED BY <3>1, QueueLoses
  <2> QED BY <2>1, <2>2
<1>6. CASE Run
  <2>1. PICK results \in SUBSET Wanted :
          IF results = {} THEN Fails /\ lock' = [lock EXCEPT ![attempt.ns] = "free"]
          ELSE /\ attempt' = [attempt EXCEPT !.stage = "ran", !.results = results]
               /\ call' = [r \in Requests |-> IF r \in Wanted \ results THEN "failed" ELSE call[r]]
               /\ UNCHANGED <<queues, ready, delayed, loop, cancels, lock>>
    BY <1>6 DEF Run
  <2>2. earlier' = earlier /\ Stage("locked")
    BY <1>6 DEF Run
  <2>3. CASE results = {}
    BY <2>1, <2>2, <2>3, QueueLoses DEF Stage
  <2>4. CASE results # {}
    <3>1. results \in SUBSET Requests
      BY WaitsWanted
    <3>2. attempt'.ns = attempt.ns /\ attempt'.jobs = attempt.jobs /\ attempt'.stage = "ran"
      <4>1. attempt' = [attempt EXCEPT !.stage = "ran", !.results = results]
        BY <2>1, <2>4
      <4> QED BY <3>1, <4>1, AttemptUpdates DEF BatcherTypeOK
    <3>3. Answers /\ queues' = queues
      BY <2>1, <2>4 DEF Wanted
    <3> QED BY <2>2, <3>2, <3>3, QueueStays DEF Stage
  <2> QED BY <2>3, <2>4
<1>7. CASE SendCommit
  <2>1. /\ attempt' = [attempt EXCEPT !.stage = "commit"] /\ Stage("ran")
        /\ UNCHANGED callers /\ earlier' = earlier
    BY <1>7 DEF SendCommit
  <2>2. attempt'.ns = attempt.ns /\ attempt'.jobs = attempt.jobs /\ attempt'.stage = "commit"
    BY <2>1, AttemptUpdates DEF BatcherTypeOK, Steps
  <2>3. Answers /\ queues' = queues
    BY <2>1 DEF callers
  <2> QED BY <2>1, <2>2, <2>3, QueueStays DEF Stage
<1>8. ASSUME NEW n \in Namespaces, 
             TimerFires(n) \/ Land(n) \/ Vanish(n) \/ Notice(n) \/ OtherTakes(n) \/ OtherLeaves(n)
      PROVE  QueueInv' /\ OrderInv'
  <2>1. UNCHANGED <<call, queues, attempt, earlier>>
    BY <1>8 DEF TimerFires, Land, Vanish, Notice, OtherTakes, OtherLeaves, callers
  <2> QED BY <2>1, QueueStays
<1>9. CASE UNCHANGED batcherVars
  <2>1. UNCHANGED <<call, queues, attempt, earlier>>
    BY <1>9 DEF batcherVars, callers
  <2> QED BY <2>1, QueueStays
<1> QED BY <1>1, <1>2, <1>3, <1>4, <1>5, <1>6, <1>7, <1>8, <1>9 DEF BatcherNext

LEMMA BatcherStart == BatcherInit => BatcherTypeOK /\ QueueInv /\ OrderInv
<1> SUFFICES ASSUME BatcherInit
             PROVE  BatcherTypeOK /\ QueueInv /\ OrderInv
  OBVIOUS
<1>1. << >> \in Seq(Requests) /\ << >> \in Seq(Namespaces) /\ NoAttempt \in Attempts
  BY DEF NoAttempt, Attempts, Steps
<1>2. BatcherTypeOK
  BY <1>1 DEF BatcherInit, BatcherTypeOK, Calls
<1>3. ASSUME NEW n \in Namespaces
      PROVE  Line(n) = << >>
  <2>1. attempt.ns # n /\ queues[n] = << >>
    BY BatcherAssumption DEF BatcherInit, NoAttempt
  <2> QED BY <1>2, <2>1, LineIs
<1>4. Distinct(<< >>) /\ Ordered(<< >>, Outstanding, earlier)
  BY DEF Distinct, Ordered
<1>5. Jobs = {} /\ Stage("none") /\ Len(attempt.jobs) <= MaxBatch
  BY BatcherAssumption DEF BatcherInit, Jobs, ToSet, NoAttempt, Stage
<1>6. \A n \in Namespaces : DOMAIN queues[n] = {}
  BY DEF BatcherInit
<1>7. QueueInv
  BY <1>3, <1>4, <1>5, <1>6 DEF QueueInv, BatcherInit
<1> QED BY <1>2, <1>3, <1>4, <1>7 DEF OrderInv

\* What the queues and the batch hold at every moment: a caller waits at one place of
\* one list, and a batch is never larger than MAX_BATCH.
THEOREM QueuesStayWhole == BatcherSpec => [](BatcherTypeOK /\ QueueInv /\ OrderInv)
<1>1. BatcherInit => BatcherTypeOK /\ QueueInv /\ OrderInv
  BY BatcherStart
<1>2. BatcherTypeOK /\ QueueInv /\ OrderInv /\ [BatcherNext]_batcherVars
        => (BatcherTypeOK /\ QueueInv /\ OrderInv)'
  BY BatcherTypeStep, QueueStep
<1> QED BY <1>1, <1>2, PTL DEF BatcherSpec

\* The changes of a namespace are run in the order in which their callers came, for
\* any number of callers, broken batches and retries (requeue(), absorb(), next()).
THEOREM ChangesServedInOrder == BatcherSpec => []ServedInOrder
<1>1. BatcherTypeOK /\ QueueInv /\ OrderInv => ServedInOrder
  BY OrderIs
<1> QED BY <1>1, QueuesStayWhole, PTL

-----------------------------------------------------------------------------
(* The contract of the store.                                              *)

\* What a COMMIT on its way stands for: it was sent under the lock of its namespace, for
\* changes without effect so far, whose callers have given up or wait for this answer.
CommitInv ==
  /\ \A r \in Requests :
       /\ applied[r] \in {0, 1}
       /\ call[r] = "done" => applied[r] = 1
       /\ call[r] = "queued" => applied[r] = 0
       /\ call[r] = "active" /\ applied[r] = 1 => Stage("commit")
  /\ \A n \in Namespaces : \A r \in staged[n] :
       /\ NamespaceOf[r] = n /\ applied[r] = 0
       /\ call[r] = "failed" \/ (call[r] = "active" /\ Stage("commit"))
  /\ \A n \in Namespaces : staged[n] # {} => lock[n] = "committing"
  /\ attempt.stage \in {"locked", "ran"} => lock[attempt.ns] = "held"
  /\ attempt.stage \in {"ran", "commit"} => Wanted \subseteq attempt.results
  /\ Stage("ran") /\ ~attempt.broken => attempt.results \subseteq Wanted

Sent(r) == r \in staged[NamespaceOf[r]]

\* What one step does to one change.
ChangeStep(r) ==
  \/ call'[r] = call[r] /\ applied'[r] = applied[r] /\ (Sent(r)' <=> Sent(r))
  \/ /\ call[r] \notin {"queued", "active"} /\ ~Sent(r)
     /\ call'[r] \in {"queued", "failed"} /\ applied'[r] = 0 /\ ~Sent(r)'
  \/ /\ call[r] \in {"queued", "active"} /\ call'[r] \in {"queued", "active"}
     /\ applied'[r] = applied[r]
  \/ /\ call[r] \in {"queued", "active"} /\ call'[r] = "failed"
     /\ applied'[r] = applied[r] /\ (Sent(r)' <=> Sent(r))
  \/ /\ call[r] = "active" /\ call'[r] = "done" /\ applied[r] = 1 /\ applied'[r] = 1
  \/ /\ call[r] \in {"active", "failed"} /\ call'[r] = call[r] /\ Sent(r) /\ ~Sent(r)'
     /\ applied[r] = 0 /\ applied'[r] \in {0, 1}

LEMMA StatusIs ==
  ASSUME BatcherTypeOK, CommitInv, NEW r \in Requests
  PROVE  /\ call[r] = "idle" => Status(r) = "none"
         /\ call[r] \in {"queued", "active"} =>
              (applied[r] = 0 => Status(r) = "asked") /\ (applied[r] = 1 => Status(r) = "applied")
         /\ call[r] = "done" => Status(r) = "done" /\ applied[r] = 1
         /\ call[r] = "failed" =>
              /\ Sent(r) => Status(r) = "orphan"
              /\ ~Sent(r) /\ applied[r] = 1 => Status(r) = "late"
              /\ ~Sent(r) /\ applied[r] = 0 => Status(r) = "failed"
         /\ applied[r] \in {0, 1} /\ call[r] \in Calls
         /\ Status(r) \in {"none", "asked", "applied", "done", "orphan", "late", "failed"}
<1>1. applied[r] \in {0, 1} /\ call[r] \in Calls /\ (call[r] = "done" => applied[r] = 1)
  BY DEF BatcherTypeOK, CommitInv
<1> QED BY <1>1 DEF Status, Without, With, Sent, Calls

LEMMA ChangeMoves ==
  ASSUME BatcherTypeOK, BatcherTypeOK', CommitInv, CommitInv', NEW r \in Requests, ChangeStep(r)
  PROVE  /\ Store!Moves(Status(r), Status(r)')
         /\ Status(r)' \in Store!Ended \cup Store!Open
<1>1. /\ call'[r] = "idle" => Status(r)' = "none"
      /\ call'[r] \in {"queued", "active"} =>
           (applied'[r] = 0 => Status(r)' = "asked") /\ (applied'[r] = 1 => Status(r)' = "applied")
      /\ call'[r] = "done" => Status(r)' = "done" /\ applied'[r] = 1
      /\ call'[r] = "failed" =>
           /\ Sent(r)' => Status(r)' = "orphan"
           /\ ~Sent(r)' /\ applied'[r] = 1 => Status(r)' = "late"
           /\ ~Sent(r)' /\ applied'[r] = 0 => Status(r)' = "failed"
      /\ applied'[r] \in {0, 1} /\ call'[r] \in Calls
      /\ Status(r)' \in {"none", "asked", "applied", "done", "orphan", "late", "failed"}
  <2>1. applied'[r] \in {0, 1} /\ call'[r] \in Calls /\ (call'[r] = "done" => applied'[r] = 1)
    BY DEF BatcherTypeOK, CommitInv
  <2> QED BY <2>1 DEF Status, Without, With, Sent, Calls
<1>2. Status(r)' \in Store!Ended \cup Store!Open
  BY <1>1 DEF Store!Ended, Store!Open
<1>3. Store!Moves(Status(r), Status(r)')
  <2>1. CASE call'[r] = call[r] /\ applied'[r] = applied[r] /\ (Sent(r)' <=> Sent(r))
    BY <1>1, <2>1, StatusIs DEF Store!Moves, Calls
  <2>2. CASE /\ call[r] \notin {"queued", "active"} /\ ~Sent(r)
             /\ call'[r] \in {"queued", "failed"} /\ applied'[r] = 0 /\ ~Sent(r)'
    BY <1>1, <2>2, StatusIs DEF Store!Moves, Store!Ended, Calls
  <2>3. CASE /\ call[r] \in {"queued", "active"} /\ call'[r] \in {"queued", "active"}
             /\ applied'[r] = applied[r]
    BY <1>1, <2>3, StatusIs DEF Store!Moves
  <2>4. CASE /\ call[r] \in {"queued", "active"} /\ call'[r] = "failed"
             /\ applied'[r] = applied[r] /\ (Sent(r)' <=> Sent(r))
    <3>1. Sent(r) => applied[r] = 0
      BY BatcherAssumption DEF CommitInv, Sent
    <3> QED BY <1>1, <2>4, <3>1, StatusIs DEF Store!Moves
  <2>5. CASE call[r] = "active" /\ call'[r] = "done" /\ applied[r] = 1 /\ applied'[r] = 1
    BY <1>1, <2>5, StatusIs DEF Store!Moves
  <2>6. CASE /\ call[r] \in {"active", "failed"} /\ call'[r] = call[r] /\ Sent(r) /\ ~Sent(r)'
             /\ applied[r] = 0 /\ applied'[r] \in {0, 1}
    BY <1>1, <2>6, StatusIs DEF Store!Moves
  <2> QED BY <2>1, <2>2, <2>3, <2>4, <2>5, <2>6 DEF ChangeStep
<1> QED BY <1>2, <1>3

\* The batch is gone.
LEMMA CommitGone ==
  ASSUME BatcherTypeOK, BatcherTypeOK', QueueInv, CommitInv, attempt' = NoAttempt,
         staged' = staged, applied' = applied,
         \A n \in Namespaces : staged[n] # {} => lock'[n] = lock[n],
         \A r \in Requests :
           \/ call[r] # "active" /\ call'[r] = call[r]
           \/ /\ call[r] = "active"
              /\ \/ call'[r] = "failed"
                 \/ call'[r] = "done" /\ applied[r] = 1
                 \/ call'[r] = "queued" /\ ~Stage("commit")
  PROVE  CommitInv' /\ \A r \in Requests : ChangeStep(r)
<1>1. attempt'.stage = "none" /\ \A r \in Requests : call'[r] # "active"
  BY DEF NoAttempt
<1>2. \A r \in Requests : Sent(r)' <=> Sent(r)
  BY DEF Sent
<1>3. ASSUME NEW r \in Requests
      PROVE  /\ applied[r] \in {0, 1} /\ (call[r] = "done" => applied[r] = 1)
             /\ call[r] = "queued" => applied[r] = 0
             /\ call[r] = "active" /\ applied[r] = 1 => Stage("commit")
  BY DEF CommitInv
<1>4. ASSUME NEW n \in Namespaces, NEW r \in staged[n]
      PROVE  r \in Requests /\ NamespaceOf[r] = n /\ applied[r] = 0 /\ call'[r] = "failed"
  <2>1. r \in Requests
    BY DEF BatcherTypeOK
  <2>2. NamespaceOf[r] = n /\ applied[r] = 0 /\ (call[r] = "failed" \/ (call[r] = "active" /\ Stage("commit")))
    BY DEF CommitInv
  <2> QED BY <2>1, <2>2
<1>5. \A n \in Namespaces : staged'[n] # {} => lock'[n] = "committing"
  BY DEF CommitInv
<1>6. \A r \in Requests : ChangeStep(r)
  BY <1>2, <1>3 DEF ChangeStep
<1>7. \A r \in Requests :
        /\ applied'[r] \in {0, 1} /\ (call'[r] = "done" => applied'[r] = 1)
        /\ call'[r] = "queued" => applied'[r] = 0
        /\ call'[r] # "active"
  BY <1>1, <1>3
<1>8. \A n \in Namespaces : \A r \in staged'[n] :
        NamespaceOf[r] = n /\ applied'[r] = 0 /\ call'[r] = "failed"
  BY <1>4
<1> QED BY <1>1, <1>5, <1>6, <1>7, <1>8 DEF CommitInv, Stage

\* The front of a queue is of callers that wait.
LEMMA FrontWaits ==
  ASSUME BatcherTypeOK, QueueInv, NEW n \in Namespaces,
         NEW jobs \in Seq(Requests), NEW rest \in Seq(Requests), queues[n] = jobs \o rest
  PROVE  \A r \in ToSet(jobs) : r \in Requests /\ call[r] = "queued"
<1>1. \A i \in DOMAIN jobs : i \in DOMAIN queues[n] /\ jobs[i] = queues[n][i]
  BY JoinIs
<1> SUFFICES ASSUME NEW i \in DOMAIN jobs PROVE jobs[i] \in Requests /\ call[jobs[i]] = "queued"
  BY DEF ToSet
<1>2. i \in DOMAIN queues[n] /\ jobs[i] = queues[n][i]
  BY <1>1
<1> QED BY <1>2, WaitsWanted DEF QueueInv

\* Callers join a batch that is not committed yet.
LEMMA CommitJoined ==
  ASSUME BatcherTypeOK, BatcherTypeOK', QueueInv, CommitInv, UNCHANGED database,
         ~Stage("commit"), attempt'.stage \in {"acquiring", "precommit"},
         \A r \in Requests : call'[r] = call[r] \/ (call[r] = "queued" /\ call'[r] = "active")
  PROVE  CommitInv' /\ \A r \in Requests : ChangeStep(r)
<1>1. \A r \in Requests : (Sent(r)' <=> Sent(r)) /\ applied'[r] = applied[r]
  BY DEF Sent, database
<1>2. ASSUME NEW r \in Requests
      PROVE  /\ applied[r] \in {0, 1} /\ (call[r] = "done" => applied[r] = 1)
             /\ call[r] \in {"queued", "active"} => applied[r] = 0
  BY DEF CommitInv
<1>3. ASSUME NEW n \in Namespaces, NEW r \in staged[n]
      PROVE  r \in Requests /\ NamespaceOf[r] = n /\ applied[r] = 0 /\ call'[r] = "failed"
  <2>1. r \in Requests
    BY DEF BatcherTypeOK
  <2>2. NamespaceOf[r] = n /\ applied[r] = 0 /\ call[r] = "failed"
    BY DEF CommitInv
  <2> QED BY <2>1, <2>2
<1>4. \A r \in Requests : ChangeStep(r)
  BY <1>1, <1>2 DEF ChangeStep
<1>5. \A n \in Namespaces : staged'[n] # {} => lock'[n] = "committing"
  BY DEF CommitInv, database
<1>6. \A n \in Namespaces : \A r \in staged'[n] :
        NamespaceOf[r] = n /\ applied'[r] = 0 /\ call'[r] = "failed"
  BY <1>3 DEF database
<1>7. \A r \in Requests :
        /\ applied'[r] \in {0, 1} /\ (call'[r] = "done" => applied'[r] = 1)
        /\ call'[r] \in {"queued", "active"} => applied'[r] = 0
  BY <1>1, <1>2
<1> QED BY <1>4, <1>5, <1>6, <1>7 DEF CommitInv, Stage

\* A caller comes, or goes.
LEMMA CommitCallers ==
  ASSUME BatcherTypeOK, BatcherTypeOK', QueueInv, CommitInv, NEW r \in Requests, Submit(r) \/ Cancel(r)
  PROVE  CommitInv' /\ \A q \in Requests : ChangeStep(q)
<1>1. UNCHANGED <<lock, staged>> /\ \A q \in Requests : (Sent(q)' <=> Sent(q))
  BY DEF Submit, Cancel, database, Sent
<1>2. \A q \in Requests \ {r} : call'[q] = call[q] /\ applied'[q] = applied[q]
  BY DEF Submit, Cancel, database, BatcherTypeOK
<1>3. \/ /\ call[r] \notin {"queued", "active"} /\ ~Sent(r) /\ attempt' = attempt
         /\ call'[r] \in {"queued", "failed"} /\ applied'[r] = 0
      \/ /\ call[r] \in {"queued", "active"} /\ call'[r] = "failed" /\ applied'[r] = applied[r]
         /\ attempt' = attempt \/ (attempt' = [attempt EXCEPT !.broken = TRUE])
         /\ call[r] = "active" /\ Stage("ran") => attempt' = [attempt EXCEPT !.broken = TRUE]
         /\ call[r] = "queued" => attempt' = attempt
  BY DEF Submit, Cancel, Breaks, Outstanding, Sent, Stage, database, BatcherTypeOK
<1>4. /\ attempt'.stage = attempt.stage /\ attempt'.ns = attempt.ns /\ attempt'.jobs = attempt.jobs
      /\ attempt'.results = attempt.results
      /\ attempt'.broken = attempt.broken \/ attempt'.broken = TRUE
      /\ call[r] = "active" /\ Stage("ran") /\ call'[r] = "failed" => attempt'.broken = TRUE
      /\ attempt.broken \in BOOLEAN
  BY <1>3, AttemptUpdates DEF BatcherTypeOK, Attempts
<1>5. \A q \in Requests : ChangeStep(q)
  BY <1>1, <1>2, <1>3 DEF ChangeStep
<1>6. Wanted' = {q \in Requests : call'[q] = "active"} /\ Wanted' = Wanted \ {r}
  <2>1. Jobs' = Jobs /\ Jobs \subseteq Requests
    BY <1>4, WaitsWanted DEF Jobs
  <2>2. \A q \in Jobs : call'[q] = "active" <=> (q # r /\ call[q] = "active")
    BY <1>2, <1>3, <2>1
  <2>3. \A q \in Requests : call'[q] = "active" => call[q] = "active"
    BY <1>2, <1>3
  <2> QED BY <2>1, <2>2, <2>3, WaitsWanted DEF Wanted
<1>7. \A q \in Requests :
        /\ applied'[q] \in {0, 1}
        /\ call'[q] = "done" => applied'[q] = 1
        /\ call'[q] = "queued" => applied'[q] = 0
        /\ call'[q] = "active" /\ applied'[q] = 1 => Stage("commit")
  BY <1>2, <1>3 DEF CommitInv
<1>8. ASSUME NEW n \in Namespaces, NEW q \in staged[n]
      PROVE  /\ NamespaceOf[q] = n /\ applied'[q] = 0
             /\ call'[q] = "failed" \/ (call'[q] = "active" /\ Stage("commit"))
  <2>1. q \in Requests /\ NamespaceOf[q] = n /\ applied[q] = 0 /\ Sent(q)
        /\ (call[q] = "failed" \/ (call[q] = "active" /\ Stage("commit")))
    BY DEF CommitInv, BatcherTypeOK, Sent
  <2> QED BY <1>2, <1>3, <2>1
<1>9. Stage("ran") /\ attempt'.broken # TRUE => attempt.results \subseteq Wanted'
  <2> SUFFICES ASSUME Stage("ran"), attempt'.broken # TRUE PROVE attempt.results \subseteq Wanted'
    OBVIOUS
  <2>1. attempt.broken = FALSE /\ ~(call[r] = "active" /\ call'[r] = "failed")
    BY <1>4
  <2>2. attempt.results \subseteq Wanted
    BY <2>1 DEF CommitInv
  <2>3. r \notin Wanted
    BY <1>3, <2>1 DEF Wanted
  <2> QED BY <1>6, <2>2, <2>3
<1>10. /\ attempt'.stage \in {"locked", "ran"} => lock'[attempt'.ns] = "held"
       /\ attempt.stage \in {"ran", "commit"} => Wanted' \subseteq attempt.results
       /\ \A n \in Namespaces : staged[n] # {} => lock[n] = "committing"
  BY <1>1, <1>4, <1>6 DEF CommitInv
<1>11. Stage("ran")' /\ ~attempt'.broken => attempt'.results \subseteq Wanted'
  <2>1. ~attempt'.broken => attempt'.broken # TRUE
    OBVIOUS
  <2> QED BY <1>4, <1>9, <2>1 DEF Stage
<1>12. attempt'.stage \in {"ran", "commit"} => Wanted' \subseteq attempt'.results
  BY <1>4, <1>10
<1>13. \A n \in Namespaces : staged'[n] # {} => lock'[n] = "committing"
  BY <1>1, <1>10
<1>14. \A n \in Namespaces : \A q \in staged'[n] :
         /\ NamespaceOf[q] = n /\ applied'[q] = 0
         /\ call'[q] = "failed" \/ (call'[q] = "active" /\ Stage("commit")')
  BY <1>1, <1>4, <1>8 DEF Stage
<1>15. \A q \in Requests :
         /\ applied'[q] \in {0, 1}
         /\ call'[q] = "done" => applied'[q] = 1
         /\ call'[q] = "queued" => applied'[q] = 0
         /\ call'[q] = "active" /\ applied'[q] = 1 => Stage("commit")'
  BY <1>4, <1>7 DEF Stage
<1> QED BY <1>5, <1>10, <1>11, <1>12, <1>13, <1>14, <1>15 DEF CommitInv

LEMMA CommitTaken ==
  ASSUME BatcherTypeOK, BatcherTypeOK', QueueInv, CommitInv, Take \/ Connect
  PROVE  CommitInv' /\ \A r \in Requests : ChangeStep(r)
<1>1. CASE Take /\ ready = << >>
  <2>1. UNCHANGED <<call, attempt, database>>
    BY <1>1 DEF Take
  <2>2. CommitInv'
    BY <2>1 DEF CommitInv, database, Stage, Wanted, Jobs
  <2>3. \A r \in Requests : ChangeStep(r)
    BY <2>1 DEF ChangeStep, Sent, database
  <2> QED BY <2>2, <2>3
<1>2. CASE Take /\ ready # << >>
  <2>1. PICK n \in Namespaces, jobs \in Seq(Requests), rest \in Seq(Requests) :
          /\ queues[n] = jobs \o rest
          /\ attempt' = [stage |-> "acquiring", ns |-> n, jobs |-> jobs, results |-> {}, broken |-> FALSE]
          /\ call' = Activated(n, jobs)
    BY <1>2, TakeEffect
  <2>2. \A r \in Requests : call'[r] = call[r] \/ (call[r] = "queued" /\ call'[r] = "active")
    BY <2>1, FrontWaits DEF Activated
  <2>3. UNCHANGED database /\ ~Stage("commit")
    BY <1>2 DEF Take, Stage
  <2> QED BY <2>1, <2>2, <2>3, CommitJoined
<1>3. CASE Connect
  <2>1. PICK more \in Seq(Requests), rest \in Seq(Requests) :
          /\ queues[attempt.ns] = more \o rest
          /\ attempt' = [attempt EXCEPT !.stage = "precommit", !.jobs = attempt.jobs \o more]
          /\ call' = Activated(attempt.ns, more)
    BY <1>3, ConnectEffect
  <2>2. \A r \in Requests : call'[r] = call[r] \/ (call[r] = "queued" /\ call'[r] = "active")
    BY <1>3, <2>1, ConnectEffect, FrontWaits DEF Activated
  <2>3. UNCHANGED database /\ ~Stage("commit")
    BY <1>3 DEF Connect, Stage
  <2>4. attempt'.stage = "precommit"
    BY <2>1 DEF BatcherTypeOK, Attempts
  <2> QED BY <2>2, <2>3, <2>4, CommitJoined
<1> QED BY <1>1, <1>2, <1>3

\* The ends of a batch.
LEMMA CommitEnds ==
  ASSUME BatcherTypeOK, BatcherTypeOK', QueueInv, CommitInv, 
         \/ ConnectFails \/ Succeed \/ CommitFails \/ QueryFails \/ Unwind
         \/ Stage("precommit") /\ TriesAgain(TRUE) /\ UNCHANGED <<lock, staged, applied>>
         \/ /\ Stage("locked") /\ Fails /\ lock' = [lock EXCEPT ![attempt.ns] = "free"]
            /\ UNCHANGED <<staged, applied>>
  PROVE  CommitInv' /\ \A r \in Requests : ChangeStep(r)
<1>1. staged' = staged /\ applied' = applied
  BY DEF ConnectFails, Succeed, CommitFails, QueryFails, Unwind, database
<1>2. /\ attempt' = NoAttempt
      /\ \/ Fails \/ (Ends("done") /\ Committed)
         \/ (TriesAgain(TRUE) \/ TriesAgain(FALSE)) /\ ~Stage("commit")
  BY DEF ConnectFails, Succeed, CommitFails, QueryFails, Unwind, Fails, Ends, TriesAgain, Stage
<1>3. ASSUME NEW n \in Namespaces, staged[n] # {}
      PROVE  lock'[n] = lock[n]
  <2>1. lock[n] = "committing"
    BY <1>3 DEF CommitInv
  <2>2. \/ lock' = lock
        \/ \E left \in {"free", "severed"} : RolledBack(left)
        \/ lock[attempt.ns] = "held" /\ lock' = [lock EXCEPT ![attempt.ns] = "free"]
    BY DEF ConnectFails, Succeed, CommitFails, QueryFails, Unwind, database, CommitInv, Stage
  <2> QED BY <2>1, <2>2 DEF RolledBack, BatcherTypeOK
<1>4. Wanted = {r \in Requests : call[r] = "active"}
  BY WaitsWanted
<1>5. ASSUME NEW r \in Requests
      PROVE  \/ call[r] # "active" /\ call'[r] = call[r]
             \/ /\ call[r] = "active"
                /\ \/ call'[r] = "failed"
                   \/ call'[r] = "done" /\ applied[r] = 1
                   \/ call'[r] = "queued" /\ ~Stage("commit")
  <2>1. CASE Fails
    BY <1>4, <2>1 DEF Fails, Ends
  <2>2. CASE Ends("done") /\ Committed
    <3>1. r \in Wanted => applied[r] = 1
      BY <2>2 DEF Committed, CommitInv, Stage
    <3> QED BY <1>4, <2>2, <3>1 DEF Ends
  <2>3. CASE (TriesAgain(TRUE) \/ TriesAgain(FALSE)) /\ ~Stage("commit")
    BY <1>4, <2>3 DEF TriesAgain, SentBack
  <2> QED BY <1>2, <2>1, <2>2, <2>3
<1> QED BY <1>1, <1>2, <1>3, <1>5, CommitGone

\* The transaction of a batch goes on.
LEMMA CommitGoesOn ==
  ASSUME BatcherTypeOK, BatcherTypeOK', QueueInv, CommitInv, Lock \/ Run \/ SendCommit
  PROVE  CommitInv' /\ \A r \in Requests : ChangeStep(r)
<1> DEFINE n == attempt.ns
<1>1. n \in Namespaces
  BY DEF Lock, Run, SendCommit, QueueInv, BatcherTypeOK, Attempts, Stage
<1>2. \A r \in Requests :
        /\ applied[r] \in {0, 1} /\ (call[r] = "done" => applied[r] = 1)
        /\ call[r] = "queued" => applied[r] = 0
        /\ call[r] = "active" => applied[r] = 0
  BY DEF CommitInv, Lock, Run, SendCommit, Stage
<1>3. \A m \in Namespaces : \A r \in staged[m] :
        r \in Requests /\ NamespaceOf[r] = m /\ applied[r] = 0 /\ call[r] = "failed"
  <2>1. ~Stage("commit")
    BY DEF Lock, Run, SendCommit, Stage
  <2>2. \A m \in Namespaces : staged[m] \subseteq Requests
    BY DEF BatcherTypeOK
  <2> QED BY <2>1, <2>2 DEF CommitInv
<1>4. \A m \in Namespaces : staged[m] # {} => lock[m] = "committing"
  BY DEF CommitInv
<1>5. CASE Lock
  <2>1. CASE lock[n] = "free"
    <3>1. /\ lock' = [lock EXCEPT ![n] = "held"] /\ UNCHANGED <<call, staged, applied>>
          /\ attempt' = [attempt EXCEPT !.stage = "locked"]
      BY <1>5, <2>1 DEF Lock, callers
    <3>2. /\ attempt'.stage = "locked" /\ attempt'.ns = n /\ lock'[n] = "held"
          /\ \A m \in Namespaces : staged[m] # {} => lock'[m] = "committing"
      <4>1. attempt'.stage = "locked" /\ attempt'.ns = n
        BY <3>1, AttemptUpdates DEF BatcherTypeOK, Steps
      <4>2. lock'[n] = "held" /\ \A m \in Namespaces \ {n} : lock'[m] = lock[m]
        BY <1>1, <3>1 DEF BatcherTypeOK
      <4>3. staged[n] = {}
        BY <1>1, <1>4, <2>1
      <4> QED BY <1>4, <4>1, <4>2, <4>3
    <3>3. \A r \in Requests : ChangeStep(r)
      BY <3>1 DEF ChangeStep, Sent
    <3> QED BY <1>2, <1>3, <3>1, <3>2, <3>3 DEF CommitInv, Stage
  <2>2. CASE lock[n] # "free"
    BY <1>5, <2>2, CommitEnds DEF Lock
  <2> QED BY <2>1, <2>2
<1>6. CASE Run
  <2>1. PICK results \in SUBSET Wanted :
          IF results = {} THEN Fails /\ lock' = [lock EXCEPT ![attempt.ns] = "free"]
          ELSE /\ attempt' = [attempt EXCEPT !.stage = "ran", !.results = results]
               /\ call' = [r \in Requests |-> IF r \in Wanted \ results THEN "failed" ELSE call[r]]
               /\ UNCHANGED <<queues, ready, delayed, loop, cancels, lock>>
    BY <1>6 DEF Run
  <2>2. UNCHANGED <<staged, applied>> /\ Stage("locked")
    BY <1>6 DEF Run
  <2>3. CASE results = {}
    BY <2>1, <2>2, <2>3, CommitEnds
  <2>4. CASE results # {}
    <3>1. results \in SUBSET Requests /\ Wanted = {r \in Requests : call[r] = "active"}
      BY WaitsWanted
    <3>2. attempt'.ns = n /\ attempt'.jobs = attempt.jobs /\ attempt'.stage = "ran" /\ attempt'.results = results
      <4>1. attempt' = [attempt EXCEPT !.stage = "ran", !.results = results]
        BY <2>1, <2>4
      <4> QED BY <3>1, <4>1, AttemptUpdates DEF BatcherTypeOK
    <3>3. \A r \in Requests : \/ call'[r] = call[r] /\ (r \in results \/ call[r] # "active")
                              \/ call[r] = "active" /\ call'[r] = "failed" /\ r \notin results
      BY <2>1, <2>4, <3>1
    <3>4. \A r \in Requests : ChangeStep(r)
      BY <2>2, <3>3 DEF ChangeStep, Sent
    <3>5. Wanted' = results
      <4>1. Jobs' = Jobs /\ Jobs \subseteq Requests
        BY <3>2, WaitsWanted DEF Jobs
      <4>2. \A r \in results : r \in Jobs /\ call[r] = "active"
        BY DEF Wanted
      <4> QED BY <3>1, <3>3, <4>1, <4>2 DEF Wanted
    <3>6. lock'[n] = "held" /\ \A m \in Namespaces : staged'[m] # {} => lock'[m] = "committing"
      BY <1>4, <2>1, <2>2, <2>4 DEF CommitInv, Stage
    <3>7. \A r \in Requests :
            /\ applied'[r] \in {0, 1} /\ (call'[r] = "done" => applied'[r] = 1)
            /\ call'[r] = "queued" => applied'[r] = 0
            /\ call'[r] = "active" => applied'[r] = 0
      BY <1>2, <2>2, <3>3
    <3>8. \A m \in Namespaces : \A r \in staged'[m] :
            NamespaceOf[r] = m /\ applied'[r] = 0 /\ call'[r] = "failed"
      BY <1>3, <2>2, <3>3
    <3> QED BY <3>2, <3>4, <3>5, <3>6, <3>7, <3>8 DEF CommitInv, Stage
  <2> QED BY <2>3, <2>4
<1>7. CASE SendCommit
  <2>1. /\ attempt' = [attempt EXCEPT !.stage = "commit"] /\ Stage("ran")
        /\ lock' = [lock EXCEPT ![n] = "committing"]
        /\ staged' = [staged EXCEPT ![n] = attempt.results]
        /\ UNCHANGED <<call, applied>> /\ attempt.results \subseteq Wanted /\ Wanted \subseteq attempt.results
        /\ lock[n] = "held"
    BY <1>7 DEF SendCommit, callers, CommitInv, Stage
  <2>2. /\ attempt'.ns = n /\ attempt'.jobs = attempt.jobs /\ attempt'.stage = "commit"
        /\ attempt'.results = attempt.results
    BY <2>1, AttemptUpdates DEF BatcherTypeOK, Steps
  <2>3. /\ staged[n] = {} /\ staged'[n] = Wanted /\ lock'[n] = "committing"
        /\ \A m \in Namespaces \ {n} : staged'[m] = staged[m] /\ lock'[m] = lock[m]
    <3>1. lock[n] # "committing" /\ attempt.results = Wanted
      BY <2>1
    <3> QED BY <1>1, <1>4, <2>1, <3>1 DEF BatcherTypeOK
  <2>4. \A r \in Wanted : r \in Requests /\ NamespaceOf[r] = n /\ call[r] = "active" /\ applied[r] = 0
    BY <1>2, WaitsWanted DEF Wanted, QueueInv
  <2>5. \A r \in Requests : call[r] = "active" \/ (Sent(r)' <=> Sent(r))
    <3>1. \A r \in Requests : NamespaceOf[r] \in Namespaces
      BY BatcherAssumption
    <3> QED BY <2>3, <3>1, WaitsWanted DEF Sent
  <2>6. \A r \in Requests : ChangeStep(r)
    BY <2>1, <2>5 DEF ChangeStep
  <2>7. Wanted' = Wanted
    BY <2>1, <2>2 DEF Wanted, Jobs
  <2>8. \A m \in Namespaces : \A r \in staged'[m] :
          /\ NamespaceOf[r] = m /\ applied[r] = 0 /\ call[r] \in {"active", "failed"}
    BY <1>3, <2>3, <2>4
  <2>9. \A m \in Namespaces : staged'[m] # {} => lock'[m] = "committing"
    BY <1>4, <2>3
  <2> QED BY <1>2, <2>1, <2>2, <2>6, <2>7, <2>8, <2>9 DEF CommitInv, Stage
<1> QED BY <1>5, <1>6, <1>7

\* The database and other processes.
LEMMA CommitLands ==
  ASSUME BatcherTypeOK, BatcherTypeOK', QueueInv, CommitInv, NEW n \in Namespaces,
         TimerFires(n) \/ Land(n) \/ Vanish(n) \/ Notice(n) \/ OtherTakes(n) \/ OtherLeaves(n)
  PROVE  CommitInv' /\ \A r \in Requests : ChangeStep(r)
<1>1. call' = call /\ attempt' = attempt /\ Wanted' = Wanted
  BY DEF TimerFires, Land, Vanish, Notice, OtherTakes, OtherLeaves, callers, Wanted, Jobs
<1>2. CASE TimerFires(n) \/ Notice(n) \/ OtherTakes(n) \/ OtherLeaves(n)
  <2>1. staged' = staged /\ applied' = applied
    BY <1>2 DEF TimerFires, Notice, OtherTakes, OtherLeaves, database
  <2>2. \A m \in Namespaces : lock[m] \in {"committing", "held"} => lock'[m] = lock[m]
    BY <1>2 DEF TimerFires, Notice, OtherTakes, OtherLeaves, database, BatcherTypeOK
  <2>3. \A r \in Requests : ChangeStep(r)
    BY <1>1, <2>1 DEF ChangeStep, Sent
  <2>4. ASSUME attempt.stage \in {"locked", "ran"}
        PROVE  lock'[attempt.ns] = "held"
    <3>1. attempt.ns \in Namespaces /\ lock[attempt.ns] = "held"
      BY <2>4 DEF CommitInv, QueueInv, BatcherTypeOK, Attempts, Stage
    <3> QED BY <2>2, <3>1
  <2>5. \A m \in Namespaces : staged'[m] # {} => lock'[m] = "committing"
    BY <2>1, <2>2 DEF CommitInv
  <2> QED BY <1>1, <2>1, <2>3, <2>4, <2>5 DEF CommitInv, Stage
<1>3. CASE Land(n) \/ Vanish(n)
  <2>1. /\ lock[n] = "committing" /\ staged'[n] = {}
        /\ \A m \in Namespaces \ {n} : lock'[m] = lock[m] /\ staged'[m] = staged[m]
    BY <1>3 DEF Land, Vanish, BatcherTypeOK
  <2>2. ASSUME NEW r \in staged[n]
        PROVE  /\ r \in Requests /\ Sent(r) /\ ~Sent(r)' /\ applied[r] = 0 /\ applied'[r] \in {0, 1}
               /\ call[r] = "failed" \/ (call[r] = "active" /\ Stage("commit"))
    <3>1. /\ r \in Requests /\ NamespaceOf[r] = n /\ applied[r] = 0
          /\ call[r] = "failed" \/ (call[r] = "active" /\ Stage("commit"))
      BY DEF CommitInv, BatcherTypeOK
    <3>2. applied'[r] = 1 \/ applied'[r] = 0
      BY <1>3, <3>1 DEF Land, Vanish
    <3> QED BY <2>1, <3>1, <3>2 DEF Sent
  <2>3. ASSUME NEW r \in Requests, r \notin staged[n]
        PROVE  applied'[r] = applied[r] /\ (Sent(r)' <=> Sent(r))
    <3>1. NamespaceOf[r] \in Namespaces
      BY BatcherAssumption
    <3>2. applied'[r] = applied[r]
      BY <1>3, <2>3 DEF Land, Vanish
    <3>3. CASE NamespaceOf[r] = n
      BY <2>1, <2>3, <3>2, <3>3 DEF Sent
    <3>4. CASE NamespaceOf[r] # n
      BY <2>1, <3>1, <3>2, <3>4 DEF Sent
    <3> QED BY <3>3, <3>4
  <2>4. \A r \in Requests : ChangeStep(r)
    BY <1>1, <2>2, <2>3 DEF ChangeStep
  <2>5. \A r \in Requests :
          /\ applied'[r] \in {0, 1} /\ (call[r] = "done" => applied'[r] = 1)
          /\ call[r] = "queued" => applied'[r] = 0
          /\ call[r] = "active" /\ applied'[r] = 1 => Stage("commit")
    BY <2>2, <2>3 DEF CommitInv
  <2>6. \A m \in Namespaces : \A r \in staged'[m] :
          /\ NamespaceOf[r] = m /\ applied'[r] = 0
          /\ call[r] = "failed" \/ (call[r] = "active" /\ Stage("commit"))
    <3> SUFFICES ASSUME NEW m \in Namespaces, NEW r \in staged'[m]
                 PROVE  /\ NamespaceOf[r] = m /\ applied'[r] = 0
                        /\ call[r] = "failed" \/ (call[r] = "active" /\ Stage("commit"))
      OBVIOUS
    <3>1. m # n /\ r \in staged[m]
      BY <2>1
    <3>2. /\ NamespaceOf[r] = m /\ applied[r] = 0 /\ r \in Requests
          /\ call[r] = "failed" \/ (call[r] = "active" /\ Stage("commit"))
      BY <3>1 DEF CommitInv, BatcherTypeOK
    <3>3. r \notin staged[n]
      BY <3>1, <3>2 DEF CommitInv
    <3> QED BY <2>3, <3>2, <3>3
  <2>7. \A m \in Namespaces : staged'[m] # {} => lock'[m] = "committing"
    BY <2>1 DEF CommitInv
  <2>8. ASSUME attempt.stage \in {"locked", "ran"}
        PROVE  lock'[attempt.ns] = "held"
    <3>1. attempt.ns \in Namespaces /\ lock[attempt.ns] = "held"
      BY <2>8 DEF CommitInv, QueueInv, BatcherTypeOK, Attempts, Stage
    <3> QED BY <2>1, <3>1
  <2> QED BY <1>1, <2>4, <2>5, <2>6, <2>7, <2>8 DEF CommitInv, Stage
<1> QED BY <1>2, <1>3

LEMMA CommitStep ==
  ASSUME BatcherTypeOK, BatcherTypeOK', QueueInv, CommitInv, [BatcherNext]_batcherVars
  PROVE  CommitInv' /\ \A r \in Requests : ChangeStep(r)
<1>1. CASE UNCHANGED batcherVars
  <2>1. UNCHANGED <<call, attempt, lock, staged, applied>>
    BY <1>1 DEF batcherVars, callers, database
  <2>2. CommitInv'
    BY <2>1 DEF CommitInv, Stage, Wanted, Jobs
  <2> QED BY <2>1, <2>2 DEF ChangeStep, Sent
<1>2. CASE BatcherNext
  BY <1>2, CommitCallers, CommitTaken, CommitEnds, CommitGoesOn, CommitLands DEF BatcherNext
<1> QED BY <1>1, <1>2

\* Whatever is cancelled, cut off or retried, a change takes effect at most once, success
\* is reported only of what was committed, and a change given up before its COMMIT was
\* sent has no effect, for any number of callers, namespaces and batch sizes.
THEOREM BatcherImplementsStore == BatcherSpec => ImplementsStore
<1> DEFINE AllInv == BatcherTypeOK /\ QueueInv /\ OrderInv /\ CommitInv
<1>1. BatcherInit => AllInv /\ Store!Init
  <2> SUFFICES ASSUME BatcherInit
               PROVE  AllInv /\ Store!Init
    OBVIOUS
  <2>1. Jobs = {}
    BY DEF BatcherInit, Jobs, ToSet, NoAttempt
  <2>2. CommitInv
    BY <2>1 DEF BatcherInit, CommitInv, Stage, Wanted, NoAttempt
  <2>3. \A r \in Requests : Status(r) = "none"
    BY <2>2, BatcherStart, StatusIs DEF BatcherInit
  <2> QED BY <2>2, <2>3, BatcherStart DEF Store!Init
<1>2. AllInv /\ [BatcherNext]_batcherVars => AllInv'
  BY BatcherTypeStep, QueueStep, CommitStep
<1>3. AllInv /\ AllInv' /\ [BatcherNext]_batcherVars
        => [Store!Next]_[r \in Requests |-> Status(r)]
  <2> SUFFICES ASSUME AllInv, AllInv', [BatcherNext]_batcherVars
               PROVE  Store!Next
    OBVIOUS
  <2>1. \A r \in Requests :
          Store!Moves(Status(r), Status(r)') /\ Status(r)' \in Store!Ended \cup Store!Open
    BY CommitStep, ChangeMoves
  <2> QED BY <2>1 DEF Store!Next
<1>4. BatcherSpec => []AllInv
  <2> HIDE DEF AllInv
  <2> QED BY <1>1, <1>2, PTL DEF BatcherSpec
<1>5. Store!Init /\ [][Store!Next]_[r \in Requests |-> Status(r)] => ImplementsStore
  BY DEF ImplementsStore, Store!Spec
<1> HIDE DEF AllInv
<1> QED BY <1>1, <1>3, <1>4, <1>5, PTL DEF BatcherSpec
=============================================================================
