-------------------- MODULE DirectoryGenerationsProofs --------------------
(* Theorems about DirectoryGenerations, for any number of generations,        *)
(* publications and readers: what is in the store has an owner, and what is   *)
(* bound or read is complete.                                                 *)
(*                                                                            *)
(* What links the two sides is `older': a generation is only taken apart once *)
(* every transaction that was open when its retirement was noted has ended.   *)
(* So a publication at work still has its generation (Waited, Described), and *)
(* so has a reader (WhileRead).                                               *)
EXTENDS DirectoryGenerations, TLAPS

PublisherStages ==
  {"away", "staged", "intended", "uploaded", "recorded", "described", "loaded", "bound"}

DirectoryTypeOK ==
  /\ age \in {"absent", "fresh", "retired", "purged"}
  /\ pointer \in Generations \cup {0}
  /\ generations \in [Generations -> {"none", "staging", "expired", "kept", "gone"}]
  /\ known \in [Generations -> SUBSET {"intent", "manifest"}]
  /\ tables \subseteq Generations /\ stored \subseteq Generations /\ doomed \subseteq Generations
  /\ queue \in [Generations -> {"no", "queued", "observed"}]
  /\ older \in [Generations -> SUBSET (Publishers \cup DirectoryReaders)]
  /\ work \in [g : Generations \cup {0}, manifest : SUBSET {"manifest"}, added : SUBSET Generations]
  /\ publisher \in [Publishers -> [stage : PublisherStages, g : Generations \cup {0}]]
  /\ dirReader \in [DirectoryReaders -> [stage : {"away", "leased", "reading"}, g : Generations \cup {0}]]
  /\ troubles \in Nat
  /\ work.g = 0 => work = NoWork
  /\ \A p \in Publishers : publisher[p].stage = "away" <=> publisher[p].g = 0
  /\ \A r \in DirectoryReaders : dirReader[r].stage = "reading" <=> dirReader[r].g # 0

-----------------------------------------------------------------------------
(* The invariant behind ObjectsOwned.                                         *)

Busy(p) == publisher[p].stage # "away"

\* What has a name has been drawn, by one publication.
Drawn ==
  /\ \A p \in Publishers : Busy(p) => generations[publisher[p].g] # "none"
  /\ \A p, q \in Publishers : Busy(p) /\ Busy(q) /\ publisher[p].g = publisher[q].g => p = q
  /\ pointer # 0 => generations[pointer] # "none"
  /\ \A g \in work.added : generations[g] # "none"
  /\ \A g \in Generations : queue[g] # "no" => generations[g] # "none"

\* What is known of objects belongs to a generation that is there.
KnownThere == \A g \in Generations : known[g] # {} => There(g)

\* The publications that were open when a retirement was noted are waited for.
Waited ==
  \A p \in Publishers :
    Busy(p) /\ queue[publisher[p].g] = "observed" => p \in older[publisher[p].g]

\* A publication that has told its intents has its generation, and what tells its
\* objects; from some stage on it has its table.
Described ==
  \A p \in Publishers :
    LET g == publisher[p].g s == publisher[p].stage IN
    /\ s \in {"intended", "uploaded"} => There(g) /\ "intent" \in known[g]
    /\ s \in {"recorded", "described", "loaded", "bound"} => There(g) /\ "manifest" \in known[g]
    /\ s \in {"loaded", "bound"} => g \in tables

OwnersInv == Drawn /\ KnownThere /\ Waited /\ Described /\ ObjectsOwned

-----------------------------------------------------------------------------
(* The invariant behind DirectoryReadable.                                    *)

\* What is listed for deletion will not be bound (any more).
DoomedGivenUp ==
  \A g \in doomed : generations[g] # "none" /\ (There(g) => queue[g] # "no")

\* What may still be bound has its objects.
Bindable ==
  \A p \in Publishers :
    /\ publisher[p].stage \in {"uploaded", "recorded", "described", "loaded", "bound"} =>
         publisher[p].g \in stored \/ queue[publisher[p].g] # "no"
    /\ publisher[p].stage = "bound" => queue[publisher[p].g] = "no"

Complete(g) == There(g) /\ g \in tables /\ g \in stored /\ g \notin doomed

\* What is bound is complete, and nobody waits for its end.
WhileBound ==
  pointer # 0 =>
    /\ Complete(pointer) /\ queue[pointer] # "observed"
    /\ \A p \in Publishers : publisher[p].g # pointer

\* What is read is complete, and its readers are waited for.
WhileRead ==
  \A r \in DirectoryReaders :
    LET g == dirReader[r].g IN
    g # 0 => Complete(g) /\ (queue[g] = "observed" => r \in older[g])

ReadersInv == DoomedGivenUp /\ Bindable /\ WhileBound /\ WhileRead

-----------------------------------------------------------------------------
(* Types.                                                                     *)

USE DEF dirVars, keyVars, generationVars, objectVars, cleanupVars,
        NoWork, At, Away, There, Busy, PublisherAt, Goes, Over, Trouble, Queued

\* The queue after a batch.
LEMMA CommittedTyped ==
  ASSUME DirectoryTypeOK
  PROVE  /\ Committed \in [Generations -> {"no", "queued", "observed"}]
         /\ \A g \in Generations : Committed[g] = "observed" <=> queue[g] = "observed"
         /\ \A g \in Generations : Committed[g] # "no" => queue[g] # "no" \/ g \in work.added
         /\ \A g \in Generations : queue[g] # "no" => Committed[g] = queue[g]
BY DEF DirectoryTypeOK, Committed

\* Publications keep the types.
LEMMA PublishTyped ==
  ASSUME DirectoryAssumption, DirectoryTypeOK, NEW p \in Publishers,
         PublishDirectory(p) \/ FailPublication(p)
  PROVE  DirectoryTypeOK'
<1> USE DEF DirectoryTypeOK, DirectoryAssumption, PublisherStages
<1>1. CASE \E g \in Generations : StageGeneration(p, g)
  BY <1>1 DEF StageGeneration
<1>2. CASE Intend(p)
  BY <1>2 DEF Intend
<1>3. CASE PutChunks(p)
  BY <1>3 DEF PutChunks
<1>4. CASE Record(p)
  BY <1>4 DEF Record
<1>5. CASE DropIntents(p)
  BY <1>5 DEF DropIntents
<1>6. CASE LoadTables(p)
  BY <1>6 DEF LoadTables
<1>7. CASE Bind(p)
  BY <1>7 DEF Bind
<1>8. CASE CommitPublication(p)
  BY <1>8 DEF CommitPublication
<1>9. CASE Refused(p)
  BY <1>9 DEF Refused, GiveUp
<1>10. CASE FailPublication(p)
  BY <1>10 DEF FailPublication, GiveUp
<1>. QED
  BY <1>1, <1>2, <1>3, <1>4, <1>5, <1>6, <1>7, <1>8, <1>9, <1>10 DEF PublishDirectory

\* The reclamation keeps the types.
LEMMA BatchTyped ==
  ASSUME DirectoryAssumption, DirectoryTypeOK, Proceed
  PROVE  DirectoryTypeOK'
<1> USE CommittedTyped DEF DirectoryTypeOK, DirectoryAssumption
<1>1. CASE GiveWay
  BY <1>1 DEF GiveWay
<1>2. CASE AwaitReaders
  BY <1>2 DEF AwaitReaders
<1>3. CASE Observe
  BY <1>3 DEF Observe, Open
<1>4. CASE DropTables
  BY <1>4 DEF DropTables
<1>5. CASE Finish
  BY <1>5 DEF Finish
<1>6. CASE Unqueue
  BY <1>6 DEF Unqueue
<1>. QED
  BY <1>1, <1>2, <1>3, <1>4, <1>5, <1>6 DEF Proceed

\* Every step keeps the types.
LEMMA DirectoryTyped ==
  ASSUME DirectoryAssumption, DirectoryTypeOK, [DirectoryNext]_dirVars
  PROVE  DirectoryTypeOK'
<1>1. CASE \E p \in Publishers : PublishDirectory(p) \/ FailPublication(p)
  BY <1>1, PublishTyped
<1>2. CASE Proceed
  BY <1>2, BatchTyped
<1> USE DEF DirectoryTypeOK, DirectoryAssumption
<1>3. CASE \E g \in Generations : ExpireStaging(g)
  BY <1>3 DEF ExpireStaging
<1>4. CASE \E g \in Generations : Choose(g)
  BY <1>4 DEF Choose
<1>5. CASE \E g \in Generations : DeleteDoomed(g)
  BY <1>5 DEF DeleteDoomed
<1>6. CASE RetireSnapshot
  BY <1>6 DEF RetireSnapshot
<1>7. CASE PurgeDirectory
  BY <1>7 DEF PurgeDirectory
<1>8. ASSUME NEW r \in DirectoryReaders, LeaseSnapshot(r)
      PROVE  DirectoryTypeOK'
  BY <1>8 DEF LeaseSnapshot
<1>9. ASSUME NEW r \in DirectoryReaders, OpenDirectory(r)
      PROVE  DirectoryTypeOK'
  BY <1>9 DEF OpenDirectory
<1>10. ASSUME NEW r \in DirectoryReaders, CloseDirectory(r)
       PROVE  DirectoryTypeOK'
  BY <1>10 DEF CloseDirectory
<1>11. CASE UNCHANGED dirVars
  BY <1>11
<1>. QED
  BY <1>1, <1>2, <1>3, <1>4, <1>5, <1>6, <1>7, <1>8, <1>9, <1>10, <1>11 DEF DirectoryNext

\* Every reachable state of the generations of a key, their publications, readers and
\* clean-up is well typed.
THEOREM DirectoryTypeCorrect == DirectorySpec => []DirectoryTypeOK
<1>1. DirectoryInit => DirectoryTypeOK
  BY DirectoryAssumption DEF DirectoryInit, DirectoryTypeOK, PublisherStages, DirectoryAssumption
<1>2. DirectoryTypeOK /\ [DirectoryNext]_dirVars => DirectoryTypeOK'
  BY DirectoryTyped, DirectoryAssumption
<1>. QED
  BY <1>1, <1>2, PTL DEF DirectorySpec

-----------------------------------------------------------------------------
(* What happens to a generation when a batch of the reclamation is over.       *)

Stays(h) ==
  generations'[h] = generations[h] /\ known'[h] = known[h] /\ (h \in doomed' => h \in doomed)

\* A generation goes if it is not bound, its tables are gone, and everybody has ended who
\* may read its objects; these are listed for deletion.
TakenApart(h) ==
  /\ generations'[h] = "gone" /\ known'[h] = {}
  /\ h # pointer /\ h \notin tables
  /\ known[h] # {} => h \in doomed' /\ queue[h] = "observed" /\ older[h] = {}

BatchEffect ==
  /\ work' = NoWork /\ age' = age /\ pointer' = pointer /\ stored' = stored
  /\ publisher' = publisher /\ dirReader' = dirReader
  /\ doomed \subseteq doomed' /\ tables' \subseteq tables
  /\ \A h \in Generations : Stays(h) \/ TakenApart(h)
  /\ \A h \in tables \ tables' : h # pointer /\ queue[h] = "observed" /\ older[h] = {}
  /\ \A h \in Generations :
       /\ queue'[h] = "observed" =>
            \/ h # pointer /\ older'[h] = Open
            \/ queue[h] = "observed" /\ older'[h] = older[h]
       /\ queue[h] # "no" => queue'[h] # "no" \/ generations'[h] = "gone" \/ pointer = h
       /\ queue[h] = "no" /\ queue'[h] # "no" => h \in work.added /\ ~Binding

\* Any batch, at its second step, has that effect.
LEMMA BatchDone ==
  ASSUME DirectoryAssumption, DirectoryTypeOK, ~Torn, Proceed
  PROVE  BatchEffect
<1> USE CommittedTyped DEF DirectoryTypeOK, DirectoryAssumption, BatchEffect, Stays, TakenApart
<1>1. CASE GiveWay
  BY <1>1 DEF GiveWay
<1>2. CASE AwaitReaders
  BY <1>2 DEF AwaitReaders
<1>3. CASE Observe
  BY <1>3, ZenonT(30) DEF Observe
<1>4. CASE DropTables
  BY <1>4 DEF DropTables, ReadableBy
<1>5. CASE Finish
  <2>1. work.g \in Generations
    BY <1>5 DEF Finish
  <2>2. TakenApart(work.g)
    <3>1. Keys(work.g) = known[work.g]
      BY <2>1 DEF Keys
    <3>2. known[work.g] # {} => queue[work.g] = "observed" /\ older[work.g] = {}
      BY <1>5, <2>1, <3>1 DEF Finish, ReadableBy
    <3>. QED
      BY <1>5, <2>1, <3>1, <3>2 DEF Finish
  <2>3. ASSUME NEW h \in Generations, h # work.g
        PROVE  Stays(h) /\ queue'[h] = Committed[h] /\ older'[h] = older[h]
    BY <1>5, <2>1, <2>3 DEF Finish
  <2>. QED
    BY <1>5, <2>1, <2>2, <2>3 DEF Finish
<1>6. CASE Unqueue
  BY <1>6 DEF Unqueue
<1>. QED
  BY <1>1, <1>2, <1>3, <1>4, <1>5, <1>6 DEF Proceed

\* A batch leaves what publications need: it waits for those that know of objects.
LEMMA BatchKeepsOwners ==
  ASSUME DirectoryAssumption, DirectoryTypeOK, OwnersInv, BatchEffect
  PROVE  OwnersInv'
<1> USE DEF DirectoryTypeOK, DirectoryAssumption
<1>1. work' = NoWork /\ pointer' = pointer /\ stored' = stored /\ publisher' = publisher
  BY DEF BatchEffect
<1>2. \A p \in Publishers : Busy(p) => publisher[p].g \in Generations
  OBVIOUS
<1>3. \A h \in Generations : Stays(h) \/ TakenApart(h)
  BY DEF BatchEffect
<1>4. Drawn'
  <2>1. \A h \in Generations : queue'[h] # "no" => queue[h] # "no" \/ h \in work.added
    BY DEF BatchEffect
  <2>2. \A h \in Generations : generations'[h] = "none" => generations[h] = "none"
    BY <1>3 DEF Stays, TakenApart
  <2>3. \A p \in Publishers : Busy(p)' => generations'[publisher'[p].g] # "none"
    BY <1>1, <1>2, <2>2 DEF OwnersInv, Drawn
  <2>4. \A p, q \in Publishers : Busy(p)' /\ Busy(q)' /\ publisher'[p].g = publisher'[q].g => p = q
    BY <1>1 DEF OwnersInv, Drawn
  <2>5. pointer' # 0 => generations'[pointer'] # "none"
    BY <1>1, <2>2 DEF OwnersInv, Drawn
  <2>6. \A g \in work'.added : generations'[g] # "none"
    BY <1>1
  <2>7. \A g \in Generations : queue'[g] # "no" => generations'[g] # "none"
    BY <2>1, <2>2 DEF OwnersInv, Drawn
  <2>. QED
    BY <2>3, <2>4, <2>5, <2>6, <2>7 DEF Drawn
<1>5. KnownThere'
  <2>1. ASSUME NEW h \in Generations, known'[h] # {}
        PROVE  generations'[h] = generations[h] /\ known'[h] = known[h]
    BY <1>3, <2>1 DEF Stays, TakenApart
  <2>. QED
    BY <2>1 DEF OwnersInv, KnownThere
<1>6. Waited'
  <2>1. SUFFICES ASSUME NEW p \in Publishers, Busy(p), queue'[publisher[p].g] = "observed"
                 PROVE  p \in older'[publisher[p].g]
    BY <1>1 DEF Waited
  <2>2. \/ older'[publisher[p].g] = Open
        \/ queue[publisher[p].g] = "observed" /\ older'[publisher[p].g] = older[publisher[p].g]
    BY <1>2, <2>1 DEF BatchEffect
  <2>3. p \in Open
    BY <2>1 DEF Open
  <2>. QED
    BY <2>1, <2>2, <2>3 DEF OwnersInv, Waited
<1>7. Described'
  <2>1. SUFFICES ASSUME NEW p \in Publishers, Busy(p), publisher[p].stage # "staged"
                 PROVE  LET g == publisher[p].g IN
                        /\ generations'[g] = generations[g] /\ known'[g] = known[g]
                        /\ g \in tables => g \in tables'
    BY <1>1, <1>2 DEF OwnersInv, Described
  <2>2. ~(queue[publisher[p].g] = "observed" /\ older[publisher[p].g] = {})
    BY <2>1 DEF OwnersInv, Waited
  <2>3. known[publisher[p].g] # {}
    BY <2>1 DEF OwnersInv, Described, PublisherStages
  <2>4. Stays(publisher[p].g)
    BY <1>2, <1>3, <2>1, <2>2, <2>3 DEF TakenApart
  <2>5. publisher[p].g \in tables => publisher[p].g \in tables'
    BY <1>2, <2>1, <2>2 DEF BatchEffect
  <2>. QED
    BY <2>4, <2>5 DEF Stays
<1>8. ObjectsOwned'
  <2>1. SUFFICES ASSUME NEW h \in stored
                 PROVE  h \in doomed' \/ (There(h)' /\ known'[h] # {})
    BY <1>1 DEF ObjectsOwned
  <2>2. CASE Stays(h)
    BY <2>2 DEF Stays, OwnersInv, ObjectsOwned, BatchEffect
  <2>3. CASE TakenApart(h)
    BY <2>3 DEF TakenApart, OwnersInv, ObjectsOwned, BatchEffect
  <2>. QED
    BY <1>3, <2>2, <2>3
<1>. QED
  BY <1>4, <1>5, <1>6, <1>7, <1>8 DEF OwnersInv

\* A batch leaves what is bound or read, and what may still be bound.
LEMMA BatchKeepsReaders ==
  ASSUME DirectoryAssumption, DirectoryTypeOK, DirectoryTypeOK', OwnersInv, ReadersInv, BatchEffect
  PROVE  ReadersInv'
<1> USE DEF DirectoryTypeOK, DirectoryAssumption
<1>1. /\ pointer' = pointer /\ stored' = stored /\ publisher' = publisher
      /\ dirReader' = dirReader /\ doomed \subseteq doomed'
  BY DEF BatchEffect
<1>2. \A h \in Generations : Stays(h) \/ TakenApart(h)
  BY DEF BatchEffect
<1>3. \A h \in Generations : pointer = h => h # 0 /\ Complete(h)
  BY DEF ReadersInv, WhileBound
<1>4. DoomedGivenUp'
  <2>1. SUFFICES ASSUME NEW h \in doomed'
                 PROVE  generations'[h] # "none" /\ (There(h)' => queue'[h] # "no")
    BY DEF DoomedGivenUp
  <2>2. h \in Generations
    BY <2>1
  <2>3. CASE Stays(h)
    BY <1>3, <2>1, <2>2, <2>3 DEF Stays, BatchEffect, ReadersInv, DoomedGivenUp, Complete
  <2>4. CASE TakenApart(h)
    BY <2>4 DEF TakenApart
  <2>. QED
    BY <1>2, <2>2, <2>3, <2>4
<1>5. Bindable'
  <2>1. SUFFICES ASSUME NEW p \in Publishers, Busy(p), publisher[p].stage \notin {"staged", "intended"}
                 PROVE  /\ queue[publisher[p].g] # "no" => queue'[publisher[p].g] # "no"
                        /\ publisher[p].stage = "bound" => queue'[publisher[p].g] = "no"
    BY <1>1 DEF ReadersInv, Bindable
  <2>2. publisher[p].g \in Generations /\ publisher[p].g # pointer
    BY <2>1 DEF ReadersInv, WhileBound
  <2>3. publisher[p].stage = "bound" => queue'[publisher[p].g] = "no"
    BY <2>2 DEF BatchEffect, Binding, ReadersInv, Bindable
  <2>4. known[publisher[p].g] # {}
    BY <2>1 DEF OwnersInv, Described, PublisherStages
  <2>5. ~(queue[publisher[p].g] = "observed" /\ older[publisher[p].g] = {})
    BY <2>1 DEF OwnersInv, Waited
  <2>6. Stays(publisher[p].g) /\ There(publisher[p].g)
    BY <1>2, <2>1, <2>2, <2>4, <2>5, ZenonT(30) DEF TakenApart, OwnersInv, KnownThere
  <2>. QED
    BY <2>2, <2>3, <2>6 DEF BatchEffect, Stays
<1>6. WhileBound'
  <2>1. SUFFICES ASSUME pointer # 0
                 PROVE  Complete(pointer)' /\ queue'[pointer] # "observed"
    BY <1>1 DEF ReadersInv, WhileBound
  <2>2. Stays(pointer) /\ (pointer \in tables => pointer \in tables')
    BY <1>2, <2>1 DEF TakenApart, BatchEffect
  <2>3. queue'[pointer] # "observed"
    BY <2>1 DEF BatchEffect, ReadersInv, WhileBound
  <2>. QED
    BY <1>1, <1>3, <2>1, <2>2, <2>3 DEF Stays, Complete
<1>7. WhileRead'
  <2>1. SUFFICES ASSUME NEW r \in DirectoryReaders, dirReader[r].g # 0
                 PROVE  LET g == dirReader[r].g IN
                        Complete(g)' /\ (queue'[g] = "observed" => r \in older'[g])
    BY <1>1 DEF WhileRead
  <2>2. dirReader[r].g \in Generations /\ r \in Open
    BY <2>1 DEF Open
  <2>3. Complete(dirReader[r].g) /\ (queue[dirReader[r].g] = "observed" => r \in older[dirReader[r].g])
    BY <2>1 DEF ReadersInv, WhileRead
  <2>4. Stays(dirReader[r].g)
    BY <1>2, <2>2, <2>3 DEF TakenApart, Complete
  <2>5. dirReader[r].g \in tables'
    BY <2>2, <2>3 DEF BatchEffect, Complete
  <2>6. queue'[dirReader[r].g] = "observed" => r \in older'[dirReader[r].g]
    BY <2>2, <2>3 DEF BatchEffect
  <2>. QED
    BY <1>1, <2>2, <2>3, <2>4, <2>5, <2>6 DEF Stays, Complete
<1>. QED
  BY <1>4, <1>5, <1>6, <1>7 DEF ReadersInv

\* A publication that is given up: what it staged stays as it is, but for an object that
\* may have arrived; it may be queued, and nothing is waited for because of it.
LEMMA GivenUp ==
  ASSUME DirectoryTypeOK, NEW p \in Publishers, Refused(p) \/ FailPublication(p)
  PROVE  /\ publisher' = [publisher EXCEPT ![p] = Away] /\ Busy(p)
         /\ pointer' = pointer /\ generations' = generations /\ known' = known
         /\ tables' = tables /\ doomed' = doomed /\ work' = work /\ dirReader' = dirReader
         /\ \A h \in Generations :
              /\ older'[h] = older[h] \ {p}
              /\ queue'[h] = "observed" <=> queue[h] = "observed"
              /\ queue[h] # "no" => queue'[h] # "no"
              /\ queue[h] = "no" /\ queue'[h] # "no" => h = publisher[p].g
         /\ stored \subseteq stored'
         /\ \A h \in stored' \ stored : h = publisher[p].g /\ publisher[p].stage = "intended"
<1> USE DEF DirectoryTypeOK, GiveUp
<1>1. CASE Refused(p)
  BY <1>1 DEF Refused
<1>2. CASE FailPublication(p)
  BY <1>2 DEF FailPublication
<1>. QED
  BY <1>1, <1>2

\* It leaves what the other publications need.
LEMMA GivenUpKeepsOwners ==
  ASSUME DirectoryAssumption, DirectoryTypeOK, OwnersInv, NEW p \in Publishers,
         Refused(p) \/ FailPublication(p)
  PROVE  OwnersInv'
<1> USE DEF DirectoryTypeOK, DirectoryAssumption
<1>1. /\ pointer' = pointer /\ generations' = generations /\ known' = known
      /\ tables' = tables /\ doomed' = doomed /\ work' = work
  BY GivenUp
<1>2. \A q \in Publishers : Busy(q)' => Busy(q) /\ publisher'[q] = publisher[q] /\ q # p
  BY GivenUp
<1>3. publisher[p].g \in Generations
  BY GivenUp
<1>4. Drawn'
  <2>1. \A g \in Generations : queue'[g] # "no" => generations'[g] # "none"
    BY <1>1, <1>3, GivenUp DEF OwnersInv, Drawn
  <2>. QED
    BY <1>1, <1>2, <2>1 DEF OwnersInv, Drawn
<1>5. KnownThere'
  BY <1>1 DEF OwnersInv, KnownThere
<1>6. Waited'
  <2>1. SUFFICES ASSUME NEW q \in Publishers, Busy(q), q # p, queue'[publisher[q].g] = "observed"
                 PROVE  q \in older'[publisher[q].g]
    BY <1>2 DEF Waited
  <2>2. publisher[q].g \in Generations
    BY <2>1
  <2>3. queue[publisher[q].g] = "observed" /\ older'[publisher[q].g] = older[publisher[q].g] \ {p}
    BY <2>1, <2>2, GivenUp
  <2>. QED
    BY <2>1, <2>3 DEF OwnersInv, Waited
<1>7. Described'
  <2>1. \A q \in Publishers : publisher'[q] = publisher[q] \/ publisher'[q].stage = "away"
    BY GivenUp
  <2>. QED
    BY <1>1, <2>1 DEF OwnersInv, Described
<1>8. ObjectsOwned'
  <2>1. ASSUME NEW h \in stored', h \notin stored
        PROVE  There(h) /\ known[h] # {}
    BY <2>1, GivenUp DEF OwnersInv, Described
  <2>. QED
    BY <1>1, <2>1 DEF OwnersInv, ObjectsOwned
<1>. QED
  BY <1>4, <1>5, <1>6, <1>7, <1>8 DEF OwnersInv

\* It leaves what is bound or read.
LEMMA GivenUpKeepsReaders ==
  ASSUME DirectoryAssumption, DirectoryTypeOK, OwnersInv, ReadersInv, NEW p \in Publishers,
         Refused(p) \/ FailPublication(p)
  PROVE  ReadersInv'
<1> USE DEF DirectoryTypeOK, DirectoryAssumption
<1>1. /\ pointer' = pointer /\ generations' = generations /\ tables' = tables
      /\ doomed' = doomed /\ dirReader' = dirReader /\ stored \subseteq stored'
  BY GivenUp
<1>2. \A q \in Publishers : Busy(q)' => Busy(q) /\ publisher'[q] = publisher[q] /\ q # p
  BY GivenUp
<1>3. \A h \in Generations : queue[h] # "no" => queue'[h] # "no"
  BY GivenUp
<1>4. DoomedGivenUp'
  BY <1>1, <1>3 DEF ReadersInv, DoomedGivenUp
<1>5. Bindable'
  <2>1. ASSUME NEW q \in Publishers, Busy(q), q # p
        PROVE  queue'[publisher[q].g] = "no" <=> queue[publisher[q].g] = "no"
    <3>1. publisher[q].g \in Generations /\ publisher[q].g # publisher[p].g
      BY <2>1, GivenUp DEF OwnersInv, Drawn
    <3>. QED
      BY <3>1, GivenUp
  <2>2. SUFFICES ASSUME NEW q \in Publishers, Busy(q)'
                 PROVE  /\ publisher'[q].stage \in {"uploaded", "recorded", "described", "loaded", "bound"}
                             => publisher'[q].g \in stored' \/ queue'[publisher'[q].g] # "no"
                        /\ publisher'[q].stage = "bound" => queue'[publisher'[q].g] = "no"
    BY DEF Bindable
  <2>3. publisher'[q] = publisher[q] /\ (queue'[publisher[q].g] = "no" <=> queue[publisher[q].g] = "no")
    BY <1>2, <2>1, <2>2
  <2>. QED
    BY <1>1, <2>3 DEF ReadersInv, Bindable
<1>6. WhileBound'
  <2>1. \A q \in Publishers : publisher'[q].g \in {publisher[q].g, 0}
    BY GivenUp
  <2>2. \A h \in Generations : queue'[h] = "observed" => queue[h] = "observed"
    BY GivenUp
  <2>. QED
    BY <1>1, <2>1, <2>2 DEF ReadersInv, WhileBound, Complete
<1>7. WhileRead'
  <2>1. SUFFICES ASSUME NEW r \in DirectoryReaders, dirReader[r].g # 0,
                        queue'[dirReader[r].g] = "observed"
                 PROVE  r \in older'[dirReader[r].g]
    BY <1>1 DEF ReadersInv, WhileRead, Complete
  <2>2. dirReader[r].g \in Generations /\ r # p
    BY <2>1
  <2>3. queue[dirReader[r].g] = "observed" /\ older'[dirReader[r].g] = older[dirReader[r].g] \ {p}
    BY <2>1, <2>2, GivenUp
  <2>. QED
    BY <2>1, <2>2, <2>3 DEF ReadersInv, WhileRead
<1>. QED
  BY <1>4, <1>5, <1>6, <1>7 DEF ReadersInv

-----------------------------------------------------------------------------
(* Every step.                                                                *)

\* A step of a publication keeps every object owned.
LEMMA PublishKeepsOwners ==
  ASSUME DirectoryAssumption, DirectoryTypeOK, DirectoryTypeOK', OwnersInv,
         NEW p \in Publishers, PublishDirectory(p) \/ FailPublication(p)
  PROVE  OwnersInv'
<1> USE DEF DirectoryTypeOK, DirectoryAssumption,
           OwnersInv, Drawn, KnownThere, Waited, Described, ObjectsOwned
<1>1. CASE \E g \in Generations : StageGeneration(p, g)
  BY <1>1 DEF StageGeneration
<1>2. CASE Intend(p)
  BY <1>2 DEF Intend
<1>3. CASE PutChunks(p)
  BY <1>3 DEF PutChunks
<1>4. CASE Record(p)
  BY <1>4 DEF Record
<1>5. CASE DropIntents(p)
  BY <1>5 DEF DropIntents
<1>6. CASE LoadTables(p)
  BY <1>6 DEF LoadTables
<1>7. CASE Bind(p)
  BY <1>7 DEF Bind, Publishable, Binding
<1>8. CASE CommitPublication(p)
  BY <1>8 DEF CommitPublication
<1>9. CASE Refused(p) \/ FailPublication(p)
  <2> HIDE DEF OwnersInv, Drawn, KnownThere, Waited, Described, ObjectsOwned
  <2>. QED
    BY <1>9, GivenUpKeepsOwners
<1>. QED
  BY <1>1, <1>2, <1>3, <1>4, <1>5, <1>6, <1>7, <1>8, <1>9 DEF PublishDirectory

\* So does every step.
LEMMA OwnersKept ==
  ASSUME DirectoryAssumption, DirectoryTypeOK, DirectoryTypeOK', OwnersInv, ~Torn, [DirectoryNext]_dirVars
  PROVE  OwnersInv'
<1>1. CASE \E p \in Publishers : PublishDirectory(p) \/ FailPublication(p)
  BY <1>1, PublishKeepsOwners
<1>2. CASE Proceed
  BY <1>2, BatchDone, BatchKeepsOwners
<1> USE DEF DirectoryTypeOK, DirectoryAssumption,
           OwnersInv, Drawn, KnownThere, Waited, Described, ObjectsOwned
<1>3. ASSUME NEW g \in Generations, ExpireStaging(g)
      PROVE  OwnersInv'
  BY <1>3 DEF ExpireStaging
<1>4. ASSUME NEW g \in Generations, Choose(g)
      PROVE  OwnersInv'
  BY <1>4 DEF Choose, Unbound
<1>5. ASSUME NEW g \in Generations, DeleteDoomed(g)
      PROVE  OwnersInv'
  BY <1>5 DEF DeleteDoomed
<1>6. CASE RetireSnapshot
  BY <1>6 DEF RetireSnapshot
<1>7. CASE PurgeDirectory
  BY <1>7 DEF PurgeDirectory, Binding, Leased
<1>8. ASSUME NEW r \in DirectoryReaders, LeaseSnapshot(r)
      PROVE  OwnersInv'
  BY <1>8 DEF LeaseSnapshot
<1>9. ASSUME NEW r \in DirectoryReaders, OpenDirectory(r)
      PROVE  OwnersInv'
  BY <1>9 DEF OpenDirectory
<1>10. ASSUME NEW r \in DirectoryReaders, CloseDirectory(r)
      PROVE  OwnersInv'
  BY <1>10 DEF CloseDirectory
<1>11. CASE UNCHANGED dirVars
  BY <1>11
<1>. QED
  BY <1>1, <1>2, <1>3, <1>4, <1>5, <1>6, <1>7, <1>8, <1>9, <1>10, <1>11 DEF DirectoryNext

\* A step of a publication leaves what is bound or read.
LEMMA PublishKeepsReaders ==
  ASSUME DirectoryAssumption, DirectoryTypeOK, DirectoryTypeOK', OwnersInv, ReadersInv,
         NEW p \in Publishers, PublishDirectory(p) \/ FailPublication(p)
  PROVE  ReadersInv'
<1> USE DEF DirectoryTypeOK, DirectoryAssumption,
           OwnersInv, Drawn, KnownThere, Waited, Described, ObjectsOwned,
           ReadersInv, DoomedGivenUp, Bindable, Complete, WhileBound, WhileRead
<1>1. CASE \E g \in Generations : StageGeneration(p, g)
  BY <1>1 DEF StageGeneration
<1>2. CASE Intend(p)
  BY <1>2 DEF Intend
<1>3. CASE PutChunks(p)
  BY <1>3 DEF PutChunks
<1>4. CASE Record(p)
  BY <1>4 DEF Record
<1>5. CASE DropIntents(p)
  BY <1>5 DEF DropIntents
<1>6. CASE LoadTables(p)
  BY <1>6 DEF LoadTables
<1>7. CASE Bind(p)
  BY <1>7 DEF Bind, Publishable, Binding
<1>8. CASE CommitPublication(p)
  BY <1>8 DEF CommitPublication
<1>9. CASE Refused(p) \/ FailPublication(p)
  <2> HIDE DEF OwnersInv, Drawn, KnownThere, Waited, Described, ObjectsOwned,
               ReadersInv, DoomedGivenUp, Bindable, Complete, WhileBound, WhileRead
  <2>. QED
    BY <1>9, GivenUpKeepsReaders
<1>. QED
  BY <1>1, <1>2, <1>3, <1>4, <1>5, <1>6, <1>7, <1>8, <1>9 DEF PublishDirectory

\* So does every step, if nobody reads without a lease.
LEMMA ReadersKept ==
  ASSUME DirectoryAssumption, DirectoryTypeOK, DirectoryTypeOK', OwnersInv, ReadersInv,
         Unleased = {}, ~Torn, [DirectoryNext]_dirVars
  PROVE  ReadersInv'
<1>1. CASE \E p \in Publishers : PublishDirectory(p) \/ FailPublication(p)
  BY <1>1, PublishKeepsReaders
<1>2. CASE Proceed
  BY <1>2, BatchDone, BatchKeepsReaders
<1> USE DEF DirectoryTypeOK, DirectoryAssumption,
           OwnersInv, Drawn, KnownThere, Waited, Described, ObjectsOwned,
           ReadersInv, DoomedGivenUp, Bindable, Complete, WhileBound, WhileRead
<1>3. ASSUME NEW g \in Generations, ExpireStaging(g)
      PROVE  ReadersInv'
  BY <1>3 DEF ExpireStaging
<1>4. ASSUME NEW g \in Generations, Choose(g)
      PROVE  ReadersInv'
  BY <1>4 DEF Choose, Unbound
<1>5. ASSUME NEW g \in Generations, DeleteDoomed(g)
      PROVE  ReadersInv'
  BY <1>5 DEF DeleteDoomed
<1>6. CASE RetireSnapshot
  BY <1>6 DEF RetireSnapshot
<1>7. CASE PurgeDirectory
  BY <1>7 DEF PurgeDirectory, Binding, Leased
<1>8. ASSUME NEW r \in DirectoryReaders, LeaseSnapshot(r)
      PROVE  ReadersInv'
  BY <1>8 DEF LeaseSnapshot
<1>9. ASSUME NEW r \in DirectoryReaders, OpenDirectory(r)
      PROVE  ReadersInv'
  BY <1>9 DEF OpenDirectory
<1>10. ASSUME NEW r \in DirectoryReaders, CloseDirectory(r)
      PROVE  ReadersInv'
  BY <1>10 DEF CloseDirectory
<1>11. CASE UNCHANGED dirVars
  BY <1>11
<1>. QED
  BY <1>1, <1>2, <1>3, <1>4, <1>5, <1>6, <1>7, <1>8, <1>9, <1>10, <1>11 DEF DirectoryNext

-----------------------------------------------------------------------------
(* The theorems.                                                              *)

\* An object that is in the store is always known to somebody who deletes it or whose
\* end deletes it, unless a manifest is written between the two reads of a batch.
THEOREM ObjectsStayOwned == ~Torn => (DirectorySpec => []ObjectsOwned)
<1> SUFFICES ASSUME ~Torn
             PROVE  DirectorySpec => []ObjectsOwned
  OBVIOUS
<1>1. DirectoryInit => OwnersInv
  BY DirectoryAssumption DEF DirectoryInit, DirectoryAssumption, OwnersInv, Drawn, KnownThere,
     Waited, Described, ObjectsOwned
<1>2. DirectoryTypeOK /\ DirectoryTypeOK' /\ OwnersInv /\ [DirectoryNext]_dirVars => OwnersInv'
  BY OwnersKept, DirectoryAssumption
<1>3. OwnersInv => ObjectsOwned
  BY DEF OwnersInv
<1>. QED
  BY <1>1, <1>2, <1>3, DirectoryTypeCorrect, PTL DEF DirectorySpec

\* What a reader with a lease has found, and what the next one will find, has its tables
\* and its objects until the read is over, whatever is published, replaced, expired,
\* purged or abandoned meanwhile.
THEOREM DirectoriesStayReadable == ~Torn /\ Unleased = {} => (DirectorySpec => []DirectoryReadable)
<1> SUFFICES ASSUME ~Torn, Unleased = {}
             PROVE  DirectorySpec => []DirectoryReadable
  OBVIOUS
<1>1. DirectoryInit => OwnersInv /\ ReadersInv
  BY DirectoryAssumption DEF DirectoryInit, DirectoryAssumption, OwnersInv, Drawn, KnownThere,
     Waited, Described, ObjectsOwned, ReadersInv, DoomedGivenUp, Bindable, WhileBound, WhileRead
<1>2. DirectoryTypeOK /\ DirectoryTypeOK' /\ OwnersInv /\ ReadersInv /\ [DirectoryNext]_dirVars
        => OwnersInv' /\ ReadersInv'
  BY OwnersKept, ReadersKept, DirectoryAssumption
<1>3. DirectoryTypeOK /\ ReadersInv => DirectoryReadable
  BY DEF DirectoryTypeOK, ReadersInv, WhileBound, WhileRead, Complete, DirectoryReadable
<1>. QED
  BY <1>1, <1>2, <1>3, DirectoryTypeCorrect, PTL DEF DirectorySpec
=============================================================================
