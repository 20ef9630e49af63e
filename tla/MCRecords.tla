---------------------------- MODULE MCRecords ----------------------------
(* Parts that share no state, for TLC and safety only: in a behaviour one  *)
(* of them is at work and the others rest in their initial states.         *)
EXTENDS ConversationTurns, FairScheduling, SkillEvolution

\* Conversations: two requests at a time, in three mixes of bounds, longer ones
\* without faults and shorter ones with a stall or a crash.
Mix(r, m, s, f) == [runs |-> r, messages |-> m, snapshots |-> s, faults |-> f]

MCBudgets == {Mix(4, 2, 2, 0), Mix(3, 2, 2, 1), Mix(4, 1, 2, 1)}

\* Analyses: two users who share a group, or one user and background work, or all three.
CONSTANTS o1, o2, system

MCLimits ==
  [running |-> 2, ownerRunning |-> 1, ownerWaiting |-> 2, pending |-> 3, waiting |-> 2]
Shared == {<<o1, 1>>, <<o2, 1>>, <<o1, 2>>, <<o2, 3>>}
MCProjects ==
  {Shared, {<<o1, 1>>, <<system, 1>>, <<o2, 2>>, <<system, 3>>},
   {<<o1, 1>>, <<o1, 2>>, <<o2, 3>>, <<system, 3>>}}

\* Skills: two tasks, two reviewers and two changes a candidate may consist of.
CONSTANTS f1, f2, v1, v2, d1, d2

VARIABLE part

RecordsInit ==
  /\ Init /\ SchedulingInit /\ EvolutionInit
  /\ part \in {"conversation", "scheduling", "skills"}
  /\ part = "conversation" \/ budget = Mix(4, 1, 2, 1)
  /\ part = "scheduling" \/ projects = Shared

ConversationStep ==
  part = "conversation" /\ Next /\ UNCHANGED <<schedulingVars, evolutionVars, part>>
SchedulingStep ==
  part = "scheduling" /\ SchedulingNext /\ UNCHANGED <<vars, evolutionVars, part>>
SkillStep ==
  part = "skills" /\ EvolutionNext /\ UNCHANGED <<vars, schedulingVars, part>>

RecordsSpec ==
  /\ RecordsInit
  /\ [][ConversationStep \/ SchedulingStep \/ SkillStep]_<<vars, schedulingVars, evolutionVars, part>>

\* Requests are interchangeable, and so are tasks, reviewers and changes of Skills.  Only
\* one part is at work, so requests and tasks may be exchanged together.
Exchange(S) == [x \in S |-> CHOOSE y \in S : y # x]
Symmetry ==
  {Exchange(Lanes) @@ Exchange(EvoTasks)} \cup Permutations(Reviewers) \cup Permutations(Diffs)
=============================================================================
