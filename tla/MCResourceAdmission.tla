----------------------- MODULE MCResourceAdmission -----------------------
(* ResourceAdmission for TLC: a stage slot (limit 2) and memory (limit 3).  *)
(* One of two mixes of jobs is at work: stages of two owners, or stages     *)
(* beside background work and a process with another limit.                 *)
EXTENDS ResourceAdmission

\* a1, a2: stages of one owner; b1: another owner; bg, bg2: background work;
\* big: a stage that needs all the memory; hasty, brief: the same and a small
\* stage, with a deadline; odd: a process with another limit.  Only memory has a
\* background ceiling (analysis/stage-executor.ts).
CONSTANTS a1, a2, b1, bg, bg2, big, hasty, brief, odd, ownerA, ownerB, system, t1, t2

VARIABLE mix

OwnerMap == [j \in Jobs |->
  CASE j \in {a1, a2, big, hasty} -> ownerA [] j \in {b1, brief, odd} -> ownerB [] OTHER -> system]
TaskMap == [j \in Jobs |-> IF j \in {a1, b1, big, hasty} THEN t1 ELSE t2]

Of(units, limit, ceiling) == [units |-> units, limit |-> limit, ceiling |-> ceiling]
Stage(memory) == [slot |-> Of(1, 2, NoCeiling), memory |-> Of(memory, 3, NoCeiling)]

DemandMap == [j \in Jobs |->
  CASE j \in {big, hasty} -> Stage(3)
    [] j = bg -> [slot |-> Of(1, 2, NoCeiling), memory |-> Of(1, 3, 2)]
    [] j = bg2 -> [slot |-> Of(1, 2, NoCeiling), memory |-> Of(2, 3, 2)]
    [] j = odd -> [slot |-> Of(1, 1, NoCeiling), memory |-> Of(1, 3, NoCeiling)]
    [] OTHER -> Stage(1)]

ASSUME MixAssumption == OneConfiguration

Stages == {a1, a2, b1, big}
Mixed == {brief, hasty, bg, bg2, odd}

MixInit == Init /\ mix \in {Stages, Mixed}
MixNext == (\E j \in Jobs : j \in mix /\ Step(j)) /\ UNCHANGED mix
MixSpec == MixInit /\ [][MixNext]_<<vars, mix>> /\ \A j \in Stages : Fair(j)
=============================================================================
