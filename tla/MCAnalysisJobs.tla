-------------------------- MODULE MCAnalysisJobs --------------------------
(* AnalysisJobs for TLC: two processes, the first of which may stop or die. *)
(* Either both have one loop, or the first has two.                         *)
EXTENDS AnalysisJobs, TLC

CONSTANTS w1, w2, a, b, c

MCWorkers == {w1, w2}
MCLanes == {a, b, c}
MCWorkerOf == a :> w1 @@ b :> w1 @@ c :> w2
MCMortal == {w1}

Pair == {a, c}

LoopsInit == Init /\ loops \in {Pair, MCLanes}
LoopsSpec == LoopsInit /\ [][Next]_vars /\ Fairness
=============================================================================
