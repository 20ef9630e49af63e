----------------------- MODULE MCRepositoryUpdates -----------------------
(* RepositoryUpdates for TLC: project 1 in one language, 2 and 3 in another. *)
EXTENDS RepositoryUpdates

CONSTANTS a, b, c, zh, en

TwoLanguages == [p \in Projects |-> IF p = 1 THEN zh ELSE en]
OneEach == [d \in Clients |-> CASE d = a -> 1 [] d = b -> 2 [] d = c -> 3]
=============================================================================
