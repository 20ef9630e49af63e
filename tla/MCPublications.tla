-------------------------- MODULE MCPublications --------------------------
(* RepositoryUpdates and, below it, DirectoryGenerations for TLC: in a        *)
(* behaviour either the projects of a repository follow it, or the directory  *)
(* of one snapshot key is published, read and cleaned up; the other rests.    *)
EXTENDS MCRepositoryUpdates, DirectoryGenerations

\* Publications of the key, and readers of its directory.
CONSTANTS q1, q2, e1, e2

VARIABLE below

PublicationsInit == Init /\ DirectoryInit /\ below \in BOOLEAN

PublicationsNext ==
  /\ \/ ~below /\ Next /\ UNCHANGED dirVars
     \/ below /\ DirectoryNext /\ UNCHANGED vars
  /\ UNCHANGED below

PublicationsSpec ==
  /\ PublicationsInit /\ [][PublicationsNext]_<<vars, dirVars, below>>
  /\ \/ []<>(~below) /\ Fairness
     \/ []<>below /\ DirectoryFairness
=============================================================================
