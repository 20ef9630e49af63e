-------------------------- MODULE MCSnapshotReuse --------------------------
(* SnapshotRetention for TLC: the head may return to an older commit.        *)
EXTENDS SnapshotRetention

CONSTANT d1
=============================================================================
