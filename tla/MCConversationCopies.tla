----------------------- MODULE MCConversationCopies -----------------------
(* A short conversation without faults or publications, and one copy.      *)
EXTENDS ConversationCopies

MCBudgets == {[runs |-> 3, messages |-> 2, snapshots |-> 1, faults |-> 0]}
=============================================================================
