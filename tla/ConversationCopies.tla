------------------------ MODULE ConversationCopies ------------------------
(***************************************************************************)
(* ConversationTurns beside a request for a new analysis.                  *)
(*                                                                         *)
(* RepositoryService.startAnalysis() reads the whole project, transcript   *)
(* and study included, asks GitHub for the head of the repository, and     *)
(* then saves the project it has read.  It takes no permit of the chat.    *)
(***************************************************************************)
EXTENDS ConversationTurns

VARIABLE copy       \* the row that startAnalysis() has read

InitCopies == Init /\ copy = None

ReadCopy ==
    /\ copy = None /\ copy' = row
    /\ UNCHANGED vars

\* saveProject(): the study is replaced, every message that differs is
\* written back, and one that was removed is inserted again at the end.
Upserted(msgs, old) ==
    LET Same(m) == At(old, m.role, m.id)
        Missing(m) == At(msgs, m.role, m.id) = 0
    IN [i \in DOMAIN msgs |-> IF Same(msgs[i]) # 0 THEN old[Same(msgs[i])] ELSE msgs[i]]
         \o SelectSeq(old, Missing)

SaveCopy ==
    /\ copy # None /\ copy' = None
    /\ row' = [copy EXCEPT !.msgs = Upserted(row.msgs, copy.msgs)]
    /\ UNCHANGED <<branches, lane, chat, session, budget, runs, faults, history>>

NextCopies ==
    \/ Next /\ UNCHANGED copy
    \/ ReadCopy
    \/ SaveCopy

SpecCopies == InitCopies /\ [][NextCopies]_<<vars, copy>>

-----------------------------------------------------------------------------
\* The steps that a learner has confirmed and the routes built for them
\* survive a request to analyse the repository again.
ProgressSurvives == row.study.step = credit.step /\ row.study.rev = credit.rev
=============================================================================
