--------------------------- MODULE SessionWrites ---------------------------
(***************************************************************************)
(* Writes to a session under its permit.  PostgresPiSessionBackend and     *)
(* PostgresStore.updateProject call assertSessionPermit inside the write   *)
(* transaction.  SELECT ... FOR UPDATE keeps the row of the permit until   *)
(* the transaction ends, so the check and the commit are one step for the  *)
(* admission that would delete the row.                                    *)
(*                                                                         *)
(* The writer may be anything that still executes: a holder, an execution  *)
(* whose signal has fired and that unwinds, or a process that was paused   *)
(* for longer than its lease.                                              *)
(***************************************************************************)
EXTENDS CapacityPermits

VARIABLES
  writer,   \* the call, if any, whose write each session saw last
  newest    \* the call, if any, that was admitted last for each session

allVars == <<rows, phase, pending, reply, since, armed, writer, newest>>

InitWrites ==
  /\ Init
  /\ writer = [r \in Resources |-> {}]
  /\ newest = [r \in Resources |-> {}]

\* Mutant: the write transaction does not check the permit.
Unfenced(c) == TRUE

\* assertSessionPermit: the row is there and its lease runs on the database clock.
Fenced(c) == rows[c].state # "none" /\ rows[c].expires > 0

WriteSession(c) ==
  /\ phase[c] \in {"holding", "aborted"}
  /\ Fenced(c)
  /\ writer' = [writer EXCEPT ![ResourceOf[c]] = {c}]
  /\ UNCHANGED <<vars, newest>>

\* History: a row inserted for a session makes its call the newest one.
RecordNewest ==
  newest' = [r \in Resources |->
    LET admitted == {c \in Calls : ResourceOf[c] = r /\ rows[c] = NoRow /\ rows'[c] # NoRow}
    IN IF admitted = {} THEN newest[r] ELSE admitted]

NextWrites ==
  \/ Next /\ RecordNewest /\ UNCHANGED writer
  \/ \E c \in Calls : WriteSession(c)

SpecWrites == InitWrites /\ [][NextWrites]_allVars

-----------------------------------------------------------------------------
\* A session is never written by an execution that a later admission to the same
\* session has superseded, even when processes pause for longer than a lease.
NoSupersededWrite ==
  [][\A r \in Resources : writer'[r] # writer[r] => writer'[r] = newest[r]]_allVars
=============================================================================
