------------------------- MODULE ConversationTurns -------------------------
(***************************************************************************)
(* The turns of one conversation and the learning actions decided in it.   *)
(*                                                                         *)
(* A request is a lane: ConversationService.run() asks for an answer to a  *)
(* new or an edited message, resolveLearningAction() decides on the card   *)
(* an answer carries.  Both hold the chat permit of the project.  A turn   *)
(* then writes two stores that share no transaction: the row of the        *)
(* project (transcript and study), and the branch of the session that is   *)
(* the model's context.  In between the model runs, the process may stall  *)
(* beyond its leases or die, and reads of the project move its study to a  *)
(* new snapshot without asking for the permit.                             *)
(*                                                                         *)
(* The permits are taken as what PermitPool promises.  A lane that loses   *)
(* its chat permit normally sees its signal aborted before it writes again *)
(* (Abandon); a turn may also be stalled in the middle of a store call     *)
(* (Stall), and is then stopped only by the fence of that call.            *)
(***************************************************************************)
EXTENDS Naturals, FiniteSets, SequencesExt

CONSTANTS
    Lanes,          \* requests in work, in any number of processes
    None, Gone,     \* nobody; a holder that died, its lease not yet over
    Budgets,        \* bounds: requests begun, snapshots published, stalls and
                    \* crashes, and the capacity of the chat history
    Steps           \* steps of a learning route

ASSUME TurnsAssumption ==
    /\ None \notin Lanes /\ Gone \notin Lanes /\ None # Gone
    /\ Budgets \subseteq [runs : Nat, messages : Nat, snapshots : Nat \ {0}, faults : Nat]
    /\ Steps \in Nat

VARIABLES
    row,            \* the project: transcript, study and current snapshot
    branches,       \* per snapshot, the active branch of its session
    lane,           \* per lane, the request it works on
    chat,           \* holder of the project's chat permit
    session,        \* holder of the session permit
    budget,         \* the bounds of this behaviour, one of Budgets
    runs, faults,   \* counters
    \* history of the study changes that were accepted
    credit,         \* the step and revision they add up to, and their number
    executed        \* the actions that were executed, with their message

vars == <<row, branches, lane, chat, session, budget, runs, faults, credit, executed>>
stores == <<row, branches>>
history == <<credit, executed>>

-----------------------------------------------------------------------------
(* Records.                                                                *)

NoCard ==
    [kind |-> "none", snap |-> 0, rev |-> 0, step |-> 0, proof |-> 0,
     source |-> 0, status |-> "none", run |-> 0, due |-> FALSE]

Card(kind, study, source) ==
    [kind |-> kind, snap |-> study.snap, rev |-> study.rev, step |-> study.step, proof |-> study.pass,
     source |-> source, status |-> "pending", run |-> 0, due |-> FALSE]

UserMessage(id, run, text, applied) ==
    [role |-> "user", id |-> id, run |-> run, text |-> text, applied |-> applied, ok |-> TRUE, card |-> NoCard]

AnswerMessage(run, ok, card) ==
    [role |-> "assistant", id |-> run, run |-> run, text |-> 0, applied |-> 0, ok |-> ok, card |-> card]

Idle == [pc |-> "idle"]

Init ==
    /\ budget \in Budgets
    /\ row = [msgs |-> << >>, snap |-> 1, study |-> [snap |-> 1, rev |-> 0, step |-> 0, total |-> 0, pass |-> 0]]
    /\ branches = [s \in 1 .. budget.snapshots |-> << >>]
    /\ lane = [l \in Lanes |-> Idle]
    /\ chat = None /\ session = None
    /\ runs = 0 /\ faults = 0
    /\ credit = [step |-> 0, rev |-> 0, count |-> 0]
    /\ executed = {}

-----------------------------------------------------------------------------
(* The transcript.                                                         *)

LastUser(msgs) == SelectLastInSeq(msgs, LAMBDA m : m.role = "user")
Users(msgs) == {i \in DOMAIN msgs : msgs[i].role = "user"}
At(msgs, role, id) == SelectInSeq(msgs, LAMBDA m : m.role = role /\ m.id = id)

\* The answer that an edit of message i replaces, 0 if it has none.
AnswerTo(msgs, i) ==
    LET j == SelectInSeq(SubSeq(msgs, i + 1, Len(msgs)), LAMBDA m : m.role = "assistant" /\ m.ok)
    IN IF j = 0 THEN 0 ELSE i + j

\* A first read of the project on a new snapshot carries the study over.
Migrated(r) ==
    IF r.study.snap = r.snap THEN r
    ELSE [r EXCEPT !.study = [r.study EXCEPT !.snap = r.snap, !.rev = r.study.rev + 1, !.pass = 0]]

Migrates == row.study.snap # row.snap

-----------------------------------------------------------------------------
(* Permits.                                                                *)

Released(l) ==
    /\ chat' = IF chat = l THEN None ELSE chat
    /\ session' = IF session = l THEN None ELSE session

End(l) == lane' = [lane EXCEPT ![l] = Idle] /\ Released(l)
Goto(l, pc) == lane' = [lane EXCEPT ![l].pc = pc] /\ UNCHANGED <<chat, session>>
Is(l, pc) == lane[l].pc = pc

\* assertSessionPermit() around every write of a turn.
Fenced(l) == session # l

-----------------------------------------------------------------------------
(* A turn: admission and the copy of the project it works on.              *)

\* The same message again, when its action has been executed: the saved
\* answer is shown again.
Replays(msgs, i, snap, same) ==
    LET j == AnswerTo(msgs, i) IN
    /\ same /\ msgs[i].applied # 0 /\ j # 0
    /\ msgs[j].card # NoCard =>
         /\ msgs[j].card.status = "executed" /\ msgs[j].card.source = msgs[i].id
         /\ msgs[j].id = msgs[i].applied /\ msgs[j].card.snap = snap

\* Mutant: an edit starts with a clean message.
AppliedForEachRun(msgs, i) == 0

\* An edit keeps the identity of the message and what it has authorised.
Applied(msgs, i) ==
    IF msgs[i].applied # 0 THEN msgs[i].applied
    ELSE LET j == AnswerTo(msgs, i)
         IN IF j # 0 /\ msgs[j].card # NoCard /\ msgs[j].card.status = "executed" THEN msgs[j].id ELSE 0

\* assertChatHistoryCapacity(), here in rounds only.
Room(msgs, edits) == Cardinality(Users(msgs)) - (IF edits THEN 1 ELSE 0) < budget.messages

\* A message of its own, or the last one edited (or, with its text
\* unchanged, tried again).
Start(l, edits, same) ==
    /\ Is(l, "idle") /\ chat = None /\ runs < budget.runs
    /\ same => edits
    /\ LET r == Migrated(row)
           i == LastUser(r.msgs)
           run == runs + 1
       IN /\ edits => i # 0
          /\ Room(r.msgs, edits)
          /\ row' = r
          /\ credit' = IF Migrates THEN [credit EXCEPT !.rev = @ + 1] ELSE credit
          /\ lane' = [lane EXCEPT ![l] =
               [pc |-> IF edits /\ Replays(r.msgs, i, r.snap, same) THEN "replay" ELSE "prepare",
                run |-> run, edits |-> edits, read |-> r, leaf |-> << >>, result |-> None,
                user |-> IF edits
                         THEN UserMessage(r.msgs[i].id, run, IF same THEN r.msgs[i].text ELSE run, Applied(r.msgs, i))
                         ELSE UserMessage(run, run, run, 0)]]
    /\ chat' = l /\ runs' = runs + 1
    /\ UNCHANGED <<branches, session, budget, faults, executed>>

Renumbered(msgs, places, run) ==
    [n \in DOMAIN msgs |-> IF n \in places THEN [msgs[n] EXCEPT !.run = run] ELSE msgs[n]]

Replay(l) ==
    /\ Is(l, "replay")
    /\ LET msgs == row.msgs
           i == LastUser(msgs)
           old == lane[l].read.msgs
           k == LastUser(old)
           j == AnswerTo(msgs, i)
       IN row' = IF i # 0 /\ j # 0 /\ msgs[i] = old[k] /\ msgs[j] = old[AnswerTo(old, k)]
                    /\ Replays(msgs, i, lane[l].read.snap, TRUE)
                 THEN [row EXCEPT !.msgs = Renumbered(msgs, {i, j}, lane[l].run)]
                 ELSE row
    /\ End(l)
    /\ UNCHANGED <<branches, budget, runs, faults, history>>

-----------------------------------------------------------------------------
(* The session: opened, cut back for an edit, restored if the turn cannot  *)
(* begin.                                                                  *)

TurnMark(id) == <<"turn", id>>
AnswerMark(id) == <<"answer", id>>

Visible(msgs) ==
    LET answers == {i \in DOMAIN msgs : msgs[i].role = "assistant" /\ msgs[i].ok}
        inOrder == CHOOSE s \in [1 .. Cardinality(answers) -> answers] : \A i, k \in DOMAIN s : i < k => s[i] < s[k]
    IN [n \in DOMAIN inOrder |-> AnswerMark(msgs[inOrder[n]].id)]

\* Mutant: an edit keeps the branch of the turn it replaces.
CutNever(branch, l) == branch

\* The branch before the edited turn; without a marker of it, what the
\* transcript shows before the message.
Cut(branch, l) ==
    LET id == lane[l].user.id
        i == SelectLastInSeq(branch, LAMBDA e : e = TurnMark(id))
        msgs == lane[l].read.msgs
    IN IF i # 0 THEN SubSeq(branch, 1, i - 1) ELSE Visible(SubSeq(msgs, 1, At(msgs, "user", id) - 1))

Branch(l) == branches[lane[l].read.snap]

Prepare(l) ==
    /\ Is(l, "prepare") /\ session = None /\ chat = l
    /\ session' = l
    /\ branches' = [branches EXCEPT ![lane[l].read.snap] =
                      Append(IF lane[l].edits THEN Cut(Branch(l), l) ELSE Branch(l), TurnMark(lane[l].user.id))]
    /\ lane' = [lane EXCEPT ![l] = [lane[l] EXCEPT !.pc = "begin", !.leaf = Branch(l)]]
    /\ UNCHANGED <<row, chat, budget, runs, faults, history>>

\* beforePrompt(): the question enters the transcript, an edited one in
\* place of itself and everything after it.
MayBegin(l) ==
    LET i == LastUser(row.msgs)
        old == lane[l].read.msgs
    IN /\ Room(row.msgs, lane[l].edits)
       /\ lane[l].edits => /\ i # 0 /\ row.msgs[i].id = lane[l].user.id
                           /\ row.msgs[i].text = old[LastUser(old)].text

\* Mutant: an edited question keeps what follows it.
AskedKeeping(l) ==
    IF lane[l].edits THEN [row.msgs EXCEPT ![At(row.msgs, "user", lane[l].user.id)] = lane[l].user]
    ELSE Append(row.msgs, lane[l].user)
Asked(l) ==
    Append(IF lane[l].edits THEN SubSeq(row.msgs, 1, At(row.msgs, "user", lane[l].user.id) - 1) ELSE row.msgs,
           lane[l].user)

Begin(l) ==
    /\ Is(l, "begin")
    /\ IF ~Fenced(l) /\ MayBegin(l)
       THEN row' = [row EXCEPT !.msgs = Asked(l)] /\ Goto(l, "running")
       ELSE row' = row /\ Goto(l, "undo")
    /\ UNCHANGED <<branches, budget, runs, faults, history>>

Undo(l) ==
    /\ Is(l, "undo")
    /\ branches' = IF Fenced(l) THEN branches ELSE [branches EXCEPT ![lane[l].read.snap] = lane[l].leaf]
    /\ End(l)
    /\ UNCHANGED <<row, budget, runs, faults, history>>

-----------------------------------------------------------------------------
(* The model answers: it may judge the learner's answer (the proof that    *)
(* the step was understood) and propose one action, unless this message    *)
(* has already authorised one.                                             *)

Proposals(l, study) ==
    IF lane[l].user.applied # 0 THEN {"none"}
    ELSE {"none", "route"} \cup (IF study.pass # 0 /\ study.step < study.total THEN {"advance"} ELSE {})

Answers(l, result) ==
    lane' = [lane EXCEPT ![l] = [lane[l] EXCEPT !.pc = "saving", !.result = result]]

Answer(l) ==
    /\ Is(l, "running")
    /\ \/ \E passes \in {FALSE} \cup {lane[l].read.study.step < lane[l].read.study.total} :
            LET study == IF passes THEN [lane[l].read.study EXCEPT !.pass = lane[l].run] ELSE lane[l].read.study
            IN \E kind \in Proposals(l, study) :
                 Answers(l, [ok |-> TRUE, study |-> study,
                             card |-> IF kind = "none" THEN NoCard ELSE Card(kind, study, lane[l].user.id)])
       \* failed or cancelled: a notice instead of an answer
       \/ Answers(l, [ok |-> FALSE, study |-> lane[l].read.study, card |-> NoCard])
    /\ UNCHANGED <<stores, chat, session, budget, runs, faults, history>>

\* finalize(): the answer is added to the row as it is now, never to the
\* copy that the turn began with.
StudyTaken(l) == lane[l].result.study # lane[l].read.study

\* Mutant: the study is replaced whatever happened to it.
MaySaveOver(l) ==
    LET i == LastUser(row.msgs)
    IN i # 0 /\ row.msgs[i].id = lane[l].user.id /\ row.msgs[i].run = lane[l].run
MaySave(l) ==
    LET i == LastUser(row.msgs)
    IN /\ i # 0 /\ row.msgs[i].id = lane[l].user.id /\ row.msgs[i].run = lane[l].run
       /\ StudyTaken(l) => row.study = lane[l].read.study

\* A newer proof makes the cards of an older one void.
Superseded(card, study) ==
    /\ card.kind = "advance" /\ card.status \in {"pending", "confirmed", "failed"}
    /\ ~(card.step = study.step /\ card.snap = row.snap /\ card.rev = study.rev /\ card.proof = study.pass)

Expired(msgs, study) ==
    [i \in DOMAIN msgs |-> IF msgs[i].card # NoCard /\ Superseded(msgs[i].card, study)
                           THEN [msgs[i] EXCEPT !.card = [msgs[i].card EXCEPT !.status = "expired"]] ELSE msgs[i]]

Saved(l) ==
    LET res == lane[l].result
        msgs == Append(row.msgs, AnswerMessage(lane[l].run, res.ok, res.card))
    IN IF StudyTaken(l) THEN [row EXCEPT !.msgs = Expired(msgs, res.study), !.study = res.study]
       ELSE [row EXCEPT !.msgs = msgs]

Save(l) ==
    /\ Is(l, "saving")
    /\ IF ~Fenced(l) /\ MaySave(l)
       THEN row' = Saved(l) /\ Goto(l, "commit")
       ELSE row' = row /\ End(l)
    /\ UNCHANGED <<branches, budget, runs, faults, history>>

\* commitSession(): a notice is not part of the context.
Commit(l) ==
    /\ Is(l, "commit")
    /\ branches' = IF Fenced(l) \/ ~lane[l].result.ok THEN branches
                   ELSE [branches EXCEPT ![lane[l].read.snap] = Append(Branch(l), AnswerMark(lane[l].run))]
    /\ End(l)
    /\ UNCHANGED <<row, budget, runs, faults, history>>

-----------------------------------------------------------------------------
(* A decision on a card.                                                   *)

Retryable(card) == card.status \in {"pending", "failed"} \/ (card.status = "confirmed" /\ card.due)
Current(card) == card.snap = row.snap /\ card.rev = row.study.rev /\ card.step = row.study.step

Position(l) == At(row.msgs, "assistant", lane[l].action)
Decided(l) == row.msgs[Position(l)].card

Decide(l, decision) ==
    /\ Is(l, "idle") /\ chat = None /\ runs < budget.runs
    /\ \E i \in DOMAIN row.msgs :
         /\ row.msgs[i].card # NoCard /\ Retryable(row.msgs[i].card)
         /\ lane' = [lane EXCEPT ![l] = [run |-> runs + 1, action |-> row.msgs[i].id,
              pc |-> IF ~Current(row.msgs[i].card) THEN "expire"
                     ELSE IF decision = "decline" THEN "decline"
                     ELSE IF row.msgs[i].card.kind = "route" THEN "reserve" ELSE "execute"]]
    /\ chat' = l /\ runs' = runs + 1
    /\ UNCHANGED <<stores, session, budget, faults, history>>

\* One updateProject(): the card gets a new status if it may still be decided.
WithCard(i, card) == [row EXCEPT !.msgs = [row.msgs EXCEPT ![i] = [row.msgs[i] EXCEPT !.card = card]]]
WithStatus(l, status) == WithCard(Position(l), [Decided(l) EXCEPT !.status = status])

Mark(l, status) ==
    /\ row' = IF Position(l) # 0 /\ Retryable(Decided(l)) THEN WithStatus(l, status) ELSE row
    /\ End(l)
    /\ UNCHANGED <<branches, budget, runs, faults, history>>

Decline(l) == Is(l, "decline") /\ Mark(l, "declined")
Expire(l) == Is(l, "expire") /\ Mark(l, "expired")

\* recordLearningActionResult(): the message that asked for the action.
Source(l) == At(row.msgs, "user", Decided(l).source)
Unspent(l) == Source(l) # 0 => row.msgs[Source(l)].applied \in {0, lane[l].action}

ActionRecorded(l) ==
    [i \in DOMAIN row.msgs |->
        IF i = Position(l) THEN [row.msgs[i] EXCEPT !.card = [Decided(l) EXCEPT !.status = "executed", !.due = FALSE]]
        ELSE IF i = Source(l) THEN [row.msgs[i] EXCEPT !.applied = lane[l].action]
        ELSE row.msgs[i]]

\* The action changes the study, its card and its message in one transaction.
Apply(l, step, total) ==
    /\ row' = [row EXCEPT !.msgs = ActionRecorded(l),
                        !.study = [row.study EXCEPT !.step = step, !.total = total, !.rev = row.study.rev + 1, !.pass = 0]]
    /\ credit' = [step |-> step, rev |-> credit.rev + 1, count |-> credit.count + 1]
    /\ executed' = executed \cup {[action |-> lane[l].action, source |-> Decided(l).source]}

Proven(card) == row.study.pass # 0 /\ card.proof = row.study.pass

Execute(l) ==
    /\ Is(l, "execute")
    /\ IF Position(l) # 0 /\ Retryable(Decided(l))
       THEN IF Current(Decided(l)) /\ Proven(Decided(l))
            THEN IF Unspent(l) THEN Apply(l, row.study.step + 1, row.study.total) ELSE UNCHANGED <<row, history>>
            ELSE row' = WithStatus(l, "expired") /\ UNCHANGED history
       ELSE UNCHANGED <<row, history>>
    /\ End(l)
    /\ UNCHANGED <<branches, budget, runs, faults>>

\* A route is generated by a model: reserved, generated, completed or failed.
Reserve(l) ==
    /\ Is(l, "reserve")
    /\ IF Position(l) # 0 /\ Retryable(Decided(l)) /\ Current(Decided(l))
       THEN /\ row' = WithCard(Position(l), [Decided(l) EXCEPT !.status = "confirmed", !.run = lane[l].run, !.due = FALSE])
            /\ Goto(l, "generate")
       ELSE row' = row /\ End(l)
    /\ UNCHANGED <<branches, budget, runs, faults, history>>

Reserved(l) == Position(l) # 0 /\ Decided(l).status = "confirmed" /\ Decided(l).run = lane[l].run

Complete(l) ==
    /\ Is(l, "generate")
    /\ IF Reserved(l) /\ Current(Decided(l)) /\ Unspent(l)
       THEN Apply(l, 0, Steps) /\ End(l)
       ELSE UNCHANGED <<row, history>> /\ Goto(l, "fail")
    /\ UNCHANGED <<branches, budget, runs, faults>>

\* No usable route, an aborted signal or the deadline of three minutes.
GenerationFails(l) ==
    /\ Is(l, "generate") /\ Goto(l, "fail")
    /\ UNCHANGED <<stores, budget, runs, faults, history>>

Fail(l) ==
    /\ Is(l, "fail")
    /\ row' = IF Reserved(l) THEN WithStatus(l, "failed") ELSE row
    /\ End(l)
    /\ UNCHANGED <<branches, budget, runs, faults, history>>

\* run_expires_at passes: three minutes after the reservation, when the lane
\* that made it, whose own deadline began earlier, has given up or is gone.
Due ==
    /\ \E i \in DOMAIN row.msgs :
         /\ row.msgs[i].card # NoCard /\ row.msgs[i].card.status = "confirmed" /\ ~row.msgs[i].card.due
         /\ \A l \in Lanes : Is(l, "generate") => lane[l].run # row.msgs[i].card.run
         /\ row' = WithCard(i, [row.msgs[i].card EXCEPT !.due = TRUE])
    /\ UNCHANGED <<branches, lane, chat, session, budget, runs, faults, history>>

-----------------------------------------------------------------------------
(* Faults.                                                                 *)

TurnOpen(l) == lane[l].pc \in {"begin", "undo", "running", "saving", "commit"}

\* A signal aborts: the wait for the session runs out, the client cancels, a
\* permit is lost and the watchdog fires.  A decision that lost its permit
\* still reports its failure, which is not bound to the permit.
Abandon(l) ==
    /\ \/ Is(l, "begin") /\ Goto(l, "undo")
       \/ Is(l, "generate") /\ lane' = [lane EXCEPT ![l].pc = "fail"] /\ Released(l)
       \/ lane[l].pc \notin {"idle", "begin", "generate", "fail"} /\ End(l)
    /\ UNCHANGED <<stores, budget, runs, faults, history>>

\* The process stalls for longer than both leases, in a call to a store.
Stall(l) ==
    /\ faults < budget.faults /\ TurnOpen(l) /\ session = l
    /\ Released(l) /\ faults' = faults + 1
    /\ UNCHANGED <<stores, lane, budget, runs, history>>

Crash(l) ==
    /\ faults < budget.faults /\ ~Is(l, "idle")
    /\ lane' = [lane EXCEPT ![l] = Idle]
    /\ chat' = IF chat = l THEN Gone ELSE chat
    /\ session' = IF session = l THEN Gone ELSE session
    /\ faults' = faults + 1
    /\ UNCHANGED <<stores, budget, runs, history>>

\* The leases of a dead process run out.
Reclaim ==
    /\ \/ chat = Gone /\ chat' = None /\ UNCHANGED session
       \/ session = Gone /\ session' = None /\ UNCHANGED chat
    /\ UNCHANGED <<stores, lane, budget, runs, faults, history>>

-----------------------------------------------------------------------------
(* Other writers of the project.                                           *)

\* A publication of RepositoryUpdates reaches the project.
Publish ==
    /\ row.snap < budget.snapshots
    /\ row' = [row EXCEPT !.snap = @ + 1]
    /\ UNCHANGED <<branches, lane, chat, session, budget, runs, faults, history>>

\* A read of the project, without any permit.
Migrate ==
    /\ Migrates
    /\ row' = Migrated(row)
    /\ credit' = [credit EXCEPT !.rev = @ + 1]
    /\ UNCHANGED <<branches, lane, chat, session, budget, runs, faults, executed>>

-----------------------------------------------------------------------------
Next ==
    \/ \E l \in Lanes :
         \/ \E edits, same \in BOOLEAN : Start(l, edits, same)
         \/ Replay(l) \/ Prepare(l) \/ Begin(l) \/ Undo(l) \/ Answer(l) \/ Save(l) \/ Commit(l)
         \/ \E decision \in {"confirm", "decline"} : Decide(l, decision)
         \/ Decline(l) \/ Expire(l) \/ Execute(l)
         \/ Reserve(l) \/ Complete(l) \/ GenerationFails(l) \/ Fail(l)
         \/ Abandon(l) \/ Stall(l) \/ Crash(l)
    \/ Due \/ Reclaim \/ Publish \/ Migrate

Spec == Init /\ [][Next]_vars

-----------------------------------------------------------------------------
(* Properties.                                                             *)

\* Every record is well formed.
TypeOK ==
    /\ row.snap \in 1 .. budget.snapshots
    /\ row.study \in [snap : 1 .. row.snap, rev : Nat, step : 0 .. row.study.total, total : {0, Steps}, pass : 0 .. runs]
    /\ \A i \in DOMAIN row.msgs : row.msgs[i].role \in {"user", "assistant"} /\ row.msgs[i].id \in 1 .. runs
    /\ Cardinality(Users(row.msgs)) <= budget.messages
    /\ \A s \in DOMAIN branches : \A i \in DOMAIN branches[s] : branches[s][i] \in {"turn", "answer"} \X (1 .. runs)
    /\ chat \in Lanes \cup {None, Gone} /\ session \in Lanes \cup {None, Gone}

\* Every answer directly follows the question of its own run, whatever was
\* edited, retried or replayed, and whatever stalled turn came back.
AnswersPaired ==
    \A i \in DOMAIN row.msgs : row.msgs[i].role = "assistant" =>
        /\ i > 1 /\ row.msgs[i - 1].role = "user"
        /\ row.msgs[i - 1].run = row.msgs[i].run

\* The model's context holds no answer that the user does not see: an answer
\* that was replaced is in neither of the two stores, although they are
\* written one after the other by turns that may stall, fail or die.
ContextFaithful ==
    \A i \in DOMAIN branches[row.snap] :
        LET e == branches[row.snap][i]
        IN e[1] = "answer" => At(row.msgs, "assistant", e[2]) # 0

\* One message of the user authorises at most one action, and no action is
\* executed twice, through edits, retries and replays.
OneActionPerMessage ==
    /\ credit.count = Cardinality(executed)
    /\ \A x, y \in executed : x.source = y.source => x = y

\* No accepted change of the study is lost: an executed step, a new route
\* or a migration that happened while a model was running.
ProgressKept == row.study.step = credit.step /\ row.study.rev = credit.rev

\* While a route is being generated under the permit, its reservation
\* stands: no failure or completion reported by an earlier, abandoned
\* generation of the same card ends it.
ReservationKept ==
    \A l \in Lanes : Is(l, "generate") /\ chat = l /\ Position(l) # 0 => Reserved(l)

\* What the user has confirmed is neither undone nor given up.
ConfirmedKept == ProgressKept /\ ReservationKept
=============================================================================
