----------------------------- MODULE Interview ------------------------------
(***************************************************************************)
(* The interview loop of backend/src/services/interviews.service.ts: the   *)
(* requests of one interview session (start, answer, hint, report) running *)
(* at once against the session row and its messages.                       *)
(*                                                                         *)
(* A request reads the session, the open question and the hints in three   *)
(* queries, calls the model with no lock held, and then writes in one      *)
(* transaction that first takes the session row's lock (the UPDATE of      *)
(* claimTurn, the SELECT ... FOR UPDATE of lockSessionTurn).  Each of these *)
(* is an action, so every other request can move in between.               *)
(*                                                                         *)
(* Stages are 1 .. NumStages, the positions in INTERVIEW_STAGES, and       *)
(* NumStages + 1 is 'report'.  Message texts are left out; a message       *)
(* keeps its kind, its stage and the metadata the code reads back.  The    *)
(* field "to" of an answer and an evaluation (the message the answer was   *)
(* written for) is a ghost: the code does not store it.                    *)
(***************************************************************************)
EXTENDS Integers, Sequences, FiniteSets

CONSTANTS
    Answerers,          \* handlers of POST /:id/answer and /:id/answer/stream
    Hinters,            \* handlers of POST /:id/hint
    Viewers,            \* handlers of GET /:id/report
    Nobody,             \* no handler holds the row lock
    NoReport,           \* report_json IS NULL
    NumStages,          \* Len of INTERVIEW_STAGES
    MaxHints,           \* MAX_HINTS
    MaxStageQuestions,  \* MAX_STAGE_QUESTIONS
    RawScores,          \* scores the evaluation may give
    Modes,              \* modes a session may be started in
    ChallengeEnabled,   \* INTERVIEW_CHALLENGE_ENABLED
    CostCap             \* INTERVIEW_COST_CAP_USD, in model calls

Handlers == Answerers \cup Hinters \cup Viewers
Turns == Answerers \cup Hinters     \* the handlers that begin with loadTurn
Report == NumStages + 1

ASSUME InterviewAssumption ==
    /\ Answerers \cap Hinters = {}
    /\ Turns \cap Viewers = {}
    /\ Nobody \notin Handlers
    /\ NoReport \notin Viewers
    /\ NumStages \in Nat \ {0}
    /\ MaxHints \in Nat
    /\ MaxStageQuestions \in Nat \ {0, 1}
    /\ RawScores \subseteq Nat \ {0}
    /\ Modes \subseteq {"fixed", "agent"}
    /\ ChallengeEnabled \in BOOLEAN
    /\ CostCap \in Nat

VARIABLES
    session,    \* the interview_sessions row
    log,        \* its interview_messages, in created_at order
    scores,     \* reports whose scores were inserted, in order
    lock,       \* the handler whose open transaction holds the row lock
    phase,      \* how far each handler is
    turn,       \* what an answer or hint handler has read and decided
    spent,      \* model calls each handler has made and not charged yet
    served      \* reports shown to a viewer

vars == <<session, log, scores, lock, phase, turn, spent, served>>

------------------------------------------------------------------------------
(* Messages and what the queries over them return *)

Moves == {"open", "challenge", "followup", "probe", "pivot", "advance"}

QuestionMsg(kind, s, move) == [kind |-> kind, stage |-> s, move |-> move]
HintMsg(s, level) == [kind |-> "hint", stage |-> s, level |-> level]
AnswerMsg(s, q) == [kind |-> "answer", stage |-> s, to |-> q]

\* Mutant: the penalty is not floored.
MutantPenalisedNoFloor(raw, hints) == raw - hints

\* A point off per hint, the score never below one (applyHintPenalty).
Penalised(raw, hints) ==
    LET penalty == IF hints < raw - 1 THEN hints ELSE raw - 1
    IN  raw - penalty

EvaluationMsg(s, q, hints, raw) ==
    [kind |-> "evaluation", stage |-> s, to |-> q, hints |-> hints,
     raw |-> raw, score |-> Penalised(raw, hints)]

IsQuestion(m) == m.kind \in {"question", "followup"}

\* findLatestQuestion: q is the last question or follow-up of stage s.
IsLatestQuestion(l, s, q) ==
    /\ q \in 1 .. Len(l)
    /\ IsQuestion(l[q])
    /\ l[q].stage = s
    /\ \A i \in q + 1 .. Len(l) : ~(IsQuestion(l[i]) /\ l[i].stage = s)

\* Mutant: the hints of the whole stage, whichever question they were given on.
MutantHintsOfStage(l, s, q) ==
    {i \in 1 .. Len(l) : l[i].kind = "hint" /\ l[i].stage = s}

\* listHintsSince: the hints of stage s recorded after message q.
HintsSince(l, s, q) ==
    {i \in q + 1 .. Len(l) : l[i].kind = "hint" /\ l[i].stage = s}

\* The recorded evaluations of stage s, as consultAgent filters them.
Evaluations(l, s) == {i \in 1 .. Len(l) : l[i].kind = "evaluation" /\ l[i].stage = s}

------------------------------------------------------------------------------
(* Handlers *)

NoTurn == [stage |-> 0, count |-> 0, spend |-> 0, question |-> 0, hints |-> 0,
           raw |-> 0, wants |-> FALSE, challenged |-> FALSE, move |-> "open"]

NoSession == [status |-> "none", mode |-> "none", stage |-> 0, count |-> 0,
              spend |-> 0, report |-> NoReport]

Init ==
    /\ session = NoSession
    /\ log = <<>>
    /\ scores = <<>>
    /\ lock = Nobody
    /\ phase = [h \in Handlers |-> "idle"]
    /\ turn = [h \in Turns |-> NoTurn]
    /\ spent = [h \in Handlers |-> 0]
    /\ served = {}

\* Spend matters only up to the cap, so the row's total stops counting there.
AddSpend(a, b) == IF a + b < CostCap THEN a + b ELSE CostCap

Step(h, from, to) ==
    /\ phase[h] = from
    /\ phase' = [phase EXCEPT ![h] = to]

\* The request is over but for charging its spend: its locals are gone.
Over(h, from) ==
    /\ Step(h, from, "settle")
    /\ turn' = IF h \in Turns THEN [turn EXCEPT ![h] = NoTurn] ELSE turn

\* startInterview: the opening question is generated first; then one
\* transaction inserts the row and the question.  Its spend is charged after.
Start(a, mode) ==
    /\ session.status = "none"
    /\ Step(a, "idle", "settle")
    /\ session' = [NoSession EXCEPT !.status = "active", !.mode = mode, !.stage = 1]
    /\ log' = <<QuestionMsg("question", 1, "open")>>
    /\ spent' = [spent EXCEPT ![a] = 1]
    /\ UNCHANGED <<scores, lock, turn, served>>

\* loadTurn, first query.  A session that is not active is refused, which
\* changes nothing.
LoadSession(h) ==
    /\ session.status = "active"
    /\ Step(h, "idle", "loaded")
    /\ turn' = [turn EXCEPT ![h] = [@ EXCEPT !.stage = session.stage,
                                             !.count = session.count,
                                             !.spend = session.spend]]
    /\ UNCHANGED <<session, log, scores, lock, spent, served>>

\* loadTurn, second query: the latest question of the stage just read.
FindQuestion(h) ==
    /\ Step(h, "loaded", "found")
    /\ \E q \in 1 .. Len(log) :
          /\ IsLatestQuestion(log, turn[h].stage, q)
          /\ turn' = [turn EXCEPT ![h] = [@ EXCEPT !.question = q]]
    /\ UNCHANGED <<session, log, scores, lock, spent, served>>

HintCount(h) == Cardinality(HintsSince(log, turn[h].stage, turn[h].question))

CountHints(h) ==
    /\ Step(h, "found", "counted")
    /\ turn' = [turn EXCEPT ![h] = [@ EXCEPT !.hints = HintCount(h)]]
    /\ UNCHANGED <<session, log, scores, lock, spent, served>>

------------------------------------------------------------------------------
(* Answering: runTurn *)

\* shouldAskFollowup: the stage's one follow-up is still unused.
ShouldAskFollowup(count) == count < 1

\* Mutant: one question too many.
MutantRoomOffByOne(t) ==
    t.count + 1 <= IF session.mode = "agent" THEN MaxStageQuestions ELSE 2

\* roomInStage: the answered question leaves room for one more.
RoomInStage(t) ==
    t.count + 1 < IF session.mode = "agent" THEN MaxStageQuestions ELSE 2

\* The rule of the fixed flow, and of an agent turn the agent did not decide.
FixedMove(t) ==
    IF ShouldAskFollowup(t.count) /\ t.wants THEN "followup" ELSE "advance"

\* What the question after each move costs: a challenge, a probe and a pivot
\* arrive whole, and finishing asks nothing.
NeedsModel(t, move) == move = "followup" \/ (move = "advance" /\ t.stage < NumStages)

\* The move is all that is kept of what decided it.
Decided(a, move) ==
    /\ Step(a, "graded", IF NeedsModel(turn[a], move) THEN "decided" ELSE "ready")
    /\ turn' = [turn EXCEPT ![a] = [@ EXCEPT !.move = move, !.wants = FALSE,
                                             !.challenged = FALSE, !.spend = 0]]

\* The evaluation and, beside it, the challenge check, which a question without context
\* does not get and which costs a call whatever it answers.
Evaluate(a) ==
    /\ Step(a, "counted", "graded")
    /\ \E raw \in RawScores, wants, checked, challenged \in BOOLEAN :
          /\ checked => ChallengeEnabled /\ ShouldAskFollowup(turn[a].count)
          /\ challenged => checked
          /\ turn' = [turn EXCEPT ![a] = [@ EXCEPT !.raw = raw, !.wants = wants,
                                                   !.challenged = challenged]]
          /\ spent' = [spent EXCEPT ![a] = IF checked THEN 2 ELSE 1]
    /\ UNCHANGED <<session, log, scores, lock, served>>

Challenges(a) == turn[a].challenged /\ RoomInStage(turn[a])

DecideChallenge(a) ==
    /\ Challenges(a)
    /\ Decided(a, "challenge")
    /\ UNCHANGED <<session, log, scores, lock, spent, served>>

UnderCap(a) == turn[a].spend + spent[a] < CostCap

\* Fixed mode, or an agent turn with no room or no budget left for the agent.
DecideByRule(a) ==
    /\ ~Challenges(a)
    /\ session.mode = "agent" => ~RoomInStage(turn[a]) \/ ~UnderCap(a)
    /\ Decided(a, FixedMove(turn[a]))
    /\ UNCHANGED <<session, log, scores, lock, spent, served>>

\* probeStalled: this answer did not beat the last one recorded in the stage.
ProbeStalled(a) ==
    LET score == Penalised(turn[a].raw, turn[a].hints)
        earlier == Evaluations(log, turn[a].stage)
    IN  \E i \in earlier : /\ \A j \in earlier : j <= i
                           /\ score <= log[i].score

\* Mutant: whether to probe again is left to the agent.
MutantProbeAlwaysAllowed(a) == {"pivot", "advance", "probe"}

AllowedMoves(a) == {"pivot", "advance"} \cup (IF ProbeStalled(a) THEN {} ELSE {"probe"})

\* consultAgent: the agent proposes an allowed move; a failed call, a fallback
\* or a move that was not allowed leaves the turn to the fixed rule.
ConsultAgent(a) ==
    /\ session.mode = "agent"
    /\ ~Challenges(a)
    /\ RoomInStage(turn[a])
    /\ UnderCap(a)
    /\ \E move \in AllowedMoves(a) \cup {FixedMove(turn[a])} : Decided(a, move)
    /\ spent' = [spent EXCEPT ![a] = @ + 1]
    /\ UNCHANGED <<session, log, scores, lock, served>>

\* askFollowup or askQuestion, whole or streamed to its end.
AskQuestion(a) ==
    /\ Step(a, "decided", "ready")
    /\ spent' = [spent EXCEPT ![a] = @ + 1]
    /\ UNCHANGED <<session, log, scores, lock, turn, served>>

\* Mutant: the claim does not compare stage_turn_count.
MutantStageIsCurrent(h) ==
    /\ session.status = "active"
    /\ session.stage = turn[h].stage

\* Mutant: the claim does not compare current_stage.
MutantCountIsCurrent(h) ==
    /\ session.status = "active"
    /\ session.count = turn[h].count

\* claimTurn's WHERE: the session still is where the answer found it.
TurnIsCurrent(h) ==
    /\ session.status = "active"
    /\ session.stage = turn[h].stage
    /\ session.count = turn[h].count

\* commitTurn begins: the UPDATE waits for the row, then matches it or not.
ClaimTurn(a) ==
    /\ lock = Nobody
    /\ IF TurnIsCurrent(a)
       THEN Step(a, "ready", "claimed") /\ lock' = a /\ UNCHANGED turn
       ELSE Over(a, "ready") /\ UNCHANGED lock
    /\ UNCHANGED <<session, log, scores, spent, served>>

\* Mutant: the hints are not counted again under the lock.
MutantNoRecount(h) == TRUE

\* No hint was given, or taken back, since this handler counted them.
HintsUnchanged(h) == HintCount(h) = turn[h].hints

\* Mutant: the next stage's question is left to a later request.
MutantAdvanceWithoutQuestion(t) ==
    IF t.move = "advance" THEN <<>>
    ELSE <<QuestionMsg("followup", t.stage, t.move)>>

NextQuestion(t) ==
    CASE t.move \in {"challenge", "followup", "probe"} ->
            <<QuestionMsg("followup", t.stage, t.move)>>
      [] t.move = "pivot" -> <<QuestionMsg("question", t.stage, "pivot")>>
      [] t.move = "advance" /\ t.stage < NumStages ->
            <<QuestionMsg("question", t.stage + 1, "advance")>>
      [] OTHER -> <<>>

TurnMessages(t) ==
    <<AnswerMsg(t.stage, t.question), EvaluationMsg(t.stage, t.question, t.hints, t.raw)>>
        \o NextQuestion(t)

\* The TurnUpdate each move commits.
TurnUpdate(t) ==
    IF t.move # "advance" THEN [session EXCEPT !.count = @ + 1]
    ELSE [session EXCEPT !.stage = t.stage + 1, !.count = 0,
                         !.status = IF t.stage < NumStages THEN "active" ELSE "completed"]

\* The claim's transaction ends: hints recounted, messages written, committed.
CommitTurn(a) ==
    /\ Over(a, "claimed")
    /\ HintsUnchanged(a)
    /\ session' = TurnUpdate(turn[a])
    /\ log' = log \o TurnMessages(turn[a])
    /\ lock' = Nobody
    /\ UNCHANGED <<scores, spent, served>>

------------------------------------------------------------------------------
(* Hints: giveHint *)

\* No rung left, or the next one has not unlocked yet: 409, nothing spent.
RefuseHint(h) ==
    /\ Step(h, "counted", "idle")
    /\ turn' = [turn EXCEPT ![h] = NoTurn]
    /\ UNCHANGED <<session, log, scores, lock, spent, served>>

\* Mutant: one rung too many.
MutantRungOffByOne(h) == turn[h].hints <= MaxHints

RungLeft(h) == turn[h].hints < MaxHints

WriteHint(h) ==
    /\ Step(h, "counted", "ready")
    /\ RungLeft(h)
    /\ spent' = [spent EXCEPT ![h] = 1]
    /\ UNCHANGED <<session, log, scores, lock, turn, served>>

\* Mutant: a plain SELECT, so the row is not locked.
MutantLockTurnUnlocked(h) ==
    /\ lock = Nobody
    /\ IF TurnIsCurrent(h)
       THEN Step(h, "ready", "claimed") /\ UNCHANGED turn
       ELSE Over(h, "ready")
    /\ UNCHANGED <<session, log, scores, lock, spent, served>>

\* lockSessionTurn: SELECT ... FOR UPDATE, then the turn is compared.
LockTurn(h) ==
    /\ lock = Nobody
    /\ IF TurnIsCurrent(h)
       THEN Step(h, "ready", "claimed") /\ lock' = h /\ UNCHANGED turn
       ELSE Over(h, "ready") /\ UNCHANGED lock
    /\ UNCHANGED <<session, log, scores, spent, served>>

RecordHint(h) ==
    /\ Over(h, "claimed")
    /\ HintsUnchanged(h)
    /\ log' = Append(log, HintMsg(turn[h].stage, turn[h].hints + 1))
    /\ lock' = Nobody
    /\ UNCHANGED <<session, scores, spent, served>>

------------------------------------------------------------------------------
(* The report: buildReport *)

\* A stored report is served as it is; otherwise one is generated.
LoadReport(v) ==
    /\ session.status = "completed"
    /\ IF session.report # NoReport
       THEN /\ phase[v] = "idle"
            /\ served' = served \cup {session.report}
            /\ UNCHANGED phase
       ELSE Step(v, "idle", "loaded") /\ UNCHANGED served
    /\ UNCHANGED <<session, log, scores, lock, turn, spent>>

WriteReport(v) ==
    /\ Step(v, "loaded", "ready")
    /\ spent' = [spent EXCEPT ![v] = 1]
    /\ UNCHANGED <<session, log, scores, lock, turn, served>>

\* Mutant: the report is written whether or not one is stored.
MutantReportOverwritten == TRUE

ReportUnclaimed == session.report = NoReport

\* claimReport and the scores, in one transaction.
StoreReport(v) ==
    /\ lock = Nobody
    /\ ReportUnclaimed
    /\ Step(v, "ready", "settle")
    /\ session' = [session EXCEPT !.report = v]
    /\ scores' = Append(scores, v)
    /\ served' = served \cup {v}
    /\ UNCHANGED <<log, lock, turn, spent>>

\* The claim matched nothing: the winner's report is read back and served.
ServeWinner(v) ==
    /\ lock = Nobody
    /\ ~ReportUnclaimed
    /\ Step(v, "ready", "settle")
    /\ served' = served \cup {session.report}
    /\ UNCHANGED <<session, log, scores, lock, turn, spent>>

------------------------------------------------------------------------------
(* Failure, and the end of every request *)

\* A model call or a query fails, or the streaming client leaves while a model
\* call is open: nothing was written.
Fail(h) ==
    /\ phase[h] \in {"loaded", "found", "counted", "graded", "decided", "ready"}
    /\ Over(h, phase[h])
    /\ UNCHANGED <<session, log, scores, lock, spent, served>>

\* Mutant: the connection goes back to the pool without a ROLLBACK.
MutantRollbackForgotten(h) ==
    /\ Over(h, "claimed")
    /\ UNCHANGED <<session, log, scores, lock, spent, served>>

\* A hint came in between (409), or a write failed: ROLLBACK.
Rollback(h) ==
    /\ Over(h, "claimed")
    /\ lock' = Nobody
    /\ UNCHANGED <<session, log, scores, spent, served>>

\* charge: the increment waits for the row lock.  A failure to record it is
\* swallowed.
Settle(h, recorded) ==
    /\ Step(h, "settle", "idle")
    /\ recorded => lock = Nobody
    /\ session' = IF recorded THEN [session EXCEPT !.spend = AddSpend(@, spent[h])]
                  ELSE session
    /\ spent' = [spent EXCEPT ![h] = 0]
    /\ UNCHANGED <<log, scores, lock, turn, served>>

Load(h) == LoadSession(h) \/ FindQuestion(h) \/ CountHints(h)

Answer(a) ==
    \/ Evaluate(a)
    \/ DecideChallenge(a)
    \/ DecideByRule(a)
    \/ ConsultAgent(a)
    \/ AskQuestion(a)
    \/ ClaimTurn(a)
    \/ CommitTurn(a)

GiveHint(h) == RefuseHint(h) \/ WriteHint(h) \/ LockTurn(h) \/ RecordHint(h)

ViewReport(v) == LoadReport(v) \/ WriteReport(v) \/ StoreReport(v) \/ ServeWinner(v)

End(h) == \E recorded \in BOOLEAN : Settle(h, recorded)

Next ==
    \/ \E a \in Answerers, mode \in Modes : Start(a, mode)
    \/ \E h \in Turns : Load(h)
    \/ \E a \in Answerers : Answer(a)
    \/ \E h \in Hinters : GiveHint(h)
    \/ \E v \in Viewers : ViewReport(v)
    \/ \E h \in Handlers : Fail(h) \/ Rollback(h) \/ End(h)

Spec == Init /\ [][Next]_vars

\* The scheduling that progress needs: the candidate keeps sending the answer,
\* a handler that can take its next step takes it, an open transaction ends,
\* and model calls and queries fail only finitely often.  Nobody has to ask for
\* a hint.
Failure(h) == Fail(h) \/ (Rollback(h) /\ HintsUnchanged(h))

Fairness ==
    /\ \A a \in Answerers : WF_vars(Load(a) \/ Answer(a))
    /\ \A h \in Hinters : WF_vars(RecordHint(h))
    /\ \A h \in Handlers : WF_vars(Rollback(h) \/ End(h))
    /\ <>[][\A h \in Turns : ~Failure(h)]_vars

FairSpec == Spec /\ Fairness

------------------------------------------------------------------------------
(* Types *)

Phases == {"idle", "loaded", "found", "counted", "graded", "decided", "ready",
           "claimed", "settle"}

Messages ==
    [kind : {"question", "followup"}, stage : 1 .. NumStages, move : Moves]
        \cup [kind : {"hint"}, stage : 1 .. NumStages, level : Nat]
        \cup [kind : {"answer"}, stage : 1 .. NumStages, to : Nat]
        \cup [kind : {"evaluation"}, stage : 1 .. NumStages, to : Nat, hints : Nat,
              raw : RawScores, score : Nat \ {0}]

Sessions ==
    [status : {"none", "active", "completed"}, mode : Modes \cup {"none"},
     stage : 0 .. Report, count : Nat, spend : 0 .. CostCap,
     report : Viewers \cup {NoReport}]

TurnRecords ==
    [stage : 0 .. NumStages, count : Nat, spend : 0 .. CostCap, question : Nat,
     hints : Nat, raw : RawScores \cup {0}, wants : BOOLEAN, challenged : BOOLEAN,
     move : Moves]

\* Every variable has its type; in particular a recorded score is at least one
\* however many hints were charged to it (applyHintPenalty).
TypeOK ==
    /\ session \in Sessions
    /\ log \in Seq(Messages)
    /\ scores \in Seq(Viewers)
    /\ lock \in Handlers \cup {Nobody}
    /\ phase \in [Handlers -> Phases]
    /\ turn \in [Turns -> TurnRecords]
    /\ spent \in [Handlers -> Nat]
    /\ served \subseteq Viewers

------------------------------------------------------------------------------
(* Safety *)

\* Message q is the question that was open when message i was written: only
\* hints lie between them.
OpenQuestionAt(i, q) ==
    /\ q \in 1 .. i - 1
    /\ IsQuestion(log[q])
    /\ log[q].stage = log[i].stage
    /\ \A j \in q + 1 .. i - 1 : log[j].kind = "hint"

\* A recorded answer answers the question that was open when it was recorded,
\* which is the one it was graded for: an answer to an earlier question is never
\* recorded under a later one, and no question is answered twice (the claim in
\* commitTurn).  Its evaluation stands right behind it (D-057).
AnswersOpenQuestion ==
    \A i \in 1 .. Len(log) : log[i].kind = "answer" =>
        /\ OpenQuestionAt(i, log[i].to)
        /\ i < Len(log)
        /\ log[i + 1].kind = "evaluation"
        /\ log[i + 1].to = log[i].to

\* An evaluation is charged for exactly the hints given on its question before
\* it was recorded: a hint given while an answer is graded is either counted or
\* the answer is refused, never missed (D-066).
HintsCharged ==
    \A i \in 1 .. Len(log) : log[i].kind = "evaluation" =>
        log[i].hints = Cardinality({j \in log[i].to .. i : log[j].kind = "hint"})

\* Every hint was given on the question open at the time, as the next rung of
\* its ladder, and the ladder has MAX_HINTS rungs, whatever requests ran beside
\* it (the lock in giveHint).
HintLadder ==
    \A i \in 1 .. Len(log) : log[i].kind = "hint" =>
        \E q \in 1 .. i - 1 :
            /\ OpenQuestionAt(i, q)
            /\ log[i].level = i - q
            /\ log[i].level <= MaxHints

StageQuestions(s) == {i \in 1 .. Len(log) : IsQuestion(log[i]) /\ log[i].stage = s}

\* No stage asks more than its limit, two questions in fixed mode and
\* MAX_STAGE_QUESTIONS in agent mode, and the session's stage_turn_count is the
\* number of questions of the stage already answered.
QuestionBudget ==
    /\ \A s \in 1 .. NumStages :
          Cardinality(StageQuestions(s)) <=
              IF session.mode = "agent" THEN MaxStageQuestions ELSE 2
    /\ session.status = "active" =>
          session.count + 1 = Cardinality(StageQuestions(session.stage))

\* The last question, with nothing but its hints behind it.
IsOpen(q) == IsQuestion(log[q]) /\ \A j \in q + 1 .. Len(log) : log[j].kind = "hint"

\* An active interview always waits on an unanswered question of the stage it is
\* in; a completed one ends with the evaluation of the last stage.  Nothing is
\* half recorded (D-057).
AwaitsAnswer ==
    /\ session.status = "active" =>
          \E q \in 1 .. Len(log) :
              /\ IsOpen(q)
              /\ log[q].stage = session.stage
    /\ session.status = "completed" =>
          /\ log[Len(log)].kind = "evaluation"
          /\ log[Len(log)].stage = NumStages

\* The transcript goes through the stages in order and skips none: a stage's
\* messages come after an evaluation of the stage before it.
StagesInOrder ==
    \A i \in 1 .. Len(log) :
        /\ \A j \in 1 .. i : log[j].stage <= log[i].stage
        /\ log[i].stage > 1 =>
              \E j \in 1 .. i : log[j].kind = "evaluation" /\ log[j].stage = log[i].stage - 1

\* The agent never probes twice running unless the answer to the first probe
\* scored better than the answer before it (D-067): before every probe, the
\* stage's last two evaluations, if there are two, improve.
ProbesOnlyAfterImprovement ==
    \A i \in 1 .. Len(log) : IsQuestion(log[i]) /\ log[i].move = "probe" =>
        \A j \in 1 .. i - 2 :
            /\ log[j].kind = "evaluation"
            /\ log[j].stage = log[i].stage
            /\ \A k \in j + 1 .. i - 2 : log[k].kind # "evaluation"
            => log[i - 1].score > log[j].score

\* The scores of one report are recorded, once, exactly when that report is
\* stored, and every viewer is shown that report (D-056, D-057).
OneReport ==
    /\ scores = IF session.report = NoReport THEN <<>> ELSE <<session.report>>
    /\ served \subseteq {session.report}

\* Once the interview is completed its transcript is closed: no late answer or
\* hint is added and it never becomes active again.
ClosedWhenCompleted ==
    [][session.status = "completed" => session'.status = "completed" /\ log' = log]_vars

\* The agent is no longer consulted once the interview's recorded spend, with
\* what this turn has spent, reaches the cap (docs/DECISIONS.md D-067).
AgentWithinCap ==
    [][\A a \in Answerers : ConsultAgent(a) => session.spend + spent[a] < CostCap]_vars

\* An interview that was started is completed in the end: failures, rollbacks and hints
\* that make answers be refused cannot hold it up for ever.
InterviewCompletes == session.status = "active" ~> session.status = "completed"

------------------------------------------------------------------------------
(* What the loop promises: InterviewTurns *)

Active == session.status = "active"
OpenQuestion == CHOOSE q \in 1 .. Len(log) : IsOpen(q)
Graded == {i \in 1 .. Len(log) : log[i].kind = "evaluation"}

Promise == INSTANCE InterviewTurns WITH
    stage <- session.stage,
    asked <- IF Active THEN session.count + 1 ELSE 0,
    question <- IF Active THEN OpenQuestion ELSE 0,
    hints <- IF Active THEN Len(log) - OpenQuestion ELSE 0,
    graded <- {[question |-> log[i].to, stage |-> log[i].stage, hints |-> log[i].hints,
                score |-> log[i].score] : i \in Graded},
    report <- session.report,
    Reports <- Viewers

\* The handlers, however they interleave, behave like one turn at a time.
ImplementsTurns == Promise!Spec
=============================================================================
