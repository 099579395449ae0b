--------------------------- MODULE InterviewProofs --------------------------
(***************************************************************************)
(* Theorems of Interview.tla for every number of handlers, stages, rungs,  *)
(* questions per stage and scores: its types, and what the row lock and    *)
(* the claims keep however the requests of one session interleave; and     *)
(* that together they behave like the interview of InterviewTurns, with    *)
(* one turn at a time.                                                     *)
(***************************************************************************)
EXTENDS Interview, FiniteSetTheorems, TLAPS

USE InterviewAssumption

------------------------------------------------------------------------------
(* Lemmas about the messages *)

\* A hint count is a natural number.
LEMMA HintCountIsNat ==
    ASSUME NEW l, NEW s, NEW q \in Nat, Len(l) \in Nat
    PROVE  /\ IsFiniteSet(HintsSince(l, s, q))
           /\ Cardinality(HintsSince(l, s, q)) \in Nat
<1>1. IsFiniteSet(q + 1 .. Len(l))
    BY FS_Interval
<1>2. HintsSince(l, s, q) \subseteq q + 1 .. Len(l)
    BY DEF HintsSince
<1>3. IsFiniteSet(HintsSince(l, s, q))
    BY <1>1, <1>2, FS_Subset
<1> QED
    BY <1>3, FS_CardinalityType

\* applyHintPenalty leaves at least one point.
LEMMA PenalisedIsPositive ==
    ASSUME NEW raw \in RawScores, NEW hints \in Nat
    PROVE  Penalised(raw, hints) \in Nat \ {0}
BY DEF Penalised

\* What a committed turn appends are messages.
LEMMA TurnMessagesAreMessages ==
    ASSUME NEW t \in TurnRecords, t.stage # 0, t.raw # 0
    PROVE  TurnMessages(t) \in Seq(Messages)
<1>1. AnswerMsg(t.stage, t.question) \in Messages
    BY DEF AnswerMsg, Messages, TurnRecords
<1>2. EvaluationMsg(t.stage, t.question, t.hints, t.raw) \in Messages
    <2>1. t.raw \in RawScores /\ t.hints \in Nat
        BY DEF TurnRecords
    <2>2. Penalised(t.raw, t.hints) \in Nat \ {0}
        BY <2>1, PenalisedIsPositive
    <2> QED
        BY <2>1, <2>2 DEF EvaluationMsg, Messages, TurnRecords
<1>3. NextQuestion(t) \in Seq(Messages)
    <2> DEFINE s == t.stage
    <2>1. s \in 1 .. NumStages
        BY DEF TurnRecords
    <2>2. QuestionMsg("followup", s, t.move) \in Messages
        BY <2>1 DEF QuestionMsg, Messages, TurnRecords
    <2>3. QuestionMsg("question", s, "pivot") \in Messages
        BY <2>1 DEF QuestionMsg, Messages, Moves
    <2>4. s < NumStages => QuestionMsg("question", s + 1, "advance") \in Messages
        BY <2>1 DEF QuestionMsg, Messages, Moves
    <2> QED
        BY <2>2, <2>3, <2>4 DEF NextQuestion
<1>4. <<AnswerMsg(t.stage, t.question),
        EvaluationMsg(t.stage, t.question, t.hints, t.raw)>> \in Seq(Messages)
    BY <1>1, <1>2
<1> QED
    BY <1>3, <1>4 DEF TurnMessages

------------------------------------------------------------------------------
(* Type correctness *)

\* The fields a handler in phase p has filled in; TypeOK alone is not inductive,
\* since a commit writes those fields into the transcript.
Filled(h, p, t) ==
    /\ p \notin {"idle", "settle"} => t.stage \in 1 .. NumStages
    /\ h \in Answerers /\ p \in {"graded", "decided", "ready", "claimed"}
           => t.raw \in RawScores

StageInRange == session.status = "active" => session.stage \in 1 .. NumStages

TypeInv ==
    /\ TypeOK
    /\ StageInRange
    /\ \A h \in Turns : Filled(h, phase[h], turn[h])

\* What an action that moves one handler leaves to be shown of the handlers.
HandlersInv ==
    /\ phase \in [Handlers -> Phases]
    /\ turn \in [Turns -> TurnRecords]
    /\ \A h \in Turns : Filled(h, phase[h], turn[h])

\* One turn handler moves on and its turn record is replaced.
LEMMA TurnStep ==
    ASSUME TypeInv, NEW h \in Turns, NEW from, NEW to \in Phases, NEW t \in TurnRecords,
           Step(h, from, to), turn' = [turn EXCEPT ![h] = t], Filled(h, to, t)
    PROVE  HandlersInv'
<1>1. phase \in [Handlers -> Phases] /\ turn \in [Turns -> TurnRecords] /\ h \in Handlers
    BY DEF TypeInv, TypeOK, Handlers, Turns
<1>2. phase' = [phase EXCEPT ![h] = to] /\ phase' \in [Handlers -> Phases]
    BY <1>1 DEF Step
<1>3. turn' \in [Turns -> TurnRecords]
    BY <1>1
<1>4. ASSUME NEW g \in Turns PROVE Filled(g, phase'[g], turn'[g])
    <2>1. g \in Handlers /\ Filled(g, phase[g], turn[g])
        BY DEF TypeInv, Handlers, Turns
    <2>2. CASE g = h
        BY <1>1, <1>2, <2>2
    <2>3. CASE g # h
        <3>1. phase'[g] = phase[g] /\ turn'[g] = turn[g]
            BY <1>1, <1>2, <2>1, <2>3
        <3> QED
            BY <2>1, <3>1
    <2> QED
        BY <2>2, <2>3
<1> QED
    BY <1>2, <1>3, <1>4 DEF HandlersInv

\* One handler moves on and no turn record changes.
LEMMA PhaseStep ==
    ASSUME TypeInv, NEW h \in Handlers, NEW from, NEW to \in Phases,
           Step(h, from, to), turn' = turn, h \in Turns => Filled(h, to, turn[h])
    PROVE  HandlersInv'
<1>1. phase \in [Handlers -> Phases] /\ turn' \in [Turns -> TurnRecords]
    BY DEF TypeInv, TypeOK
<1>2. phase' = [phase EXCEPT ![h] = to] /\ phase' \in [Handlers -> Phases]
    BY <1>1 DEF Step
<1>3. ASSUME NEW g \in Turns PROVE Filled(g, phase'[g], turn'[g])
    <2>1. g \in Handlers /\ Filled(g, phase[g], turn[g])
        BY DEF TypeInv, Handlers, Turns
    <2>2. CASE g = h
        BY <1>1, <1>2, <2>2
    <2>3. CASE g # h
        <3>1. phase'[g] = phase[g]
            BY <1>1, <1>2, <2>1, <2>3
        <3> QED
            BY <2>1, <3>1
    <2> QED
        BY <2>2, <2>3
<1> QED
    BY <1>1, <1>2, <1>3 DEF HandlersInv

LEMMA NoTurnIsTurn == NoTurn \in TurnRecords
BY DEF NoTurn, TurnRecords, Moves

\* A finished request leaves no turn behind.
LEMMA OverStep ==
    ASSUME TypeInv, NEW h \in Handlers, NEW from, Over(h, from)
    PROVE  HandlersInv'
<1>1. Step(h, from, "settle") /\ "settle" \in Phases
    BY DEF Over, Phases
<1>2. CASE h \in Turns
    <2>1. turn' = [turn EXCEPT ![h] = NoTurn]
        BY <1>2 DEF Over
    <2>2. Filled(h, "settle", NoTurn)
        BY DEF Filled
    <2> QED
        BY <1>1, <1>2, <2>1, <2>2, NoTurnIsTurn, TurnStep
<1>3. CASE h \notin Turns
    <2>1. turn' = turn
        BY <1>3 DEF Over
    <2> QED
        BY <1>1, <1>3, <2>1, PhaseStep
<1> QED
    BY <1>2, <1>3

\* The rest of the state, once the handlers are settled.
RowsInv ==
    /\ session \in Sessions
    /\ log \in Seq(Messages)
    /\ scores \in Seq(Viewers)
    /\ lock \in Handlers \cup {Nobody}
    /\ spent \in [Handlers -> Nat]
    /\ served \subseteq Viewers
    /\ StageInRange

LEMMA TypeInvParts == TypeInv <=> RowsInv /\ HandlersInv
BY DEF TypeInv, TypeOK, RowsInv, HandlersInv

LEMMA TypeInvPartsNext == RowsInv' /\ HandlersInv' => TypeInv'
BY DEF TypeInv, TypeOK, RowsInv, HandlersInv

LEMMA InitTypeInv == Init => TypeInv
<1> SUFFICES ASSUME Init PROVE TypeInv
    OBVIOUS
<1>1. HandlersInv
    BY NoTurnIsTurn DEF Init, HandlersInv, Filled, Phases, Turns, Handlers
<1>2. session \in Sessions /\ StageInRange
    BY DEF Init, NoSession, Sessions, StageInRange, Report
<1>3. RowsInv
    BY <1>2 DEF Init, RowsInv
<1> QED
    BY <1>1, <1>3, TypeInvParts

(* Updated records keep their type *)

LoadedTurn(t, s, c, d) == [t EXCEPT !.stage = s, !.count = c, !.spend = d]

LEMMA LoadedTurnIsTurn ==
    ASSUME NEW t \in TurnRecords, NEW s \in 0 .. NumStages, NEW c \in Nat,
           NEW d \in 0 .. CostCap
    PROVE  LoadedTurn(t, s, c, d) \in TurnRecords /\ LoadedTurn(t, s, c, d).stage = s
BY DEF LoadedTurn, TurnRecords

LEMMA FoundTurnIsTurn ==
    ASSUME NEW t \in TurnRecords, NEW q \in Nat
    PROVE  LET u == [t EXCEPT !.question = q]
           IN  u \in TurnRecords /\ u.stage = t.stage
BY DEF TurnRecords

LEMMA CountedTurnIsTurn ==
    ASSUME NEW t \in TurnRecords, NEW n \in Nat
    PROVE  LET u == [t EXCEPT !.hints = n]
           IN  u \in TurnRecords /\ u.stage = t.stage
BY DEF TurnRecords

GradedTurn(t, raw, w, c) == [t EXCEPT !.raw = raw, !.wants = w, !.challenged = c]

LEMMA GradedTurnIsTurn ==
    ASSUME NEW t \in TurnRecords, NEW raw \in RawScores, NEW w \in BOOLEAN, NEW c \in BOOLEAN
    PROVE  /\ GradedTurn(t, raw, w, c) \in TurnRecords
           /\ GradedTurn(t, raw, w, c).stage = t.stage
           /\ GradedTurn(t, raw, w, c).raw = raw
BY DEF GradedTurn, TurnRecords

LEMMA DecidedTurnIsTurn ==
    ASSUME NEW t \in TurnRecords, NEW move \in Moves
    PROVE  LET u == [t EXCEPT !.move = move, !.wants = FALSE, !.challenged = FALSE, !.spend = 0]
           IN  u \in TurnRecords /\ u.stage = t.stage /\ u.raw = t.raw
<1> 0 \in 0 .. CostCap
    OBVIOUS
<1> QED
    BY DEF TurnRecords

MovedSession(s, n, status) == [s EXCEPT !.stage = n, !.count = 0, !.status = status]

LEMMA MovedSessionIsSession ==
    ASSUME NEW s \in Sessions, NEW n \in 0 .. Report, NEW status \in {"active", "completed"}
    PROVE  /\ MovedSession(s, n, status) \in Sessions
           /\ MovedSession(s, n, status).stage = n
           /\ MovedSession(s, n, status).status = status
BY DEF MovedSession, Sessions

------------------------------------------------------------------------------
(* Each action keeps the types *)

LEMMA LoadTypeInv ==
    ASSUME TypeInv, NEW h \in Turns, Load(h)
    PROVE  TypeInv'
<1> USE DEF TypeInv, TypeOK
<1>0. /\ turn[h] \in TurnRecords
      /\ Filled(h, phase[h], turn[h])
      /\ {"loaded", "found", "counted"} \subseteq Phases
    BY DEF Phases
<1>1. CASE LoadSession(h)
    <2> DEFINE t == LoadedTurn(turn[h], session.stage, session.count, session.spend)
    <2>1. session.stage \in 1 .. NumStages /\ session.stage \in 0 .. NumStages
         /\ session.count \in Nat /\ session.spend \in 0 .. CostCap
        BY <1>1 DEF LoadSession, StageInRange, Sessions
    <2>2. t \in TurnRecords /\ t.stage = session.stage
        <3> HIDE DEF TypeInv, TypeOK
        <3>1. t \in TurnRecords
            BY <1>0, <2>1, LoadedTurnIsTurn
        <3>2. t.stage = session.stage
            BY <1>0 DEF LoadedTurn, TurnRecords
        <3> QED
            BY <3>1, <3>2
    <2>3. Filled(h, "loaded", t)
        BY <2>1, <2>2 DEF Filled
    <2>4. turn' = [turn EXCEPT ![h] = t] /\ Step(h, "idle", "loaded")
        BY <1>1 DEF LoadSession, LoadedTurn
    <2>5. HandlersInv'
        BY <1>0, <2>2, <2>3, <2>4, TurnStep
    <2>6. RowsInv'
        BY <1>1 DEF LoadSession, RowsInv, StageInRange
    <2> QED
        BY <2>5, <2>6, TypeInvPartsNext
<1>2. CASE FindQuestion(h)
    <2>1. PICK q \in 1 .. Len(log) : turn' = [turn EXCEPT ![h] = [@ EXCEPT !.question = q]]
        BY <1>2 DEF FindQuestion
    <2> DEFINE t == [turn[h] EXCEPT !.question = q]
    <2>2. t \in TurnRecords /\ t.stage = turn[h].stage
        BY <1>0, FoundTurnIsTurn
    <2>3. Step(h, "loaded", "found")
        BY <1>2 DEF FindQuestion
    <2>4. Filled(h, "found", t)
        BY <1>0, <2>2, <2>3 DEF Filled, Step
    <2>5. HandlersInv'
        BY <1>0, <2>1, <2>2, <2>3, <2>4, TurnStep
    <2>6. RowsInv'
        BY <1>2 DEF FindQuestion, RowsInv, StageInRange
    <2> QED
        BY <2>5, <2>6, TypeInvPartsNext
<1>3. CASE CountHints(h)
    <2> DEFINE t == [turn[h] EXCEPT !.hints = HintCount(h)]
    <2>1. HintCount(h) \in Nat
        BY <1>0, HintCountIsNat DEF HintCount, TurnRecords
    <2>2. t \in TurnRecords /\ t.stage = turn[h].stage
        BY <1>0, <2>1, CountedTurnIsTurn
    <2>3. Step(h, "found", "counted") /\ turn' = [turn EXCEPT ![h] = t]
        BY <1>3 DEF CountHints
    <2>4. Filled(h, "counted", t)
        BY <1>0, <2>2, <2>3 DEF Filled, Step
    <2>5. HandlersInv'
        BY <1>0, <2>2, <2>3, <2>4, TurnStep
    <2>6. RowsInv'
        BY <1>3 DEF CountHints, RowsInv, StageInRange
    <2> QED
        BY <2>5, <2>6, TypeInvPartsNext
<1> QED
    BY <1>1, <1>2, <1>3 DEF Load

\* Every decision leaves the turn with its move and clears what decided it.
LEMMA DecidedTypeInv ==
    ASSUME TypeInv, NEW a \in Answerers, NEW move \in Moves, Decided(a, move),
           UNCHANGED <<session, log, scores, lock, served>>, spent' \in [Handlers -> Nat]
    PROVE  TypeInv'
<1> DEFINE t == [turn[a] EXCEPT !.move = move, !.wants = FALSE, !.challenged = FALSE,
                                !.spend = 0]
           to == IF NeedsModel(turn[a], move) THEN "decided" ELSE "ready"
<1>1. a \in Turns /\ turn[a] \in TurnRecords /\ Filled(a, phase[a], turn[a])
    BY DEF TypeInv, TypeOK, Turns
<1>2. t \in TurnRecords /\ t.stage = turn[a].stage /\ t.raw = turn[a].raw
    BY <1>1, DecidedTurnIsTurn
<1>3. Step(a, "graded", to) /\ turn' = [turn EXCEPT ![a] = t]
    BY DEF Decided
<1>4. to \in Phases /\ Filled(a, to, t)
    BY <1>1, <1>2, <1>3 DEF Filled, Step, Phases
<1>5. HandlersInv'
    BY <1>1, <1>2, <1>3, <1>4, TurnStep
<1>6. RowsInv'
    BY DEF RowsInv, StageInRange, TypeInv, TypeOK
<1> QED
    BY <1>5, <1>6, TypeInvPartsNext

LEMMA DecideTypeInv ==
    ASSUME TypeInv, NEW a \in Answerers, DecideChallenge(a) \/ DecideByRule(a) \/ ConsultAgent(a)
    PROVE  TypeInv'
<1>1. FixedMove(turn[a]) \in Moves
    BY DEF FixedMove, Moves
<1>2. spent \in [Handlers -> Nat]
    BY DEF TypeInv, TypeOK
<1>3. CASE DecideChallenge(a)
    BY <1>2, <1>3, DecidedTypeInv DEF DecideChallenge, Moves
<1>4. CASE DecideByRule(a)
    BY <1>1, <1>2, <1>4, DecidedTypeInv DEF DecideByRule
<1>5. CASE ConsultAgent(a)
    <2>1. AllowedMoves(a) \subseteq Moves
        BY DEF AllowedMoves, Moves
    <2>2. PICK move \in Moves : Decided(a, move)
        BY <1>1, <1>5, <2>1 DEF ConsultAgent
    <2>3. spent' \in [Handlers -> Nat]
        BY <1>2, <1>5 DEF ConsultAgent, Handlers
    <2> QED
        BY <1>5, <2>2, <2>3, DecidedTypeInv DEF ConsultAgent
<1> QED
    BY <1>3, <1>4, <1>5

LEMMA CommitTypeInv ==
    ASSUME TypeInv, NEW a \in Answerers, CommitTurn(a)
    PROVE  TypeInv'
<1>1. /\ a \in Turns /\ a \in Handlers
      /\ turn[a] \in TurnRecords /\ Filled(a, phase[a], turn[a]) /\ phase[a] = "claimed"
    BY DEF TypeInv, TypeOK, Turns, Handlers, CommitTurn, Over, Step
<1>2. turn[a].stage \in 1 .. NumStages /\ turn[a].raw \in RawScores
    BY <1>1 DEF Filled
<1>3. TurnMessages(turn[a]) \in Seq(Messages)
    BY <1>1, <1>2, TurnMessagesAreMessages
<1>4. log' \in Seq(Messages)
    BY <1>3 DEF CommitTurn, TypeInv, TypeOK
<1>5. session' \in Sessions /\ StageInRange'
    <2>1. session \in Sessions /\ StageInRange /\ session' = TurnUpdate(turn[a])
        BY DEF CommitTurn, TypeInv, TypeOK
    <2>2. CASE turn[a].move # "advance"
        BY <2>1, <2>2 DEF TurnUpdate, Sessions, StageInRange
    <2>3. CASE turn[a].move = "advance" /\ turn[a].stage < NumStages
        <3>1. turn[a].stage + 1 \in 1 .. NumStages /\ turn[a].stage + 1 \in 0 .. Report
            BY <1>2, <2>3 DEF Report
        <3>2. session' = MovedSession(session, turn[a].stage + 1, "active")
            BY <2>1, <2>3 DEF TurnUpdate, MovedSession
        <3>3. session' \in Sessions /\ session'.stage = turn[a].stage + 1
            <4>1. "active" \in {"active", "completed"}
                OBVIOUS
            <4>2. MovedSession(session, turn[a].stage + 1, "active") \in Sessions
                BY <2>1, <3>1, <4>1, MovedSessionIsSession, Zenon
            <4>3. MovedSession(session, turn[a].stage + 1, "active").stage = turn[a].stage + 1
                BY <2>1 DEF MovedSession, Sessions
            <4> QED
                BY <3>2, <4>2, <4>3
        <3> QED
            BY <2>1, <3>1, <3>2, <3>3 DEF StageInRange
    <2>4. CASE turn[a].move = "advance" /\ ~(turn[a].stage < NumStages)
        <3>1. turn[a].stage + 1 \in 0 .. Report
            BY <1>2 DEF Report
        <3>2. session' = MovedSession(session, turn[a].stage + 1, "completed")
            BY <2>1, <2>4 DEF TurnUpdate, MovedSession
        <3>3. session' \in Sessions /\ session'.status = "completed"
            BY <2>1, <3>1, <3>2, MovedSessionIsSession
        <3> QED
            BY <2>1, <3>1, <3>2, <3>3 DEF StageInRange
    <2> QED
        BY <2>2, <2>3, <2>4
<1>6. RowsInv'
    BY <1>4, <1>5 DEF CommitTurn, RowsInv, TypeInv, TypeOK
<1>7. HandlersInv'
    BY <1>1, OverStep DEF CommitTurn
<1> QED
    BY <1>6, <1>7, TypeInvPartsNext

\* Both ways a request takes the row lock: it is held, or the turn is over.
LEMMA ClaimTypeInv ==
    ASSUME TypeInv, NEW h \in Turns,
           \/ Step(h, "ready", "claimed") /\ lock' = h /\ UNCHANGED turn
           \/ Over(h, "ready") /\ UNCHANGED lock,
           UNCHANGED <<session, log, scores, spent, served>>
    PROVE  TypeInv'
<1>1. /\ h \in Handlers /\ "claimed" \in Phases
      /\ Filled(h, phase[h], turn[h])
    BY DEF TypeInv, Turns, Handlers, Phases
<1>2. HandlersInv'
    <2>1. CASE Over(h, "ready")
        BY <1>1, <2>1, OverStep
    <2>2. CASE Step(h, "ready", "claimed") /\ UNCHANGED turn
        <3>1. Filled(h, "claimed", turn[h])
            BY <1>1, <2>2 DEF Filled, Step
        <3> QED
            BY <1>1, <2>2, <3>1, PhaseStep
    <2> QED
        BY <2>1, <2>2
<1>3. RowsInv'
    BY <1>1 DEF RowsInv, StageInRange, TypeInv, TypeOK
<1> QED
    BY <1>2, <1>3, TypeInvPartsNext

LEMMA AnswerTypeInv ==
    ASSUME TypeInv, NEW a \in Answerers, Answer(a)
    PROVE  TypeInv'
<1>1. /\ a \in Turns /\ a \in Handlers
      /\ turn[a] \in TurnRecords /\ Filled(a, phase[a], turn[a])
      /\ {"graded", "ready"} \subseteq Phases
      /\ spent \in [Handlers -> Nat]
    BY DEF TypeInv, TypeOK, Turns, Handlers, Phases
<1>2. CASE Evaluate(a)
    <2>1. PICK raw \in RawScores, wants \in BOOLEAN, challenged \in BOOLEAN :
             turn' = [turn EXCEPT ![a] = GradedTurn(turn[a], raw, wants, challenged)]
        BY <1>2 DEF Evaluate, GradedTurn
    <2> DEFINE t == GradedTurn(turn[a], raw, wants, challenged)
    <2>2. t \in TurnRecords /\ t.stage = turn[a].stage /\ t.raw = raw
        BY <1>1, GradedTurnIsTurn
    <2>3. Step(a, "counted", "graded")
        BY <1>2 DEF Evaluate
    <2>4. Filled(a, "graded", t)
        BY <1>1, <2>2, <2>3 DEF Filled, Step
    <2>5. HandlersInv'
        BY <1>1, <2>1, <2>2, <2>3, <2>4, TurnStep
    <2>6. spent' \in [Handlers -> Nat]
        <3>1. PICK checked \in BOOLEAN :
                 spent' = [spent EXCEPT ![a] = IF checked THEN 2 ELSE 1]
            BY <1>2 DEF Evaluate
        <3> QED
            BY <1>1, <3>1
    <2>7. RowsInv'
        BY <1>2, <2>6 DEF Evaluate, RowsInv, StageInRange, TypeInv, TypeOK
    <2> QED
        BY <2>5, <2>7, TypeInvPartsNext
<1>3. CASE DecideChallenge(a) \/ DecideByRule(a) \/ ConsultAgent(a)
    BY <1>3, DecideTypeInv
<1>4. CASE AskQuestion(a)
    <2>1. Filled(a, "ready", turn[a])
        BY <1>1, <1>4 DEF AskQuestion, Step, Filled
    <2>2. HandlersInv'
        BY <1>1, <1>4, <2>1, PhaseStep DEF AskQuestion
    <2>3. spent' \in [Handlers -> Nat]
        BY <1>1, <1>4 DEF AskQuestion
    <2>4. RowsInv'
        BY <1>4, <2>3 DEF AskQuestion, RowsInv, StageInRange, TypeInv, TypeOK
    <2> QED
        BY <2>2, <2>4, TypeInvPartsNext
<1>5. CASE ClaimTurn(a)
    BY <1>1, <1>5, ClaimTypeInv DEF ClaimTurn
<1>6. CASE CommitTurn(a)
    BY <1>6, CommitTypeInv
<1> QED
    BY <1>2, <1>3, <1>4, <1>5, <1>6 DEF Answer

LEMMA HintTypeInv ==
    ASSUME TypeInv, NEW h \in Hinters, GiveHint(h)
    PROVE  TypeInv'
<1>1. /\ h \in Turns /\ h \in Handlers /\ h \notin Answerers
      /\ turn[h] \in TurnRecords /\ Filled(h, phase[h], turn[h])
      /\ {"idle", "ready"} \subseteq Phases
      /\ spent \in [Handlers -> Nat]
    BY DEF TypeInv, TypeOK, Turns, Handlers, Phases
<1>2. CASE RefuseHint(h)
    <2>1. Filled(h, "idle", NoTurn)
        BY DEF Filled
    <2>2. HandlersInv'
        BY <1>1, <1>2, <2>1, NoTurnIsTurn, TurnStep DEF RefuseHint
    <2>3. RowsInv'
        BY <1>2 DEF RefuseHint, RowsInv, StageInRange, TypeInv, TypeOK
    <2> QED
        BY <2>2, <2>3, TypeInvPartsNext
<1>3. CASE WriteHint(h)
    <2>1. Filled(h, "ready", turn[h])
        BY <1>1, <1>3 DEF WriteHint, Step, Filled
    <2>2. HandlersInv'
        BY <1>1, <1>3, <2>1, PhaseStep DEF WriteHint
    <2>3. spent' \in [Handlers -> Nat]
        BY <1>1, <1>3 DEF WriteHint
    <2>4. RowsInv'
        BY <1>3, <2>3 DEF WriteHint, RowsInv, StageInRange, TypeInv, TypeOK
    <2> QED
        BY <2>2, <2>4, TypeInvPartsNext
<1>4. CASE LockTurn(h)
    BY <1>1, <1>4, ClaimTypeInv DEF LockTurn
<1>5. CASE RecordHint(h)
    <2>1. turn[h].stage \in 1 .. NumStages /\ turn[h].hints + 1 \in Nat
        BY <1>1, <1>5 DEF RecordHint, Over, Step, Filled, TurnRecords
    <2>2. HintMsg(turn[h].stage, turn[h].hints + 1) \in Messages
        BY <2>1 DEF HintMsg, Messages
    <2>3. log' \in Seq(Messages)
        BY <1>5, <2>2 DEF RecordHint, TypeInv, TypeOK
    <2>4. RowsInv'
        BY <1>5, <2>3 DEF RecordHint, RowsInv, StageInRange, TypeInv, TypeOK
    <2>5. HandlersInv'
        BY <1>1, <1>5, OverStep DEF RecordHint
    <2> QED
        BY <2>4, <2>5, TypeInvPartsNext
<1> QED
    BY <1>2, <1>3, <1>4, <1>5 DEF GiveHint

LEMMA ReportTypeInv ==
    ASSUME TypeInv, NEW v \in Viewers, ViewReport(v)
    PROVE  TypeInv'
<1> USE DEF TypeInv, TypeOK
<1>1. /\ v \in Handlers /\ v \notin Turns
      /\ {"loaded", "ready", "settle"} \subseteq Phases
      /\ RowsInv /\ HandlersInv
    BY DEF Handlers, Phases, RowsInv, HandlersInv
<1>2. CASE LoadReport(v)
    <2>1. served' \subseteq Viewers /\ RowsInv'
        BY <1>1, <1>2 DEF LoadReport, Sessions, RowsInv, StageInRange
    <2>2. CASE session.report # NoReport
        BY <1>1, <1>2, <2>1, <2>2, TypeInvPartsNext DEF LoadReport, HandlersInv
    <2>3. CASE session.report = NoReport
        BY <1>1, <1>2, <2>1, <2>3, PhaseStep, TypeInvPartsNext DEF LoadReport
    <2> QED
        BY <2>2, <2>3
<1>3. CASE WriteReport(v)
    <2>1. spent' \in [Handlers -> Nat]
        BY <1>1, <1>3 DEF WriteReport
    <2>2. RowsInv'
        BY <1>1, <1>3, <2>1 DEF WriteReport, RowsInv, StageInRange
    <2> QED
        BY <1>1, <1>3, <2>2, PhaseStep, TypeInvPartsNext DEF WriteReport
<1>4. CASE StoreReport(v)
    <2>1. session' \in Sessions /\ StageInRange'
        BY <1>1, <1>4 DEF StoreReport, Sessions, RowsInv, StageInRange
    <2>2. scores' \in Seq(Viewers)
        BY <1>1, <1>4 DEF StoreReport, RowsInv
    <2>3. RowsInv'
        BY <1>1, <1>4, <2>1, <2>2 DEF StoreReport, RowsInv
    <2> QED
        BY <1>1, <1>4, <2>3, PhaseStep, TypeInvPartsNext DEF StoreReport
<1>5. CASE ServeWinner(v)
    <2>1. RowsInv'
        BY <1>1, <1>5 DEF ServeWinner, ReportUnclaimed, Sessions, RowsInv, StageInRange
    <2> QED
        BY <1>1, <1>5, <2>1, PhaseStep, TypeInvPartsNext DEF ServeWinner
<1> QED
    BY <1>2, <1>3, <1>4, <1>5 DEF ViewReport

LEMMA EndTypeInv ==
    ASSUME TypeInv, NEW h \in Handlers, Fail(h) \/ Rollback(h) \/ End(h)
    PROVE  TypeInv'
<1> USE DEF TypeInv, TypeOK
<1>1. CASE Fail(h)
    <2>1. RowsInv'
        BY <1>1 DEF Fail, RowsInv, StageInRange
    <2> QED
        BY <1>1, <2>1, OverStep, TypeInvPartsNext DEF Fail
<1>2. CASE Rollback(h)
    <2>1. RowsInv'
        BY <1>2 DEF Rollback, RowsInv, StageInRange
    <2> QED
        BY <1>2, <2>1, OverStep, TypeInvPartsNext DEF Rollback
<1>3. CASE End(h)
    <2>1. PICK recorded \in BOOLEAN : Settle(h, recorded)
        BY <1>3 DEF End
    <2>2. session' \in Sessions /\ StageInRange'
        <3>1. session.spend \in 0 .. CostCap /\ spent[h] \in Nat
            BY DEF Sessions
        <3>2. AddSpend(session.spend, spent[h]) \in 0 .. CostCap
            BY <3>1 DEF AddSpend
        <3> QED
            BY <2>1, <3>2 DEF Settle, Sessions, StageInRange
    <2>3. spent' \in [Handlers -> Nat]
        BY <2>1 DEF Settle
    <2>4. RowsInv'
        BY <2>1, <2>2, <2>3 DEF Settle, RowsInv
    <2>5. "idle" \in Phases /\ (h \in Turns => Filled(h, "idle", turn[h]))
        BY DEF Phases, Filled
    <2> QED
        BY <2>1, <2>4, <2>5, PhaseStep, TypeInvPartsNext DEF Settle
<1> QED
    BY <1>1, <1>2, <1>3

LEMMA StartTypeInv ==
    ASSUME TypeInv, NEW a \in Answerers, NEW mode \in Modes, Start(a, mode)
    PROVE  TypeInv'
<1>1. QuestionMsg("question", 1, "open") \in Messages
    BY DEF QuestionMsg, Messages, Moves
<1>2. log' \in Seq(Messages)
    BY <1>1 DEF Start
<1>3. session' \in Sessions /\ StageInRange'
    <2>1. session' = [status |-> "active", mode |-> mode, stage |-> 1, count |-> 0,
                      spend |-> 0, report |-> NoReport]
        BY DEF Start, NoSession
    <2>2. 1 \in 0 .. Report /\ 1 \in 1 .. NumStages /\ 0 \in 0 .. CostCap
        BY DEF Report
    <2> QED
        BY <2>1, <2>2 DEF Sessions, StageInRange
<1>4. a \in Handlers /\ a \in Turns /\ "settle" \in Phases /\ Filled(a, "settle", turn[a])
    BY DEF Handlers, Turns, Phases, Filled
<1>5. spent' \in [Handlers -> Nat]
    BY <1>4 DEF Start, TypeInv, TypeOK
<1>6. RowsInv'
    BY <1>2, <1>3, <1>5 DEF Start, RowsInv, TypeInv, TypeOK
<1> QED
    BY <1>4, <1>6, PhaseStep, TypeInvPartsNext DEF Start

LEMMA NextTypeInv == TypeInv /\ [Next]_vars => TypeInv'
<1> SUFFICES ASSUME TypeInv, [Next]_vars PROVE TypeInv'
    OBVIOUS
<1>1. CASE Next
    BY <1>1, StartTypeInv, LoadTypeInv, AnswerTypeInv, HintTypeInv, ReportTypeInv, EndTypeInv
       DEF Next
<1>2. CASE UNCHANGED vars
    BY <1>2 DEF vars, TypeInv, TypeOK, StageInRange
<1> QED
    BY <1>1, <1>2

\* Every variable keeps its type, and no recorded score falls below one, however
\* many requests run at once (applyHintPenalty).
THEOREM TypeCorrect == Spec => []TypeOK
<1>1. TypeInv => TypeOK
    BY DEF TypeInv
<1> QED
    BY <1>1, InitTypeInv, NextTypeInv, PTL DEF Spec

------------------------------------------------------------------------------
(* One handler moves at a time *)

\* The other handlers stay where they are.
Others(h) ==
    \A g \in Handlers \ {h} :
        phase'[g] = phase[g] /\ (g \in Turns => turn'[g] = turn[g])

\* The transcript, and where the interview is in it, stay as they are.
SameTurn ==
    /\ log' = log
    /\ session'.status = session.status /\ session'.mode = session.mode
    /\ session'.stage = session.stage /\ session'.count = session.count

LEMMA StepMoves ==
    ASSUME TypeOK, NEW h \in Handlers, NEW from, NEW to, Step(h, from, to)
    PROVE  /\ phase[h] = from /\ phase'[h] = to
           /\ \A g \in Handlers \ {h} : phase'[g] = phase[g]
BY DEF TypeOK, Step

LEMMA OverMoves ==
    ASSUME TypeOK, NEW h \in Handlers, NEW from, Over(h, from)
    PROVE  phase[h] = from /\ phase'[h] = "settle" /\ Others(h)
BY StepMoves DEF TypeOK, Over, Others

\* What the session's row keeps in every step that is not Start or CommitTurn, and what
\* happens to the lock.
Waits(h) ==
    /\ SameTurn /\ Others(h)
    /\ \A g \in Handlers \ {h} : lock = g => lock' = g

LEMMA LoadWaits ==
    ASSUME TypeOK, NEW h \in Turns, Load(h)
    PROVE  Waits(h) /\ lock' = lock
<1>1. h \in Handlers
  BY DEF Handlers, Turns
<1>2. PICK from, to : Step(h, from, to)
  BY DEF Load, LoadSession, FindQuestion, CountHints
<1>3. \A g \in Turns \ {h} : turn'[g] = turn[g]
  BY DEF Load, LoadSession, FindQuestion, CountHints, TypeOK
<1>4. Others(h)
  BY <1>1, <1>2, <1>3, StepMoves DEF Others
<1> QED
  BY <1>4 DEF Waits, SameTurn, Load, LoadSession, FindQuestion, CountHints

LEMMA AnswerWaits ==
    ASSUME TypeOK, NEW a \in Answerers,
           Evaluate(a) \/ DecideChallenge(a) \/ DecideByRule(a) \/ ConsultAgent(a) \/ AskQuestion(a)
    PROVE  Waits(a) /\ lock' = lock
<1>1. a \in Handlers
  BY DEF Handlers
<1>2. PICK from, to : Step(a, from, to)
  BY DEF Evaluate, DecideChallenge, DecideByRule, ConsultAgent, AskQuestion, Decided
<1>3. \A g \in Turns \ {a} : turn'[g] = turn[g]
  BY DEF Evaluate, DecideChallenge, DecideByRule, ConsultAgent, AskQuestion, Decided, TypeOK
<1>4. Others(a)
  BY <1>1, <1>2, <1>3, StepMoves DEF Others
<1> QED
  BY <1>4 DEF Waits, SameTurn, Evaluate, DecideChallenge, DecideByRule, ConsultAgent, AskQuestion

\* A request takes the row's lock, or learns that the turn has moved on.
Takes(h) ==
    /\ lock = Nobody
    /\ \/ TurnIsCurrent(h) /\ Step(h, "ready", "claimed") /\ lock' = h /\ turn' = turn
       \/ Over(h, "ready") /\ lock' = lock

LEMMA TakesWaits ==
    ASSUME TypeOK, NEW h \in Handlers, Takes(h), session' = session, log' = log
    PROVE  Waits(h)
<1>1. Others(h)
  BY StepMoves, OverMoves DEF Takes, Others
<1>2. Nobody \notin Handlers
  OBVIOUS
<1> QED
  BY <1>1, <1>2 DEF Waits, SameTurn, Takes

LEMMA HintWaits ==
    ASSUME TypeOK, NEW h \in Hinters, RefuseHint(h) \/ WriteHint(h)
    PROVE  Waits(h) /\ lock' = lock
<1>1. h \in Handlers /\ h \in Turns
  BY DEF Handlers, Turns
<1>2. PICK from, to : Step(h, from, to)
  BY DEF RefuseHint, WriteHint
<1>3. \A g \in Turns \ {h} : turn'[g] = turn[g]
  BY DEF RefuseHint, WriteHint, TypeOK
<1>4. Others(h)
  BY <1>1, <1>2, <1>3, StepMoves DEF Others
<1> QED
  BY <1>4 DEF Waits, SameTurn, RefuseHint, WriteHint

LEMMA ViewWaits ==
    ASSUME TypeOK, NEW v \in Viewers, ViewReport(v)
    PROVE  Waits(v) /\ lock' = lock /\ (phase'[v] # "claimed" \/ phase' = phase)
<1>1. v \in Handlers /\ v \notin Turns
  BY DEF Handlers
<1>2. SameTurn /\ lock' = lock /\ turn' = turn
  BY DEF SameTurn, ViewReport, LoadReport, WriteReport, StoreReport, ServeWinner, TypeOK, Sessions
<1>3. CASE UNCHANGED phase
  BY <1>1, <1>2, <1>3 DEF Waits, Others
<1>4. CASE \E from : Step(v, from, "loaded") \/ Step(v, from, "ready") \/ Step(v, from, "settle")
  <2>1. Others(v) /\ phase'[v] # "claimed"
    BY <1>1, <1>2, <1>4, StepMoves DEF Others
  <2> QED
    BY <1>2, <2>1 DEF Waits
<1> QED
  BY <1>3, <1>4 DEF ViewReport, LoadReport, WriteReport, StoreReport, ServeWinner

LEMMA SettleWaits ==
    ASSUME TypeOK, NEW h \in Handlers, End(h)
    PROVE  Waits(h) /\ lock' = lock /\ phase'[h] = "idle" /\ turn' = turn
<1>1. PICK recorded \in BOOLEAN : Settle(h, recorded)
  BY DEF End
<1>2. Step(h, "settle", "idle") /\ turn' = turn /\ lock' = lock /\ log' = log
  BY <1>1 DEF Settle
<1>3. SameTurn
  BY <1>1 DEF Settle, SameTurn, TypeOK, Sessions
<1> QED
  BY <1>2, <1>3, StepMoves DEF Waits, Others

LEMMA FailWaits ==
    ASSUME TypeOK, NEW h \in Handlers, Fail(h)
    PROVE  Waits(h) /\ lock' = lock /\ phase'[h] = "settle"
BY OverMoves DEF Fail, Waits, SameTurn

------------------------------------------------------------------------------
(* The report *)

\* A viewer is past its first query only once the interview has begun; the stored
\* report is the one whose scores were recorded and that was shown.
ReportInv ==
    /\ session.status = "none" => session.report = NoReport
    /\ \A v \in Viewers : phase[v] \in {"loaded", "ready"} => session.status # "none"
    /\ OneReport

\* Every step but a view and Start leaves the report, the scores and the viewers alone.
LEMMA ReportKept ==
    ASSUME TypeOK, ReportInv, session'.report = session.report, scores' = scores, served' = served,
           session.status = "none" \/ session'.status # "none",
           session'.status = "none" => session.status = "none",
           \A v \in Viewers : phase'[v] = phase[v] \/ phase'[v] \notin {"loaded", "ready"}
    PROVE  ReportInv'
<1>1. ASSUME NEW v \in Viewers, phase'[v] \in {"loaded", "ready"} PROVE session'.status # "none"
  BY <1>1 DEF ReportInv
<1> QED
  BY <1>1 DEF ReportInv, OneReport

LEMMA TurnReportInv ==
    ASSUME TypeOK, ReportInv, NEW h \in Turns,
           Load(h) \/ (h \in Answerers /\ Answer(h)) \/ (h \in Hinters /\ GiveHint(h))
    PROVE  ReportInv'
<1>1. h \in Handlers /\ h \notin Viewers
  BY DEF Handlers, Turns
<1>2. session'.report = session.report /\ scores' = scores /\ served' = served
  BY DEF Load, LoadSession, FindQuestion, CountHints, Answer, Evaluate, DecideChallenge,
         DecideByRule, ConsultAgent, AskQuestion, ClaimTurn, CommitTurn, TurnUpdate, GiveHint,
         RefuseHint, WriteHint, LockTurn, RecordHint, TypeOK, Sessions
<1>3. session' = session \/ (session'.status \in {session.status, "active", "completed"})
  <2>1. CASE h \in Answerers /\ CommitTurn(h)
    BY <2>1 DEF CommitTurn, TurnUpdate, TypeOK, Sessions
  <2>2. CASE ~(h \in Answerers /\ CommitTurn(h))
    BY <2>2 DEF Load, LoadSession, FindQuestion, CountHints, Answer, Evaluate, DecideChallenge,
         DecideByRule, ConsultAgent, AskQuestion, ClaimTurn, GiveHint,
         RefuseHint, WriteHint, LockTurn, RecordHint
  <2> QED
    BY <2>1, <2>2
<1>4. \E from, to : Step(h, from, to) \/ Over(h, from)
  BY DEF Load, LoadSession, FindQuestion, CountHints, Answer, Evaluate, DecideChallenge,
         DecideByRule, ConsultAgent, AskQuestion, ClaimTurn, CommitTurn, GiveHint,
         RefuseHint, WriteHint, LockTurn, RecordHint, Decided
<1>5. \A v \in Viewers : phase'[v] = phase[v]
  <2>1. \E from, to : Step(h, from, to)
    BY <1>4 DEF Over
  <2> QED
    BY <1>1, <2>1, StepMoves DEF Handlers
<1> QED
  BY <1>2, <1>3, <1>5, ReportKept

LEMMA ViewReportInv ==
    ASSUME TypeOK, ReportInv, NEW v \in Viewers, ViewReport(v)
    PROVE  ReportInv'
<1>1. v \in Handlers /\ v # NoReport
  BY DEF Handlers
<1>2. \A u \in Viewers \ {v} : phase'[u] = phase[u]
  <2>1. UNCHANGED phase \/ \E from, to : Step(v, from, to)
    BY DEF ViewReport, LoadReport, WriteReport, StoreReport, ServeWinner
  <2> QED
    BY <1>1, <2>1, StepMoves DEF Handlers
<1>3. CASE LoadReport(v)
  BY <1>1, <1>2, <1>3 DEF LoadReport, ReportInv, OneReport
<1>4. CASE WriteReport(v)
  BY <1>1, <1>2, <1>4 DEF WriteReport, Step, ReportInv, OneReport
<1>5. CASE StoreReport(v)
  <2>1. phase[v] = "ready" /\ phase'[v] = "settle" /\ session.report = NoReport
    BY <1>1, <1>5, StepMoves DEF StoreReport, ReportUnclaimed
  <2>2. session'.report = v /\ session'.status = session.status
    BY <1>5 DEF StoreReport, TypeOK, Sessions
  <2>3. scores = <<>> /\ served = {}
    BY <2>1 DEF ReportInv, OneReport, TypeOK
  <2>4. scores' = <<v>> /\ served' = {v}
    BY <1>5, <2>3 DEF StoreReport
  <2> QED
    BY <1>1, <1>2, <2>1, <2>2, <2>4 DEF ReportInv, OneReport
<1>6. CASE ServeWinner(v)
  <2>1. phase'[v] = "settle"
    BY <1>1, <1>6, StepMoves DEF ServeWinner
  <2> QED
    BY <1>2, <1>6, <2>1 DEF ServeWinner, ReportInv, OneReport
<1> QED
  BY <1>3, <1>4, <1>5, <1>6 DEF ViewReport

LEMMA EndReportInv ==
    ASSUME TypeOK, ReportInv, NEW h \in Handlers, Fail(h) \/ Rollback(h) \/ End(h)
    PROVE  ReportInv'
<1>1. session'.report = session.report /\ session'.status = session.status
      /\ scores' = scores /\ served' = served
  BY DEF Fail, Rollback, End, Settle, TypeOK, Sessions
<1>2. \A v \in Viewers : phase'[v] = phase[v] \/ phase'[v] \notin {"loaded", "ready"}
  <2>1. \E from, to : Step(h, from, to) /\ to \in {"settle", "idle"}
    BY DEF Fail, Rollback, End, Settle, Over
  <2> QED
    BY <2>1, StepMoves DEF Handlers
<1> QED
  BY <1>1, <1>2, ReportKept

LEMMA StartReportInv ==
    ASSUME TypeOK, ReportInv, NEW a \in Answerers, NEW mode \in Modes, Start(a, mode)
    PROVE  ReportInv'
<1>1. session'.report = NoReport /\ session'.status = "active" /\ session.report = NoReport
      /\ scores' = scores /\ served' = served
  BY DEF Start, NoSession, ReportInv
<1> QED
  BY <1>1 DEF ReportInv, OneReport

LEMMA ReportInvStep == TypeOK /\ ReportInv /\ [Next]_vars => ReportInv'
<1> SUFFICES ASSUME TypeOK, ReportInv, [Next]_vars PROVE ReportInv'
  OBVIOUS
<1>1. CASE Next
  BY <1>1, StartReportInv, TurnReportInv, ViewReportInv, EndReportInv DEF Next, Turns
<1>2. CASE UNCHANGED vars
  BY <1>2 DEF vars, ReportInv, OneReport
<1> QED
  BY <1>1, <1>2

LEMMA ReportInvInit == Init => ReportInv
BY DEF Init, NoSession, ReportInv, OneReport, Handlers

\* However many viewers open the report at once, one is stored, its scores are recorded
\* once, and it is the one all of them are shown.
THEOREM ReportIsOne == Spec => []OneReport
<1>1. ReportInv => OneReport
  BY DEF ReportInv
<1>2. TypeInv => TypeOK
  BY DEF TypeInv
<1> QED
  BY <1>1, <1>2, InitTypeInv, NextTypeInv, ReportInvInit, ReportInvStep, PTL DEF Spec

------------------------------------------------------------------------------
(* What a handler has read is still so while its turn is current *)

Limit == IF session.mode = "agent" THEN MaxStageQuestions ELSE 2

\* Message q is the open question, with nothing but its hints behind it.
OpenAt(q) ==
    /\ q \in 1 .. Len(log)
    /\ IsOpen(q)
    /\ log[q].stage = session.stage
    /\ \A j \in q + 1 .. Len(log) : log[j].stage = session.stage /\ log[j].level = j - q

Working(h) == phase[h] \notin {"idle", "settle"}
HasFound(h) == phase[h] \in {"found", "counted", "graded", "decided", "ready", "claimed"}
HasDecided(h) == h \in Answerers /\ phase[h] \in {"decided", "ready", "claimed"}

\* Who holds a claim holds the row, which stays as it was claimed.
ClaimHeld(h) == phase[h] = "claimed" => lock = h /\ TurnIsCurrent(h)

\* No handler has read a later turn than the interview is at.
NotAhead(h) ==
    Working(h) =>
        /\ session.status # "none"
        /\ \/ turn[h].stage < session.stage
           \/ turn[h].stage = session.stage /\ turn[h].count <= session.count

\* As long as the turn it has read is current, the question it found is the open one.
QuestionOpen(h) == HasFound(h) /\ TurnIsCurrent(h) => OpenAt(turn[h].question)

\* A move other than the next stage has room, and a probe has been earned.
MoveAllowed(h) ==
    HasDecided(h) =>
        /\ turn[h].move # "open"
        /\ turn[h].move # "advance" => turn[h].count + 1 < Limit
        /\ turn[h].move = "probe" /\ TurnIsCurrent(h) => ~ProbeStalled(h)

RungKept(h) == h \in Hinters /\ phase[h] \in {"ready", "claimed"} => turn[h].hints < MaxHints

HandlerInv(h) ==
    ClaimHeld(h) /\ NotAhead(h) /\ QuestionOpen(h) /\ MoveAllowed(h) /\ RungKept(h)

\* While the interview waits for an answer, some question is open.
Awaiting == session.status = "active" => \E q \in 1 .. Len(log) : OpenAt(q)

LockInv ==
    /\ \A v \in Viewers : phase[v] # "claimed"
    /\ \A h \in Turns : HandlerInv(h)
    /\ Awaiting

\* The open question is the stage's latest, and there is only one.
LEMMA OpenIsLatest ==
    ASSUME NEW p, OpenAt(p), NEW q, IsLatestQuestion(log, session.stage, q), Len(log) \in Nat
    PROVE  p = q
BY DEF OpenAt, IsOpen, IsLatestQuestion, IsQuestion

LEMMA OpenIsOne ==
    ASSUME NEW p, OpenAt(p), NEW q, OpenAt(q), Len(log) \in Nat
    PROVE  p = q
BY DEF OpenAt, IsOpen, IsQuestion

LEMMA OpenKept ==
    ASSUME log' = log, session'.stage = session.stage, NEW q
    PROVE  OpenAt(q)' <=> OpenAt(q)
BY DEF OpenAt, IsOpen, IsQuestion

\* A handler that only waits keeps what it knows, whoever else moves.
LEMMA HandlerStays ==
    ASSUME LockInv, NEW h \in Handlers, Waits(h), NEW g \in Turns, g # h
    PROVE  HandlerInv(g)'
<1>1. g \in Handlers /\ HandlerInv(g) /\ phase'[g] = phase[g] /\ turn'[g] = turn[g]
  BY DEF Turns, Handlers, LockInv, Waits, Others
<1>2. SameTurn
  BY DEF Waits
<1>3. TurnIsCurrent(g)' <=> TurnIsCurrent(g)
  BY <1>1, <1>2 DEF TurnIsCurrent, SameTurn
<1>4. ClaimHeld(g)'
  BY <1>1, <1>3 DEF HandlerInv, ClaimHeld, Waits
<1>5. NotAhead(g)'
  BY <1>1, <1>2 DEF HandlerInv, NotAhead, Working, SameTurn
<1>6. QuestionOpen(g)'
  BY <1>1, <1>2, <1>3, OpenKept DEF HandlerInv, QuestionOpen, HasFound, SameTurn
<1>7. ProbeStalled(g)' <=> ProbeStalled(g)
  BY <1>1, <1>2 DEF ProbeStalled, Evaluations, SameTurn
<1>8. MoveAllowed(g)'
  BY <1>1, <1>2, <1>3, <1>7 DEF HandlerInv, MoveAllowed, HasDecided, Limit, SameTurn
<1>9. RungKept(g)'
  BY <1>1 DEF HandlerInv, RungKept
<1> QED
  BY <1>4, <1>5, <1>6, <1>8, <1>9 DEF HandlerInv

\* So a step of one handler leaves only itself to be looked at.
LEMMA LockInvByOne ==
    ASSUME LockInv, NEW h \in Handlers, Waits(h),
           h \in Turns => HandlerInv(h)',
           h \in Viewers => phase'[h] # "claimed"
    PROVE  LockInv'
<1>1. \A g \in Turns : HandlerInv(g)'
  BY HandlerStays
<1>2. \A v \in Viewers : phase'[v] # "claimed"
  BY DEF LockInv, Waits, Others, Handlers
<1>3. Awaiting'
  BY OpenKept DEF LockInv, Awaiting, Waits, SameTurn
<1> QED
  BY <1>1, <1>2, <1>3 DEF LockInv

\* A handler whose request is over knows nothing.
LEMMA IdleKnowsNothing ==
    ASSUME NEW h, phase'[h] \in {"idle", "settle"}
    PROVE  HandlerInv(h)'
BY DEF HandlerInv, ClaimHeld, NotAhead, Working, QuestionOpen, HasFound, MoveAllowed,
       HasDecided, RungKept

(* Each action keeps what its own handler knows *)

LEMMA LoadLockInv ==
    ASSUME TypeInv, LockInv, NEW h \in Turns, Load(h)
    PROVE  LockInv'
<1>1. TypeOK /\ h \in Handlers /\ h \notin Viewers /\ turn[h] \in TurnRecords /\ Len(log) \in Nat
  BY DEF TypeInv, TypeOK, Handlers, Turns
<1>2. Waits(h) /\ lock' = lock
  BY <1>1, LoadWaits
<1>3. phase'[h] \in {"loaded", "found", "counted"}
  BY <1>1, StepMoves DEF Load, LoadSession, FindQuestion, CountHints
<1>4. HandlerInv(h)
  BY DEF LockInv
<1>5. NotAhead(h)'
  <2>1. CASE LoadSession(h)
    <3>1. turn'[h].stage = session.stage /\ turn'[h].count = session.count
      BY <1>1, <2>1 DEF LoadSession, TypeOK, TurnRecords
    <3>2. session' = session /\ session.status = "active" /\ session.count \in Nat
      BY <1>1, <2>1 DEF LoadSession, TypeOK, Sessions
    <3> QED
      BY <3>1, <3>2 DEF NotAhead
  <2>2. CASE FindQuestion(h) \/ CountHints(h)
    <3>1. turn'[h].stage = turn[h].stage /\ turn'[h].count = turn[h].count /\ session' = session
      <4>1. CASE FindQuestion(h)
        BY <1>1, <4>1 DEF FindQuestion, TypeOK, TurnRecords
      <4>2. CASE CountHints(h)
        BY <1>1, <4>2 DEF CountHints, TypeOK, TurnRecords
      <4> QED
        BY <2>2, <4>1, <4>2
    <3>2. Working(h)
      BY <1>1, <2>2, StepMoves DEF FindQuestion, CountHints, Working
    <3> QED
      BY <1>4, <3>1, <3>2 DEF HandlerInv, NotAhead
  <2> QED
    BY <2>1, <2>2 DEF Load
<1>6. QuestionOpen(h)'
  <2>1. CASE LoadSession(h)
    BY <1>1, <2>1, StepMoves DEF LoadSession, QuestionOpen, HasFound
  <2>2. CASE FindQuestion(h)
    <3>1. PICK q \in 1 .. Len(log) : /\ IsLatestQuestion(log, turn[h].stage, q)
                                     /\ turn' = [turn EXCEPT ![h] = [@ EXCEPT !.question = q]]
      BY <2>2 DEF FindQuestion
    <3>2. turn'[h].question = q /\ turn'[h].stage = turn[h].stage
      BY <1>1, <3>1 DEF TypeOK, TurnRecords
    <3>3. ASSUME TurnIsCurrent(h)' PROVE OpenAt(turn[h].question)'
      <4>1. session.status = "active" /\ session.stage = turn[h].stage /\ log' = log /\ session' = session
        BY <2>2, <3>2, <3>3 DEF TurnIsCurrent, FindQuestion
      <4>2. PICK p \in 1 .. Len(log) : OpenAt(p)
        BY <4>1 DEF LockInv, Awaiting
      <4>3. p = q
        BY <1>1, <3>1, <4>1, <4>2, OpenIsLatest
      <4> QED
        BY <3>2, <4>1, <4>2, <4>3, OpenKept
    <3> QED
      BY <3>3 DEF QuestionOpen
  <2>3. CASE CountHints(h)
    <3>1. turn'[h].stage = turn[h].stage /\ turn'[h].count = turn[h].count
          /\ turn'[h].question = turn[h].question /\ session' = session /\ log' = log
      BY <1>1, <2>3 DEF CountHints, TypeOK, TurnRecords
    <3>2. HasFound(h)
      BY <1>1, <2>3, StepMoves DEF CountHints, HasFound
    <3> QED
      BY <1>4, <3>1, <3>2, OpenKept DEF HandlerInv, QuestionOpen, TurnIsCurrent
  <2> QED
    BY <2>1, <2>2, <2>3 DEF Load
<1>7. HandlerInv(h)'
  BY <1>3, <1>5, <1>6 DEF HandlerInv, ClaimHeld, MoveAllowed, HasDecided, RungKept
<1> QED
  BY <1>1, <1>2, <1>7, LockInvByOne

\* The stage, count, question and row a handler looks at do not change under these steps.
LEMMA KnownKept ==
    ASSUME TypeInv, NEW h \in Turns, HandlerInv(h), SameTurn, HasFound(h),
           turn'[h].stage = turn[h].stage, turn'[h].count = turn[h].count,
           turn'[h].question = turn[h].question
    PROVE  NotAhead(h)' /\ QuestionOpen(h)' /\ (TurnIsCurrent(h)' <=> TurnIsCurrent(h))
<1>1. Working(h)
  BY DEF HasFound, Working
<1>2. NotAhead(h)'
  BY <1>1 DEF HandlerInv, NotAhead, SameTurn
<1>3. TurnIsCurrent(h)' <=> TurnIsCurrent(h)
  BY DEF TurnIsCurrent, SameTurn
<1>4. OpenAt(turn[h].question)' <=> OpenAt(turn[h].question)
  BY OpenKept DEF SameTurn, OpenAt, IsOpen, IsQuestion
<1> QED
  BY <1>2, <1>3, <1>4 DEF HandlerInv, QuestionOpen

LEMMA DecideLockInv ==
    ASSUME TypeInv, LockInv, NEW a \in Answerers, NEW move \in Moves \ {"open"},
           Decided(a, move), Waits(a), session' = session,
           move # "advance" => RoomInStage(turn[a]),
           move = "probe" => ~ProbeStalled(a)
    PROVE  LockInv'
<1>1. /\ TypeOK /\ a \in Handlers /\ a \in Turns /\ a \notin Viewers /\ a \notin Hinters
      /\ turn[a] \in TurnRecords /\ HandlerInv(a)
  BY DEF TypeInv, TypeOK, Handlers, Turns, LockInv
<1>2. phase[a] = "graded" /\ phase'[a] \in {"decided", "ready"}
  BY <1>1, StepMoves DEF Decided
<1>3. /\ turn'[a].stage = turn[a].stage /\ turn'[a].count = turn[a].count
      /\ turn'[a].question = turn[a].question /\ turn'[a].raw = turn[a].raw
      /\ turn'[a].hints = turn[a].hints /\ turn'[a].move = move
  BY <1>1 DEF Decided, TypeOK, TurnRecords
<1>4. SameTurn /\ HasFound(a)
  BY <1>2 DEF Waits, HasFound
<1>5. NotAhead(a)' /\ QuestionOpen(a)'
  BY <1>1, <1>3, <1>4, KnownKept
<1>6. ProbeStalled(a)' <=> ProbeStalled(a)
  BY <1>3, <1>4 DEF ProbeStalled, Evaluations, SameTurn
<1>7. MoveAllowed(a)'
  BY <1>3, <1>6 DEF MoveAllowed, RoomInStage, Limit
<1>8. HandlerInv(a)'
  BY <1>1, <1>2, <1>5, <1>7 DEF HandlerInv, ClaimHeld, RungKept
<1> QED
  BY <1>1, <1>8, LockInvByOne

LEMMA TakesLockInv ==
    ASSUME TypeInv, LockInv, NEW h \in Turns, Takes(h), session' = session, log' = log
    PROVE  LockInv'
<1>1. TypeOK /\ h \in Handlers /\ h \notin Viewers /\ HandlerInv(h)
  BY DEF TypeInv, Handlers, Turns, LockInv
<1>2. Waits(h)
  BY <1>1, TakesWaits
<1>3. CASE Over(h, "ready")
  BY <1>1, <1>2, <1>3, OverMoves, IdleKnowsNothing, LockInvByOne
<1>4. CASE TurnIsCurrent(h) /\ Step(h, "ready", "claimed") /\ lock' = h /\ turn' = turn
  <2>1. phase[h] = "ready" /\ phase'[h] = "claimed"
    BY <1>1, <1>4, StepMoves
  <2>2. NotAhead(h)' /\ QuestionOpen(h)' /\ TurnIsCurrent(h)'
    BY <1>1, <1>2, <1>4, <2>1, KnownKept DEF Waits, HasFound
  <2>3. ProbeStalled(h)' <=> ProbeStalled(h)
    BY <1>4 DEF ProbeStalled, Evaluations
  <2>4. MoveAllowed(h)'
    BY <1>1, <1>4, <2>1, <2>2, <2>3 DEF HandlerInv, MoveAllowed, HasDecided, Limit
  <2>5. RungKept(h)' /\ ClaimHeld(h)'
    BY <1>1, <1>4, <2>1, <2>2 DEF HandlerInv, RungKept, ClaimHeld
  <2> QED
    BY <1>1, <1>2, <2>2, <2>4, <2>5, LockInvByOne DEF HandlerInv
<1> QED
  BY <1>3, <1>4 DEF Takes

LEMMA AnswerLockInv ==
    ASSUME TypeInv, LockInv, NEW a \in Answerers, Answer(a), ~CommitTurn(a)
    PROVE  LockInv'
<1>1. /\ TypeOK /\ a \in Handlers /\ a \in Turns /\ a \notin Viewers /\ a \notin Hinters
      /\ turn[a] \in TurnRecords /\ HandlerInv(a)
  BY DEF TypeInv, TypeOK, Handlers, Turns, LockInv
<1>2. CASE Evaluate(a)
  <2>1. Waits(a) /\ phase[a] = "counted" /\ phase'[a] = "graded"
    BY <1>1, <1>2, AnswerWaits, StepMoves DEF Evaluate
  <2>2. /\ turn'[a].stage = turn[a].stage /\ turn'[a].count = turn[a].count
        /\ turn'[a].question = turn[a].question
    BY <1>1, <1>2 DEF Evaluate, TypeOK, TurnRecords
  <2>3. NotAhead(a)' /\ QuestionOpen(a)'
    BY <1>1, <2>1, <2>2, KnownKept DEF Waits, HasFound
  <2>4. HandlerInv(a)'
    BY <1>1, <2>1, <2>3 DEF HandlerInv, ClaimHeld, MoveAllowed, HasDecided, RungKept
  <2> QED
    BY <1>1, <2>1, <2>4, LockInvByOne
<1>3. FixedMove(turn[a]) \in {"followup", "advance"}
      /\ (FixedMove(turn[a]) = "followup" => RoomInStage(turn[a]))
  BY <1>1 DEF FixedMove, ShouldAskFollowup, RoomInStage, TurnRecords
<1>4. CASE DecideChallenge(a)
  <2>1. Waits(a)
    BY <1>1, <1>4, AnswerWaits
  <2> QED
    BY <1>4, <2>1, DecideLockInv DEF DecideChallenge, Challenges, Moves
<1>5. CASE DecideByRule(a)
  <2>1. Waits(a)
    BY <1>1, <1>5, AnswerWaits
  <2> QED
    BY <1>3, <1>5, <2>1, DecideLockInv DEF DecideByRule, Moves
<1>6. CASE ConsultAgent(a)
  <2>1. Waits(a) /\ session' = session /\ RoomInStage(turn[a])
    BY <1>1, <1>6, AnswerWaits DEF ConsultAgent
  <2>2. PICK move \in AllowedMoves(a) \cup {FixedMove(turn[a])} : Decided(a, move)
    BY <1>6 DEF ConsultAgent
  <2>3. move \in Moves \ {"open"} /\ (move = "probe" => ~ProbeStalled(a))
    BY <1>3 DEF AllowedMoves, Moves
  <2> QED
    BY <2>1, <2>2, <2>3, DecideLockInv
<1>7. CASE AskQuestion(a)
  <2>1. Waits(a) /\ phase[a] = "decided" /\ phase'[a] = "ready" /\ turn'[a] = turn[a]
    BY <1>1, <1>7, AnswerWaits, StepMoves DEF AskQuestion
  <2>2. NotAhead(a)' /\ QuestionOpen(a)' /\ (TurnIsCurrent(a)' <=> TurnIsCurrent(a))
    BY <1>1, <2>1, KnownKept DEF Waits, HasFound
  <2>3. ProbeStalled(a)' <=> ProbeStalled(a)
    BY <2>1 DEF ProbeStalled, Evaluations, Waits, SameTurn
  <2>4. MoveAllowed(a)'
    BY <1>1, <2>1, <2>2, <2>3 DEF HandlerInv, MoveAllowed, HasDecided, Limit, Waits, SameTurn
  <2>5. HandlerInv(a)'
    BY <1>1, <2>1, <2>2, <2>4 DEF HandlerInv, ClaimHeld, RungKept
  <2> QED
    BY <1>1, <2>1, <2>5, LockInvByOne
<1>8. CASE ClaimTurn(a)
  <2>1. Takes(a) /\ session' = session /\ log' = log
    BY <1>8 DEF ClaimTurn, Takes
  <2> QED
    BY <1>1, <2>1, TakesLockInv
<1> QED
  BY <1>2, <1>4, <1>5, <1>6, <1>7, <1>8 DEF Answer

LEMMA HintLockInv ==
    ASSUME TypeInv, LockInv, NEW h \in Hinters, GiveHint(h), ~RecordHint(h)
    PROVE  LockInv'
<1>1. /\ TypeOK /\ h \in Handlers /\ h \in Turns /\ h \notin Viewers /\ h \notin Answerers
      /\ HandlerInv(h)
  BY DEF TypeInv, Handlers, Turns, LockInv
<1>2. CASE RefuseHint(h)
  <2>1. Waits(h) /\ phase'[h] = "idle"
    BY <1>1, <1>2, HintWaits, StepMoves DEF RefuseHint
  <2> QED
    BY <1>1, <2>1, IdleKnowsNothing, LockInvByOne
<1>3. CASE WriteHint(h)
  <2>1. Waits(h) /\ phase[h] = "counted" /\ phase'[h] = "ready" /\ turn'[h] = turn[h]
        /\ turn[h].hints < MaxHints
    BY <1>1, <1>3, HintWaits, StepMoves DEF WriteHint, RungLeft
  <2>2. NotAhead(h)' /\ QuestionOpen(h)'
    BY <1>1, <2>1, KnownKept DEF Waits, HasFound
  <2>3. HandlerInv(h)'
    BY <1>1, <2>1, <2>2 DEF HandlerInv, ClaimHeld, MoveAllowed, HasDecided, RungKept
  <2> QED
    BY <1>1, <2>1, <2>3, LockInvByOne
<1>4. CASE LockTurn(h)
  <2>1. Takes(h) /\ session' = session /\ log' = log
    BY <1>4 DEF LockTurn, Takes
  <2> QED
    BY <1>1, <2>1, TakesLockInv
<1> QED
  BY <1>2, <1>3, <1>4 DEF GiveHint

LEMMA ViewLockInv ==
    ASSUME TypeInv, LockInv, NEW v \in Viewers, ViewReport(v)
    PROVE  LockInv'
<1>1. TypeOK /\ v \in Handlers /\ v \notin Turns /\ phase[v] # "claimed"
  BY DEF TypeInv, Handlers, LockInv
<1> QED
  BY <1>1, ViewWaits, LockInvByOne

LEMMA EndLockInv ==
    ASSUME TypeInv, LockInv, NEW h \in Handlers, Fail(h) \/ Rollback(h) \/ End(h)
    PROVE  LockInv'
<1>1. TypeOK
  BY DEF TypeInv
<1>2. CASE Fail(h)
  BY <1>1, <1>2, FailWaits, IdleKnowsNothing, LockInvByOne
<1>3. CASE End(h)
  BY <1>1, <1>3, SettleWaits, IdleKnowsNothing, LockInvByOne
<1>4. CASE Rollback(h)
  <2>1. phase[h] = "claimed" /\ phase'[h] = "settle" /\ Others(h) /\ lock' = Nobody
        /\ session' = session /\ log' = log
    BY <1>1, <1>4, OverMoves DEF Rollback
  <2>2. h \in Turns /\ lock = h
    BY <2>1 DEF LockInv, HandlerInv, ClaimHeld, Turns, Handlers
  <2>3. Waits(h)
    BY <2>1, <2>2 DEF Waits, SameTurn
  <2> QED
    BY <2>1, <2>3, IdleKnowsNothing, LockInvByOne
<1> QED
  BY <1>2, <1>3, <1>4

(* What the three actions that write the transcript append to it *)

\* Whether a turn asks a question, and of which stage.
Asks(t) == t.move # "advance" \/ t.stage < NumStages
NewStage(t) == IF t.move = "advance" THEN t.stage + 1 ELSE t.stage

\* The transcript only grows.
Extends ==
    Len(log') \in Nat /\ Len(log') >= Len(log) /\ \A i \in 1 .. Len(log) : log'[i] = log[i]

LEMMA NextQuestionShape ==
    ASSUME NEW t \in TurnRecords, t.move # "open"
    PROVE  /\ Asks(t) => /\ NextQuestion(t) = <<NextQuestion(t)[1]>>
                         /\ IsQuestion(NextQuestion(t)[1])
                         /\ NextQuestion(t)[1].stage = NewStage(t)
                         /\ NextQuestion(t)[1].move = t.move
           /\ ~Asks(t) => NextQuestion(t) = <<>>
<1>1. t.move \in {"challenge", "followup", "probe", "pivot", "advance"}
  BY DEF TurnRecords, Moves
<1>2. CASE t.move \in {"challenge", "followup", "probe"}
  BY <1>2 DEF NextQuestion, QuestionMsg, IsQuestion, Asks, NewStage
<1>3. CASE t.move = "pivot"
  BY <1>3 DEF NextQuestion, QuestionMsg, IsQuestion, Asks, NewStage
<1>4. CASE t.move = "advance" /\ t.stage < NumStages
  BY <1>4 DEF NextQuestion, QuestionMsg, IsQuestion, Asks, NewStage
<1>5. CASE t.move = "advance" /\ ~(t.stage < NumStages)
  BY <1>5 DEF NextQuestion, Asks
<1> QED
  BY <1>1, <1>2, <1>3, <1>4, <1>5

\* The hints since the open question are all there is behind it.
LEMMA OpenHints ==
    ASSUME NEW q, OpenAt(q), Len(log) \in Nat
    PROVE  Cardinality(HintsSince(log, session.stage, q)) = Len(log) - q
<1>1. q \in 1 .. Len(log) /\ q + 1 \in Int
  BY DEF OpenAt
<1>2. HintsSince(log, session.stage, q) = q + 1 .. Len(log)
  BY DEF OpenAt, IsOpen, HintsSince
<1> QED
  BY <1>1, <1>2, FS_Interval

\* A turn is committed on the question it was graded for, with its hints.
CommitFacts(a) ==
    /\ session.status = "active" /\ session.stage = turn[a].stage
    /\ session.count = turn[a].count /\ turn[a].stage \in 1 .. NumStages
    /\ turn[a] \in TurnRecords /\ turn[a].raw \in RawScores /\ turn[a].move # "open"
    /\ OpenAt(turn[a].question) /\ turn[a].hints = Len(log) - turn[a].question
    /\ lock = a /\ lock' = Nobody /\ phase'[a] = "settle" /\ Others(a)
    /\ turn[a].move # "advance" => turn[a].count + 1 < Limit
    /\ turn[a].move = "probe" => ~ProbeStalled(a)

CommitLog(a) ==
    LET t == turn[a]
        n == Len(log)
    IN  /\ Extends
        /\ log'[n + 1] = AnswerMsg(t.stage, t.question)
        /\ log'[n + 2] = EvaluationMsg(t.stage, t.question, t.hints, t.raw)
        /\ Asks(t) => /\ Len(log') = n + 3
                      /\ IsQuestion(log'[n + 3])
                      /\ log'[n + 3].stage = NewStage(t)
                      /\ log'[n + 3].move = t.move
        /\ ~Asks(t) => Len(log') = n + 2

CommitSession(a) ==
    /\ session'.mode = session.mode /\ session'.report = session.report
    /\ turn[a].move # "advance" =>
          /\ session'.status = "active" /\ session'.stage = session.stage
          /\ session'.count = session.count + 1
    /\ turn[a].move = "advance" =>
          /\ session'.stage = session.stage + 1 /\ session'.count = 0
          /\ session'.status = IF session.stage < NumStages THEN "active" ELSE "completed"

LEMMA CommitEffect ==
    ASSUME TypeInv, LockInv, NEW a \in Answerers, CommitTurn(a)
    PROVE  CommitFacts(a) /\ CommitLog(a) /\ CommitSession(a)
<1>1. /\ TypeOK /\ a \in Handlers /\ a \in Turns /\ turn[a] \in TurnRecords /\ Len(log) \in Nat
      /\ HandlerInv(a) /\ Filled(a, phase[a], turn[a]) /\ log \in Seq(Messages)
  BY DEF TypeInv, TypeOK, Handlers, Turns, LockInv
<1>2. phase[a] = "claimed" /\ phase'[a] = "settle" /\ Others(a)
  BY <1>1, OverMoves DEF CommitTurn
<1>3. lock = a /\ TurnIsCurrent(a) /\ OpenAt(turn[a].question)
  BY <1>1, <1>2 DEF HandlerInv, ClaimHeld, QuestionOpen, HasFound
<1>4. turn[a].stage \in 1 .. NumStages /\ turn[a].raw \in RawScores
  BY <1>1, <1>2 DEF Filled
<1>5. turn[a].hints = Len(log) - turn[a].question
  BY <1>1, <1>3, OpenHints DEF CommitTurn, HintsUnchanged, HintCount, TurnIsCurrent
<1>6. CommitFacts(a)
  BY <1>1, <1>2, <1>3, <1>4, <1>5
     DEF CommitFacts, CommitTurn, TurnIsCurrent, HandlerInv, MoveAllowed, HasDecided
<1>7. CommitLog(a)
  <2> DEFINE x == AnswerMsg(turn[a].stage, turn[a].question)
             y == EvaluationMsg(turn[a].stage, turn[a].question, turn[a].hints, turn[a].raw)
             z == NextQuestion(turn[a])[1]
  <2>1. log' = log \o (<<x, y>> \o NextQuestion(turn[a]))
    BY DEF CommitTurn, TurnMessages
  <2>2. turn[a].move # "open"
    BY <1>6 DEF CommitFacts
  <2> HIDE DEF x, y, z
  <2>3. CASE Asks(turn[a])
    <3>1. NextQuestion(turn[a]) = <<z>> /\ IsQuestion(z) /\ z.stage = NewStage(turn[a])
          /\ z.move = turn[a].move
      BY <1>1, <2>2, <2>3, NextQuestionShape DEF z
    <3>2. log' = log \o <<x, y, z>>
      BY <2>1, <3>1
    <3>3. Len(log') = Len(log) + 3 /\ \A i \in 1 .. Len(log) : log'[i] = log[i]
      BY <1>1, <3>2
    <3>4. log'[Len(log) + 1] = x /\ log'[Len(log) + 2] = y /\ log'[Len(log) + 3] = z
      BY <1>1, <3>2
    <3> QED
      BY <1>1, <2>3, <3>1, <3>3, <3>4 DEF CommitLog, Extends, x, y
  <2>4. CASE ~Asks(turn[a])
    <3>1. NextQuestion(turn[a]) = <<>>
      BY <1>1, <2>2, <2>4, NextQuestionShape
    <3>2. log' = log \o <<x, y>>
      BY <2>1, <3>1
    <3>3. Len(log') = Len(log) + 2 /\ \A i \in 1 .. Len(log) : log'[i] = log[i]
      BY <1>1, <3>2
    <3>4. log'[Len(log) + 1] = x /\ log'[Len(log) + 2] = y
      BY <1>1, <3>2
    <3> QED
      BY <1>1, <2>4, <3>3, <3>4 DEF CommitLog, Extends, x, y
  <2> QED
    BY <2>3, <2>4
<1>8. CommitSession(a)
  <2>1. session' = TurnUpdate(turn[a]) /\ session \in Sessions
        /\ session.status = "active" /\ session.stage = turn[a].stage
    BY <1>1, <1>3 DEF CommitTurn, TypeOK, TurnIsCurrent
  <2> QED
    BY <2>1 DEF CommitSession, TurnUpdate, Sessions
<1> QED
  BY <1>6, <1>7, <1>8

\* A hint is recorded on the open question, as its next rung.
RecordFacts(h) ==
    /\ session.status = "active" /\ session.stage = turn[h].stage
    /\ turn[h].stage \in 1 .. NumStages /\ session' = session
    /\ OpenAt(turn[h].question) /\ turn[h].hints = Len(log) - turn[h].question
    /\ turn[h].hints < MaxHints
    /\ lock = h /\ lock' = Nobody /\ phase'[h] = "settle" /\ Others(h)
    /\ Extends /\ Len(log') = Len(log) + 1
    /\ log'[Len(log) + 1] = HintMsg(turn[h].stage, turn[h].hints + 1)

LEMMA RecordEffect ==
    ASSUME TypeInv, LockInv, NEW h \in Hinters, RecordHint(h)
    PROVE  RecordFacts(h)
<1>1. /\ TypeOK /\ h \in Handlers /\ h \in Turns /\ Len(log) \in Nat
      /\ HandlerInv(h) /\ Filled(h, phase[h], turn[h]) /\ log \in Seq(Messages)
  BY DEF TypeInv, TypeOK, Handlers, Turns, LockInv
<1>2. phase[h] = "claimed" /\ phase'[h] = "settle" /\ Others(h)
  BY <1>1, OverMoves DEF RecordHint
<1>3. lock = h /\ TurnIsCurrent(h) /\ OpenAt(turn[h].question) /\ turn[h].hints < MaxHints
  BY <1>1, <1>2 DEF HandlerInv, ClaimHeld, QuestionOpen, HasFound, RungKept
<1>4. turn[h].hints = Len(log) - turn[h].question
  BY <1>1, <1>3, OpenHints DEF RecordHint, HintsUnchanged, HintCount, TurnIsCurrent
<1>5. Extends /\ Len(log') = Len(log) + 1
      /\ log'[Len(log) + 1] = HintMsg(turn[h].stage, turn[h].hints + 1)
  <2> DEFINE x == HintMsg(turn[h].stage, turn[h].hints + 1)
  <2>1. log' = Append(log, x)
    BY DEF RecordHint
  <2> HIDE DEF x
  <2>2. Len(log') = Len(log) + 1 /\ log'[Len(log) + 1] = x
        /\ \A i \in 1 .. Len(log) : log'[i] = log[i]
    BY <1>1, <2>1
  <2> QED
    BY <1>1, <2>2 DEF Extends, x
<1> QED
  BY <1>1, <1>2, <1>3, <1>4, <1>5 DEF RecordFacts, RecordHint, TurnIsCurrent, Filled

(* They keep what the other handlers know *)

LEMMA StartLockInv ==
    ASSUME TypeInv, LockInv, NEW a \in Answerers, NEW mode \in Modes, Start(a, mode)
    PROVE  LockInv'
<1>1. TypeOK /\ a \in Handlers /\ a \notin Viewers
  BY DEF TypeInv, Handlers, Turns
<1>2. /\ phase'[a] = "settle" /\ \A g \in Handlers \ {a} : phase'[g] = phase[g]
      /\ session.status = "none" /\ session'.status = "active" /\ session'.stage = 1
      /\ log' = <<QuestionMsg("question", 1, "open")>>
  BY <1>1, StepMoves DEF Start, NoSession
<1>3. ASSUME NEW g \in Turns PROVE HandlerInv(g)'
  <2>1. g \in Handlers /\ ~Working(g)
    BY <1>2 DEF LockInv, HandlerInv, NotAhead, Handlers, Turns
  <2>2. phase'[g] \in {"idle", "settle"}
    BY <1>2, <2>1 DEF Working
  <2> QED
    BY <2>2, IdleKnowsNothing
<1>4. Awaiting'
  <2>1. Len(log') = 1 /\ log'[1] = QuestionMsg("question", 1, "open")
    BY <1>2
  <2>2. OpenAt(1)'
    BY <1>2, <2>1 DEF OpenAt, IsOpen, IsQuestion, QuestionMsg
  <2> QED
    BY <2>1, <2>2 DEF Awaiting
<1>5. \A v \in Viewers : phase'[v] # "claimed"
  BY <1>1, <1>2 DEF LockInv, Handlers
<1> QED
  BY <1>3, <1>4, <1>5 DEF LockInv

LEMMA CommitLockInv ==
    ASSUME TypeInv, LockInv, NEW a \in Answerers, CommitTurn(a)
    PROVE  LockInv'
<1>1. /\ TypeOK /\ a \in Handlers /\ a \notin Viewers /\ Len(log) \in Nat
      /\ session.stage \in Nat /\ session.count \in Nat
  BY DEF TypeInv, TypeOK, Handlers, Turns, Sessions, Report
<1>2. CommitFacts(a) /\ CommitLog(a) /\ CommitSession(a)
  BY CommitEffect
<1>3. ASSUME NEW g \in Turns, g # a PROVE HandlerInv(g)'
  <2>1. /\ g \in Handlers /\ phase'[g] = phase[g] /\ turn'[g] = turn[g] /\ HandlerInv(g)
        /\ turn[g].stage \in Nat /\ turn[g].count \in Nat
    <3>1. g \in Handlers /\ HandlerInv(g)
      BY DEF Handlers, Turns, LockInv
    <3>2. phase'[g] = phase[g] /\ turn'[g] = turn[g]
      BY <1>2, <1>3, <3>1 DEF CommitFacts, Others
    <3>3. turn[g] \in TurnRecords
      BY <1>1 DEF TypeOK
    <3>4. turn[g].stage \in Nat /\ turn[g].count \in Nat
      BY <3>3 DEF TurnRecords
    <3> QED
      BY <3>1, <3>2, <3>4
  <2>2. phase[g] # "claimed"
    BY <1>2, <1>3, <2>1 DEF CommitFacts, HandlerInv, ClaimHeld
  <2>3. CASE ~Working(g)
    BY <2>1, <2>3, IdleKnowsNothing DEF Working
  <2>4. CASE Working(g)
    <3>1. NotAhead(g)' /\ ~TurnIsCurrent(g)'
      BY <1>1, <1>2, <2>1, <2>4 DEF HandlerInv, NotAhead, Working, TurnIsCurrent, CommitSession, CommitFacts
    <3>2. MoveAllowed(g)'
      BY <1>2, <2>1, <3>1 DEF HandlerInv, MoveAllowed, HasDecided, Limit, CommitSession
    <3> QED
      BY <2>1, <2>2, <3>1, <3>2 DEF HandlerInv, ClaimHeld, QuestionOpen, RungKept
  <2> QED
    BY <2>3, <2>4
<1>4. HandlerInv(a)'
  BY <1>2, IdleKnowsNothing DEF CommitFacts
<1>5. Awaiting'
  <2>1. CASE Asks(turn[a])
    <3>1. /\ Len(log') = Len(log) + 3 /\ IsQuestion(log'[Len(log) + 3])
          /\ log'[Len(log) + 3].stage = session'.stage
      BY <1>2, <2>1 DEF CommitLog, CommitFacts, CommitSession, NewStage
    <3>2. PICK m \in Nat : m = Len(log) + 3
      BY <1>1
    <3>3. OpenAt(m)'
      BY <1>1, <3>1, <3>2 DEF OpenAt, IsOpen, IsQuestion
    <3> QED
      BY <1>1, <3>1, <3>2, <3>3 DEF Awaiting
  <2>2. CASE ~Asks(turn[a])
    BY <1>2, <2>2 DEF Asks, CommitSession, CommitFacts, Awaiting
  <2> QED
    BY <2>1, <2>2
<1>6. \A v \in Viewers : phase'[v] # "claimed"
  BY <1>1, <1>2 DEF LockInv, Handlers, CommitFacts, Others
<1> QED
  BY <1>3, <1>4, <1>5, <1>6 DEF LockInv

LEMMA RecordLockInv ==
    ASSUME TypeInv, LockInv, NEW h \in Hinters, RecordHint(h)
    PROVE  LockInv'
<1>1. TypeOK /\ h \in Handlers /\ h \notin Viewers /\ Len(log) \in Nat /\ h \in Turns
  BY DEF TypeInv, TypeOK, Handlers, Turns
<1>2. RecordFacts(h)
  BY RecordEffect
<1>3. ASSUME NEW q, OpenAt(q) PROVE OpenAt(q)'
  <2>1. q = turn[h].question
    BY <1>1, <1>2, <1>3, OpenIsOne DEF RecordFacts
  <2>2. /\ q \in 1 .. Len(log) /\ Len(log') = Len(log) + 1 /\ session' = session
        /\ log'[Len(log) + 1].kind = "hint" /\ log'[Len(log) + 1].stage = session.stage
        /\ log'[Len(log) + 1].level = Len(log) + 1 - q
        /\ \A i \in 1 .. Len(log) : log'[i] = log[i]
    BY <1>1, <1>2, <1>3, <2>1 DEF RecordFacts, HintMsg, Extends, OpenAt
  <2>3. PICK n \in Nat : n = Len(log)
    BY <1>1
  <2>4. q \in 1 .. Len(log') /\ IsQuestion(log'[q]) /\ log'[q].stage = session'.stage
    BY <1>3, <2>2, <2>3 DEF OpenAt, IsOpen, IsQuestion
  <2>5. ASSUME NEW j \in q + 1 .. Len(log')
        PROVE  log'[j].kind = "hint" /\ log'[j].stage = session'.stage /\ log'[j].level = j - q
    <3>1. CASE j = n + 1
      BY <2>2, <2>3, <3>1
    <3>2. CASE j # n + 1
      <4>1. j \in q + 1 .. n /\ log'[j] = log[j]
        BY <2>2, <2>3, <3>2
      <4> QED
        BY <1>3, <2>2, <2>3, <4>1 DEF OpenAt, IsOpen
    <3> QED
      BY <3>1, <3>2
  <2> QED
    BY <2>4, <2>5 DEF OpenAt, IsOpen, IsQuestion
<1>4. ASSUME NEW g \in Turns, g # h PROVE HandlerInv(g)'
  <2>1. /\ g \in Handlers /\ phase'[g] = phase[g] /\ turn'[g] = turn[g] /\ HandlerInv(g)
        /\ session' = session
    BY <1>2, <1>4 DEF RecordFacts, Others, Handlers, Turns, LockInv
  <2>2. phase[g] # "claimed"
    BY <1>2, <1>4, <2>1 DEF RecordFacts, HandlerInv, ClaimHeld
  <2>3. NotAhead(g)' /\ QuestionOpen(g)' /\ RungKept(g)' /\ ClaimHeld(g)'
    BY <1>3, <2>1, <2>2 DEF HandlerInv, NotAhead, Working, QuestionOpen, HasFound, TurnIsCurrent,
                            RungKept, ClaimHeld
  <2>4. ProbeStalled(g)' <=> ProbeStalled(g)
    <3>1. Evaluations(log', turn[g].stage) = Evaluations(log, turn[g].stage)
      <4>1. log'[Len(log) + 1].kind # "evaluation"
        BY <1>2 DEF RecordFacts, HintMsg
      <4>2. \A i : i \in 1 .. Len(log') <=> i \in 1 .. Len(log) \/ i = Len(log) + 1
        BY <1>1, <1>2 DEF RecordFacts
      <4> QED
        BY <1>2, <4>1, <4>2 DEF Evaluations, RecordFacts, Extends
    <3>2. \A i \in Evaluations(log, turn[g].stage) : log'[i] = log[i]
      BY <1>2 DEF Evaluations, RecordFacts, Extends
    <3> QED
      BY <2>1, <3>1, <3>2 DEF ProbeStalled
  <2>5. MoveAllowed(g)'
    BY <2>1, <2>4 DEF HandlerInv, MoveAllowed, HasDecided, Limit, TurnIsCurrent
  <2> QED
    BY <2>3, <2>5 DEF HandlerInv
<1>5. HandlerInv(h)'
  BY <1>2, IdleKnowsNothing DEF RecordFacts
<1>6. Awaiting'
  BY <1>1, <1>2, <1>3 DEF RecordFacts, Awaiting, OpenAt
<1>7. \A v \in Viewers : phase'[v] # "claimed"
  BY <1>1, <1>2 DEF LockInv, Handlers, RecordFacts, Others
<1> QED
  BY <1>4, <1>5, <1>6, <1>7 DEF LockInv

LEMMA LockInvInit == Init => LockInv
BY DEF Init, NoSession, LockInv, HandlerInv, ClaimHeld, NotAhead, Working, QuestionOpen,
       HasFound, MoveAllowed, HasDecided, RungKept, Awaiting, Handlers, Turns

LEMMA LockInvStep == TypeInv /\ LockInv /\ [Next]_vars => LockInv'
<1> SUFFICES ASSUME TypeInv, LockInv, [Next]_vars PROVE LockInv'
  OBVIOUS
<1>1. CASE Next
  BY <1>1, StartLockInv, LoadLockInv, CommitLockInv, AnswerLockInv, RecordLockInv, HintLockInv,
     ViewLockInv, EndLockInv DEF Next
<1>2. CASE UNCHANGED vars
  <2>1. ASSUME NEW g \in Turns PROVE HandlerInv(g)'
    <3>1. /\ session' = session /\ log' = log /\ lock' = lock /\ phase' = phase /\ turn' = turn
          /\ HandlerInv(g)
      BY <1>2 DEF vars, LockInv
    <3>2. TurnIsCurrent(g)' <=> TurnIsCurrent(g)
      BY <3>1 DEF TurnIsCurrent
    <3>3. ProbeStalled(g)' <=> ProbeStalled(g)
      BY <3>1 DEF ProbeStalled, Evaluations
    <3>4. ClaimHeld(g)' /\ NotAhead(g)' /\ RungKept(g)'
      BY <3>1, <3>2 DEF HandlerInv, ClaimHeld, NotAhead, Working, RungKept
    <3>5. QuestionOpen(g)'
      BY <3>1, <3>2, OpenKept DEF HandlerInv, QuestionOpen, HasFound
    <3>6. MoveAllowed(g)'
      BY <3>1, <3>2, <3>3 DEF HandlerInv, MoveAllowed, HasDecided, Limit
    <3> QED
      BY <3>4, <3>5, <3>6 DEF HandlerInv
  <2>2. Awaiting'
    BY <1>2, OpenKept DEF vars, LockInv, Awaiting
  <2> QED
    BY <1>2, <2>1, <2>2 DEF vars, LockInv
<1> QED
  BY <1>1, <1>2

\* What a step does to the transcript, whoever takes it.
Writes ==
    \/ \E a \in Answerers, mode \in Modes : Start(a, mode)
    \/ \E a \in Answerers : CommitTurn(a)
    \/ \E h \in Hinters : RecordHint(h)

LEMMA NotWriting ==
    ASSUME TypeOK, [Next]_vars, ~Writes
    PROVE  SameTurn
<1>1. CASE UNCHANGED vars
  BY <1>1 DEF vars, SameTurn
<1>2. CASE \E h \in Turns : Load(h)
  BY <1>2, LoadWaits DEF Waits
<1>3. ASSUME NEW a \in Answerers, Answer(a) PROVE SameTurn
  <2>1. CASE ClaimTurn(a)
    BY <2>1 DEF ClaimTurn, SameTurn
  <2>2. CASE ~ClaimTurn(a)
    BY <1>3, <2>2, AnswerWaits DEF Answer, Writes, Waits
  <2> QED
    BY <2>1, <2>2
<1>4. ASSUME NEW h \in Hinters, GiveHint(h) PROVE SameTurn
  <2>1. CASE LockTurn(h)
    BY <2>1 DEF LockTurn, SameTurn
  <2>2. CASE ~LockTurn(h)
    BY <1>4, <2>2, HintWaits DEF GiveHint, Writes, Waits
  <2> QED
    BY <2>1, <2>2
<1>5. CASE \E v \in Viewers : ViewReport(v)
  BY <1>5, ViewWaits DEF Waits
<1>6. ASSUME NEW h \in Handlers, Fail(h) \/ Rollback(h) \/ End(h) PROVE SameTurn
  BY <1>6, FailWaits, SettleWaits DEF Waits, Rollback, SameTurn
<1> QED
  BY <1>1, <1>2, <1>3, <1>4, <1>5, <1>6 DEF Next, Writes

\* Once the interview is completed nothing claims its row again: no late answer or hint
\* is added, whatever was under way (claimTurn).
THEOREM Closed == Spec => ClosedWhenCompleted
<1>1. ASSUME TypeInv, LockInv, [Next]_vars, session.status = "completed"
      PROVE  session'.status = "completed" /\ log' = log
  <2>1. ~Writes
    BY <1>1, CommitEffect, RecordEffect DEF Writes, Start, CommitFacts, RecordFacts
  <2> QED
    BY <1>1, <2>1, NotWriting DEF SameTurn, TypeInv
<1>2. TypeInv /\ LockInv /\ [Next]_vars
        => [session.status = "completed" => session'.status = "completed" /\ log' = log]_vars
  BY <1>1
<1> QED
  BY <1>2, InitTypeInv, NextTypeInv, LockInvInit, LockInvStep, PTL DEF Spec, ClosedWhenCompleted

------------------------------------------------------------------------------
(* The transcript *)

LEMMA OpenQuestionKept ==
    ASSUME Extends, Len(log) \in Nat, NEW i \in 1 .. Len(log), NEW q
    PROVE  OpenQuestionAt(i, q)' <=> OpenQuestionAt(i, q)
<1>1. \A j \in 1 .. i : log'[j] = log[j]
  BY DEF Extends
<1>2. ASSUME NEW k \in Nat, k \in 1 .. i - 1
      PROVE  log'[k] = log[k] /\ log'[i] = log[i] /\ \A j \in k + 1 .. i - 1 : log'[j] = log[j]
  BY <1>1, <1>2
<1>3. q \in 1 .. i - 1 => q \in Nat
  OBVIOUS
<1> QED
  BY <1>2, <1>3 DEF OpenQuestionAt, IsQuestion

\* An appended message of the current stage has the open question behind it.
LEMMA AppendedToOpen ==
    ASSUME Extends, Len(log) \in Nat, NEW q, OpenAt(q), Len(log') > Len(log),
           log'[Len(log) + 1].stage = session.stage
    PROVE  LET i == Len(log) + 1
           IN  /\ q \in 1 .. i - 1
               /\ IsQuestion(log'[q])
               /\ log'[q].stage = log'[i].stage
               /\ \A j \in q + 1 .. i - 1 : log'[j].kind = "hint"
BY DEF Extends, OpenAt, IsOpen, IsQuestion

AnsweredAt(i) ==
    /\ OpenQuestionAt(i, log[i].to)
    /\ i < Len(log)
    /\ log[i + 1].kind = "evaluation"
    /\ log[i + 1].to = log[i].to

LEMMA StartAnswers ==
    ASSUME NEW a \in Answerers, NEW mode \in Modes, Start(a, mode)
    PROVE  Len(log') = 1 /\ log'[1] = QuestionMsg("question", 1, "open")
BY DEF Start

LEMMA AnswersStep ==
    TypeInv /\ LockInv /\ AnswersOpenQuestion /\ [Next]_vars => AnswersOpenQuestion'
<1> SUFFICES ASSUME TypeInv, LockInv, AnswersOpenQuestion, [Next]_vars
             PROVE  AnswersOpenQuestion'
  OBVIOUS
<1>0. TypeOK /\ Len(log) \in Nat
  BY DEF TypeInv, TypeOK
<1>1. ASSUME NEW a \in Answerers, NEW mode \in Modes, Start(a, mode)
      PROVE  AnswersOpenQuestion'
  BY <1>1, StartAnswers DEF AnswersOpenQuestion, QuestionMsg
<1>2. ASSUME Extends, NEW i \in 1 .. Len(log), log'[i].kind = "answer" PROVE AnsweredAt(i)'
  <2>1. PICK q : q = log[i].to
    OBVIOUS
  <2>2. log[i].kind = "answer" /\ log'[i] = log[i]
    BY <1>2 DEF Extends
  <2>3. AnsweredAt(i)
    BY <2>2 DEF AnswersOpenQuestion, AnsweredAt
  <2>4. OpenQuestionAt(i, q)'
    BY <1>0, <1>2, <2>1, <2>3, OpenQuestionKept DEF AnsweredAt
  <2>5. i + 1 \in 1 .. Len(log) /\ Len(log') >= Len(log) /\ Len(log') \in Nat
    BY <1>0, <1>2, <2>3 DEF AnsweredAt, Extends
  <2>6. log'[i + 1] = log[i + 1]
    BY <1>2, <2>5 DEF Extends
  <2> QED
    BY <1>0, <2>1, <2>2, <2>3, <2>4, <2>5, <2>6 DEF AnsweredAt
<1>3. ASSUME NEW a \in Answerers, CommitTurn(a) PROVE AnswersOpenQuestion'
  <2>1. CommitFacts(a) /\ CommitLog(a)
    BY <1>3, CommitEffect
  <2>2. PICK n \in Nat, q \in Nat : n = Len(log) /\ q = turn[a].question
    BY <1>0, <2>1 DEF CommitFacts, TurnRecords
  <2>3. /\ log'[n + 1].stage = session.stage /\ log'[n + 1].to = q
        /\ log'[n + 2].kind = "evaluation" /\ log'[n + 2].to = q
        /\ Len(log') \in {n + 2, n + 3} /\ Extends /\ OpenAt(q)
        /\ Len(log') = n + 3 => log'[n + 3].kind # "answer"
    BY <2>1, <2>2 DEF CommitFacts, CommitLog, AnswerMsg, EvaluationMsg, IsQuestion
  <2>4. AnsweredAt(n + 1)'
    <3>1. OpenQuestionAt(n + 1, q)'
      BY <2>2, <2>3, AppendedToOpen DEF OpenQuestionAt
    <3> QED
      BY <2>2, <2>3, <3>1 DEF AnsweredAt
  <2>5. \A i \in 1 .. Len(log') : i \in 1 .. Len(log) \/ i = n + 1 \/ i = n + 2 \/ (i = n + 3 /\ Len(log') = n + 3)
    BY <2>2, <2>3
  <2> QED
    BY <1>2, <2>3, <2>4, <2>5 DEF AnswersOpenQuestion, AnsweredAt
<1>4. ASSUME NEW h \in Hinters, RecordHint(h) PROVE AnswersOpenQuestion'
  <2>1. RecordFacts(h)
    BY <1>4, RecordEffect
  <2>2. log'[Len(log) + 1].kind = "hint" /\ Len(log') = Len(log) + 1 /\ Extends
    BY <2>1 DEF RecordFacts, HintMsg
  <2>3. \A i \in 1 .. Len(log') : i \in 1 .. Len(log) \/ i = Len(log) + 1
    BY <1>0, <2>2
  <2> QED
    BY <1>2, <2>2, <2>3 DEF AnswersOpenQuestion, AnsweredAt
<1>5. CASE ~Writes
  <2>1. log' = log
    BY <1>0, <1>5, NotWriting DEF SameTurn
  <2> QED
    BY <2>1 DEF AnswersOpenQuestion, OpenQuestionAt, IsQuestion
<1> QED
  BY <1>1, <1>3, <1>4, <1>5 DEF Writes

\* An evaluation names an earlier message, so its hints are counted in what is written.
ChargedAt(i) ==
    /\ log[i].to \in 1 .. i
    /\ log[i].hints = Cardinality({j \in log[i].to .. i : log[j].kind = "hint"})

ChargedInv == \A i \in 1 .. Len(log) : log[i].kind = "evaluation" => ChargedAt(i)

LEMMA ChargedStep == TypeInv /\ LockInv /\ ChargedInv /\ [Next]_vars => ChargedInv'
<1> SUFFICES ASSUME TypeInv, LockInv, ChargedInv, [Next]_vars PROVE ChargedInv'
  OBVIOUS
<1>0. TypeOK /\ Len(log) \in Nat
  BY DEF TypeInv, TypeOK
<1>1. ASSUME NEW a \in Answerers, NEW mode \in Modes, Start(a, mode) PROVE ChargedInv'
  BY <1>1, StartAnswers DEF ChargedInv, QuestionMsg
<1>2. ASSUME Extends, NEW i \in 1 .. Len(log), log'[i].kind = "evaluation" PROVE ChargedAt(i)'
  <2>1. log'[i] = log[i] /\ ChargedAt(i)
    BY <1>2 DEF Extends, ChargedInv
  <2>2. {j \in log[i].to .. i : log'[j].kind = "hint"} = {j \in log[i].to .. i : log[j].kind = "hint"}
    BY <1>0, <1>2, <2>1 DEF Extends, ChargedAt
  <2> QED
    BY <2>1, <2>2 DEF ChargedAt
<1>3. ASSUME NEW a \in Answerers, CommitTurn(a) PROVE ChargedInv'
  <2>1. CommitFacts(a) /\ CommitLog(a)
    BY <1>3, CommitEffect
  <2>2. PICK n \in Nat, q \in Nat : n = Len(log) /\ q = turn[a].question
    BY <1>0, <2>1 DEF CommitFacts, TurnRecords
  <2>3. /\ log'[n + 1].kind = "answer"
        /\ log'[n + 2].kind = "evaluation" /\ log'[n + 2].to = q /\ log'[n + 2].hints = n - q
        /\ Len(log') \in {n + 2, n + 3} /\ Extends /\ OpenAt(q)
        /\ Len(log') = n + 3 => log'[n + 3].kind # "evaluation"
    BY <2>1, <2>2 DEF CommitFacts, CommitLog, AnswerMsg, EvaluationMsg, IsQuestion
  <2>4. q \in 1 .. n /\ log[q].kind # "hint" /\ \A j \in q + 1 .. n : log[j].kind = "hint"
    BY <2>2, <2>3 DEF OpenAt, IsOpen, IsQuestion
  <2>5. {j \in q .. n + 2 : log'[j].kind = "hint"} = q + 1 .. n
    <3>1. \A j \in 1 .. n : log'[j] = log[j]
      BY <2>2, <2>3 DEF Extends
    <3>2. \A j \in q .. n + 2 : j = q \/ j \in q + 1 .. n \/ j = n + 1 \/ j = n + 2
      BY <2>4
    <3>3. \A j \in q .. n + 2 : log'[j].kind = "hint" <=> j \in q + 1 .. n
      <4>1. ASSUME NEW j \in q .. n + 2 PROVE log'[j].kind = "hint" <=> j \in q + 1 .. n
        <5>1. CASE j = q
          BY <2>4, <3>1, <5>1
        <5>2. CASE j \in q + 1 .. n
          BY <2>4, <3>1, <5>2
        <5>3. CASE j = n + 1 \/ j = n + 2
          BY <2>3, <5>3
        <5> QED
          BY <3>2, <5>1, <5>2, <5>3
      <4> QED
        BY <4>1
    <3>4. q + 1 .. n \subseteq q .. n + 2
      BY <2>4
    <3> QED
      BY <3>3, <3>4
  <2>6. Cardinality(q + 1 .. n) = n - q
    <3>1. q + 1 \in Int /\ n \in Int
      BY <2>4
    <3> QED
      BY <2>4, <3>1, FS_Interval
  <2>7. ChargedAt(n + 2)'
    <3>1. {j \in log'[n + 2].to .. n + 2 : log'[j].kind = "hint"} = q + 1 .. n
      BY <2>3, <2>5
    <3>2. log'[n + 2].to \in 1 .. n + 2
      BY <2>3, <2>4
    <3> QED
      BY <2>3, <2>6, <3>1, <3>2 DEF ChargedAt
  <2>8. \A i \in 1 .. Len(log') : i \in 1 .. Len(log) \/ i = n + 1 \/ i = n + 2 \/ (i = n + 3 /\ Len(log') = n + 3)
    BY <2>2, <2>3
  <2> QED
    BY <1>2, <2>3, <2>7, <2>8 DEF ChargedInv
<1>4. ASSUME NEW h \in Hinters, RecordHint(h) PROVE ChargedInv'
  <2>1. RecordFacts(h)
    BY <1>4, RecordEffect
  <2>2. log'[Len(log) + 1].kind = "hint" /\ Len(log') = Len(log) + 1 /\ Extends
    BY <2>1 DEF RecordFacts, HintMsg
  <2>3. \A i \in 1 .. Len(log') : i \in 1 .. Len(log) \/ i = Len(log) + 1
    BY <1>0, <2>2
  <2> QED
    BY <1>2, <2>2, <2>3 DEF ChargedInv
<1>5. CASE ~Writes
  <2>1. log' = log
    BY <1>0, <1>5, NotWriting DEF SameTurn
  <2> QED
    BY <2>1 DEF ChargedInv, ChargedAt
<1> QED
  BY <1>1, <1>3, <1>4, <1>5 DEF Writes

LEMMA LadderStep == TypeInv /\ LockInv /\ HintLadder /\ [Next]_vars => HintLadder'
<1> SUFFICES ASSUME TypeInv, LockInv, HintLadder, [Next]_vars PROVE HintLadder'
  OBVIOUS
<1>0. TypeOK /\ Len(log) \in Nat
  BY DEF TypeInv, TypeOK
<1> DEFINE RungAt(i, q) == /\ OpenQuestionAt(i, q)
                           /\ log[i].level = i - q
                           /\ log[i].level <= MaxHints
<1>1. ASSUME NEW a \in Answerers, NEW mode \in Modes, Start(a, mode) PROVE HintLadder'
  BY <1>1, StartAnswers DEF HintLadder, QuestionMsg
<1>2. ASSUME Extends, NEW i \in 1 .. Len(log), log'[i].kind = "hint"
      PROVE  \E q \in 1 .. i - 1 : RungAt(i, q)'
  <2>1. log'[i] = log[i]
    BY <1>2 DEF Extends
  <2>2. PICK q \in 1 .. i - 1 : RungAt(i, q)
    BY <1>2, <2>1 DEF HintLadder
  <2> QED
    BY <1>0, <1>2, <2>1, <2>2, OpenQuestionKept
<1>3. ASSUME NEW a \in Answerers, CommitTurn(a) PROVE HintLadder'
  <2>1. CommitFacts(a) /\ CommitLog(a)
    BY <1>3, CommitEffect
  <2>2. PICK n \in Nat : n = Len(log)
    BY <1>0
  <2>3. /\ log'[n + 1].kind # "hint" /\ log'[n + 2].kind # "hint"
        /\ Len(log') \in {n + 2, n + 3} /\ Extends
        /\ Len(log') = n + 3 => log'[n + 3].kind # "hint"
    BY <2>1, <2>2 DEF CommitLog, AnswerMsg, EvaluationMsg, IsQuestion
  <2>4. \A i \in 1 .. Len(log') : i \in 1 .. Len(log) \/ i = n + 1 \/ i = n + 2 \/ (i = n + 3 /\ Len(log') = n + 3)
    BY <2>2, <2>3
  <2> QED
    BY <1>2, <2>3, <2>4 DEF HintLadder
<1>4. ASSUME NEW h \in Hinters, RecordHint(h) PROVE HintLadder'
  <2>1. RecordFacts(h)
    BY <1>4, RecordEffect
  <2>2. PICK n \in Nat, q \in Nat : n = Len(log) /\ q = turn[h].question
    BY <1>0, <2>1 DEF RecordFacts, OpenAt
  <2>3. /\ Len(log') = n + 1 /\ Extends /\ OpenAt(q) /\ q \in 1 .. n
        /\ log'[n + 1].stage = session.stage
        /\ log'[n + 1].level = n + 1 - q /\ log'[n + 1].level <= MaxHints
    BY <2>1, <2>2 DEF RecordFacts, HintMsg, OpenAt
  <2>4. OpenQuestionAt(n + 1, q)'
    BY <2>2, <2>3, AppendedToOpen DEF OpenQuestionAt
  <2>5. \A i \in 1 .. Len(log') : i \in 1 .. Len(log) \/ i = n + 1
    BY <2>2, <2>3
  <2>6. RungAt(n + 1, q)' /\ q \in 1 .. n + 1 - 1
    BY <2>3, <2>4
  <2>7. \E p \in 1 .. n + 1 - 1 : RungAt(n + 1, p)'
    BY <2>6
  <2> HIDE DEF RungAt
  <2>8. \A i \in 1 .. Len(log') : log'[i].kind = "hint" => \E p \in 1 .. i - 1 : RungAt(i, p)'
    BY <1>2, <2>2, <2>3, <2>5, <2>7
  <2> QED
    BY <2>8 DEF HintLadder, RungAt
<1>5. CASE ~Writes
  <2>1. log' = log
    BY <1>0, <1>5, NotWriting DEF SameTurn
  <2> QED
    BY <2>1 DEF HintLadder, OpenQuestionAt, IsQuestion
<1> QED
  BY <1>1, <1>3, <1>4, <1>5 DEF Writes

\* No message is of a stage the interview has not come to, and it comes to a stage by an
\* evaluation of the one before.
Reached ==
    session.status = "active" =>
        /\ \A i \in 1 .. Len(log) : log[i].stage <= session.stage
        /\ session.stage > 1 =>
              \E j \in 1 .. Len(log) : log[j].kind = "evaluation" /\ log[j].stage = session.stage - 1

StageInv == StagesInOrder /\ Reached

\* Every message's stage is a number.
LEMMA StageIsNat ==
    ASSUME TypeOK, NEW i \in 1 .. Len(log)
    PROVE  log[i].stage \in 1 .. NumStages
<1>1. log[i] \in Messages
  BY DEF TypeOK
<1> QED
  BY <1>1 DEF Messages

OrderedAt(i) ==
    /\ \A j \in 1 .. i : log[j].stage <= log[i].stage
    /\ log[i].stage > 1 =>
          \E j \in 1 .. i : log[j].kind = "evaluation" /\ log[j].stage = log[i].stage - 1

\* A message of the current stage, put last, is in order.
LEMMA AppendedInOrder ==
    ASSUME Extends, Len(log) \in Nat, Reached, session.status = "active",
           NEW i \in Len(log) + 1 .. Len(log'), session.stage \in Nat,
           \A j \in Len(log) + 1 .. i : log'[j].stage = session.stage
    PROVE  OrderedAt(i)'
<1>1. \A j \in 1 .. i : j \in 1 .. Len(log) \/ j \in Len(log) + 1 .. i
  OBVIOUS
<1>2. log'[i].stage = session.stage
  OBVIOUS
<1>3. \A j \in 1 .. i : log'[j].stage <= log'[i].stage
  BY <1>1, <1>2 DEF Extends, Reached
<1>4. ASSUME session.stage > 1
      PROVE  \E j \in 1 .. i : log'[j].kind = "evaluation" /\ log'[j].stage = session.stage - 1
  <2>1. PICK j \in 1 .. Len(log) : log[j].kind = "evaluation" /\ log[j].stage = session.stage - 1
    BY <1>4 DEF Reached
  <2> QED
    BY <2>1 DEF Extends
<1> QED
  BY <1>2, <1>3, <1>4 DEF OrderedAt

LEMMA StageStep == TypeInv /\ LockInv /\ StageInv /\ [Next]_vars => StageInv'
<1> SUFFICES ASSUME TypeInv, LockInv, StageInv, [Next]_vars PROVE StageInv'
  OBVIOUS
<1>0. TypeOK /\ Len(log) \in Nat /\ session.stage \in Nat
  BY DEF TypeInv, TypeOK, Sessions, Report
<1>1. ASSUME NEW a \in Answerers, NEW mode \in Modes, Start(a, mode) PROVE StageInv'
  <2>1. Len(log') = 1 /\ log'[1].stage = 1 /\ session'.stage = 1
    BY <1>1, StartAnswers DEF QuestionMsg, Start, NoSession
  <2> QED
    BY <2>1 DEF StageInv, StagesInOrder, Reached
<1>2. ASSUME Extends, NEW i \in 1 .. Len(log) PROVE OrderedAt(i)'
  <2>1. OrderedAt(i)
    BY DEF StageInv, StagesInOrder, OrderedAt
  <2>2. \A j \in 1 .. i : log'[j] = log[j]
    BY <1>0, <1>2 DEF Extends
  <2> QED
    BY <2>1, <2>2 DEF OrderedAt
<1>3. ASSUME NEW a \in Answerers, CommitTurn(a) PROVE StageInv'
  <2>1. CommitFacts(a) /\ CommitLog(a) /\ CommitSession(a) /\ Extends
    BY <1>3, CommitEffect DEF CommitLog
  <2>2. PICK n \in Nat, s \in Nat : n = Len(log) /\ s = session.stage
    BY <1>0
  <2>3. /\ Len(log') \in {n + 2, n + 3}
        /\ log'[n + 1].stage = s /\ log'[n + 2].stage = s /\ log'[n + 2].kind = "evaluation"
        /\ session.status = "active" /\ s \in 1 .. NumStages
    BY <2>1, <2>2 DEF CommitLog, CommitFacts, AnswerMsg, EvaluationMsg
  <2>4. Len(log') = n + 3 => log'[n + 3].stage \in {s, s + 1}
    BY <2>1, <2>2 DEF CommitLog, CommitFacts, NewStage
  <2>5. OrderedAt(n + 1)' /\ OrderedAt(n + 2)'
    <3>1. /\ n + 1 \in Len(log) + 1 .. Len(log') /\ n + 2 \in Len(log) + 1 .. Len(log')
          /\ \A j \in Len(log) + 1 .. n + 2 : j = n + 1 \/ j = n + 2
      BY <2>2, <2>3
    <3>2. OrderedAt(n + 1)'
      BY <1>0, <2>1, <2>2, <2>3, <3>1, AppendedInOrder DEF StageInv
    <3>3. OrderedAt(n + 2)'
      BY <1>0, <2>1, <2>2, <2>3, <3>1, AppendedInOrder DEF StageInv
    <3> QED
      BY <3>2, <3>3
  <2>6. ASSUME Len(log') = n + 3 PROVE OrderedAt(n + 3)'
    <3>1. CASE log'[n + 3].stage = s
      <4>1. /\ n + 3 \in Len(log) + 1 .. Len(log')
            /\ \A j \in Len(log) + 1 .. n + 3 : j = n + 1 \/ j = n + 2 \/ j = n + 3
        BY <2>2, <2>6
      <4> QED
        BY <1>0, <2>1, <2>2, <2>3, <3>1, <4>1, AppendedInOrder DEF StageInv
    <3>2. CASE log'[n + 3].stage = s + 1
      <4>1. \A j \in 1 .. n : log'[j].stage <= s
        BY <2>1, <2>2, <2>3 DEF Extends, StageInv, Reached
      <4>2. \A j \in 1 .. n + 3 : j \in 1 .. n \/ j = n + 1 \/ j = n + 2 \/ j = n + 3
        OBVIOUS
      <4>3. ASSUME NEW j \in 1 .. n PROVE log'[j].stage \in Nat
        <5>1. log'[j] = log[j]
          BY <2>1, <2>2 DEF Extends
        <5>2. log[j].stage \in 1 .. NumStages
          BY <1>0, <2>2, StageIsNat
        <5> QED
          BY <5>1, <5>2
      <4>4. ASSUME NEW j \in 1 .. n + 3 PROVE log'[j].stage <= log'[n + 3].stage
        <5>1. CASE j \in 1 .. n
          <6>1. log'[j].stage \in Nat /\ log'[j].stage <= s
            BY <4>1, <4>3, <5>1
          <6> QED
            BY <3>2, <6>1
        <5>2. CASE j = n + 1 \/ j = n + 2 \/ j = n + 3
          BY <2>3, <3>2, <5>2
        <5> QED
          BY <4>2, <5>1, <5>2
      <4>5. n + 2 \in 1 .. n + 3 /\ log'[n + 2].stage = log'[n + 3].stage - 1
        BY <2>2, <2>3, <3>2
      <4> QED
        BY <2>3, <4>4, <4>5 DEF OrderedAt
    <3> QED
      BY <2>4, <2>6, <3>1, <3>2
  <2>7. \A i \in 1 .. Len(log') : i \in 1 .. Len(log) \/ i = n + 1 \/ i = n + 2 \/ (i = n + 3 /\ Len(log') = n + 3)
    BY <2>2, <2>3
  <2>8. StagesInOrder'
    BY <1>2, <2>1, <2>5, <2>6, <2>7 DEF StagesInOrder, OrderedAt
  <2>9. Reached'
    <3>1. \A i \in 1 .. n : log'[i].stage <= s /\ log'[i] = log[i] /\ log[i].stage \in 1 .. NumStages
      BY <1>0, <2>1, <2>2, <2>3, StageIsNat DEF Extends, StageInv, Reached
    <3>2. CASE turn[a].move # "advance"
      <4>1. session'.stage = s /\ (Len(log') = n + 3 => log'[n + 3].stage = s)
        BY <2>1, <2>2, <3>2 DEF CommitSession, CommitLog, CommitFacts, NewStage
      <4>2. \A i \in 1 .. Len(log') : log'[i].stage <= s
        BY <2>2, <2>3, <2>7, <3>1, <4>1
      <4>3. s > 1 => \E j \in 1 .. n : log[j].kind = "evaluation" /\ log[j].stage = s - 1
        BY <2>2, <2>3 DEF StageInv, Reached
      <4>4. s > 1 => \E j \in 1 .. Len(log') : log'[j].kind = "evaluation" /\ log'[j].stage = s - 1
        BY <2>3, <3>1, <4>3
      <4> QED
        BY <4>1, <4>2, <4>4 DEF Reached
    <3>3. CASE turn[a].move = "advance"
      <4>1. session'.stage = s + 1
        BY <2>1, <2>2, <3>3 DEF CommitSession
      <4>2. \A i \in 1 .. Len(log') : log'[i].stage <= s + 1
        <5>1. ASSUME NEW i \in 1 .. n PROVE log'[i].stage <= s + 1
          BY <2>2, <3>1
        <5>2. log'[n + 1].stage <= s + 1 /\ log'[n + 2].stage <= s + 1
          BY <2>3
        <5>3. Len(log') = n + 3 => log'[n + 3].stage <= s + 1
          BY <2>4
        <5> QED
          BY <2>2, <2>7, <5>1, <5>2, <5>3
      <4>3. n + 2 \in 1 .. Len(log') /\ log'[n + 2].stage = (s + 1) - 1
        BY <2>3
      <4> QED
        BY <2>3, <4>1, <4>2, <4>3 DEF Reached
    <3> QED
      BY <3>2, <3>3
  <2> QED
    BY <2>8, <2>9 DEF StageInv
<1>4. ASSUME NEW h \in Hinters, RecordHint(h) PROVE StageInv'
  <2>1. RecordFacts(h) /\ Extends
    BY <1>4, RecordEffect DEF RecordFacts
  <2>2. PICK n \in Nat, s \in Nat : n = Len(log) /\ s = session.stage
    BY <1>0
  <2>3. /\ Len(log') = n + 1 /\ log'[n + 1].stage = s /\ session' = session
        /\ session.status = "active"
    BY <2>1, <2>2 DEF RecordFacts, HintMsg
  <2>4. OrderedAt(n + 1)'
    <3>1. /\ n + 1 \in Len(log) + 1 .. Len(log')
          /\ \A j \in Len(log) + 1 .. n + 1 : j = n + 1
      BY <2>2, <2>3
    <3> QED
      BY <1>0, <2>1, <2>2, <2>3, <3>1, AppendedInOrder DEF StageInv
  <2>5. \A i \in 1 .. Len(log') : i \in 1 .. Len(log) \/ i = n + 1
    BY <2>2, <2>3
  <2>6. StagesInOrder'
    BY <1>2, <2>1, <2>4, <2>5 DEF StagesInOrder, OrderedAt
  <2>7. \A i \in 1 .. n : log'[i].stage <= s /\ log'[i] = log[i]
    BY <2>1, <2>2, <2>3 DEF Extends, StageInv, Reached
  <2>8. s > 1 => \E j \in 1 .. n : log[j].kind = "evaluation" /\ log[j].stage = s - 1
    BY <2>2, <2>3 DEF StageInv, Reached
  <2>9. Reached'
    <3>1. \A i \in 1 .. Len(log') : log'[i].stage <= s
      BY <2>2, <2>3, <2>5, <2>7
    <3>2. s > 1 => \E j \in 1 .. Len(log') : log'[j].kind = "evaluation" /\ log'[j].stage = s - 1
      BY <2>3, <2>7, <2>8
    <3> QED
      BY <2>2, <2>3, <3>1, <3>2 DEF Reached
  <2> QED
    BY <2>6, <2>9 DEF StageInv
<1>5. CASE ~Writes
  <2>1. SameTurn
    BY <1>0, <1>5, NotWriting
  <2> QED
    BY <2>1 DEF StageInv, StagesInOrder, Reached, SameTurn
<1> QED
  BY <1>1, <1>3, <1>4, <1>5 DEF Writes

\* A completed interview ends with the evaluation of the last stage.
Finished ==
    session.status = "completed" =>
        /\ log[Len(log)].kind = "evaluation"
        /\ log[Len(log)].stage = NumStages

LEMMA FinishedStep == TypeInv /\ LockInv /\ Finished /\ [Next]_vars => Finished'
<1> SUFFICES ASSUME TypeInv, LockInv, Finished, [Next]_vars PROVE Finished'
  OBVIOUS
<1>0. TypeOK /\ Len(log) \in Nat
  BY DEF TypeInv, TypeOK
<1>1. ASSUME NEW a \in Answerers, NEW mode \in Modes, Start(a, mode) PROVE Finished'
  BY <1>1 DEF Start, NoSession, Finished
<1>2. ASSUME NEW a \in Answerers, CommitTurn(a) PROVE Finished'
  <2>1. CommitFacts(a) /\ CommitLog(a) /\ CommitSession(a)
    BY <1>2, CommitEffect
  <2>2. CASE Asks(turn[a])
    BY <2>1, <2>2 DEF Asks, CommitSession, CommitFacts, Finished
  <2>3. CASE ~Asks(turn[a])
    <3>1. Len(log') = Len(log) + 2 /\ turn[a].stage = NumStages
      BY <2>1, <2>3 DEF Asks, CommitLog, CommitFacts
    <3>2. log'[Len(log) + 2].kind = "evaluation" /\ log'[Len(log) + 2].stage = NumStages
      BY <2>1, <3>1 DEF CommitLog, EvaluationMsg
    <3> QED
      BY <3>1, <3>2 DEF Finished
  <2> QED
    BY <2>2, <2>3
<1>3. ASSUME NEW h \in Hinters, RecordHint(h) PROVE Finished'
  BY <1>3, RecordEffect DEF RecordFacts, Finished
<1>4. CASE ~Writes
  BY <1>0, <1>4, NotWriting DEF SameTurn, Finished
<1> QED
  BY <1>1, <1>2, <1>3, <1>4 DEF Writes

(* How many questions a stage has *)

LEMMA StageQuestionsFinite ==
    ASSUME Len(log) \in Nat, NEW s
    PROVE  IsFiniteSet(StageQuestions(s)) /\ Cardinality(StageQuestions(s)) \in Nat
<1>1. IsFiniteSet(1 .. Len(log))
  BY FS_Interval
<1>2. IsFiniteSet(StageQuestions(s))
  BY <1>1, FS_Subset DEF StageQuestions
<1> QED
  BY <1>2, FS_CardinalityType

LEMMA LimitIsNat == Limit \in Nat /\ Limit >= 2
BY DEF Limit

BudgetInv ==
    /\ \A s \in 1 .. NumStages : Cardinality(StageQuestions(s)) <= Limit
    /\ session.status = "active" =>
          session.count + 1 = Cardinality(StageQuestions(session.stage))

LEMMA StartBudget ==
    ASSUME TypeInv, NEW a \in Answerers, NEW mode \in Modes, Start(a, mode)
    PROVE  BudgetInv'
<1>1. Len(log') = 1 /\ log'[1] = QuestionMsg("question", 1, "open")
  BY StartAnswers
<1>2. session'.status = "active" /\ session'.stage = 1 /\ session'.count = 0
  BY DEF Start, NoSession
<1>3. ASSUME NEW s \in Nat PROVE StageQuestions(s)' = IF s = 1 THEN {1} ELSE {}
  <2>1. \A i : i \in 1 .. Len(log') <=> i = 1
    BY <1>1
  <2> QED
    BY <1>1, <2>1 DEF StageQuestions, QuestionMsg, IsQuestion
<1>4. Cardinality({1}) = 1 /\ Cardinality({}) = 0
  BY FS_Singleton, FS_EmptySet
<1>5. Limit' \in Nat /\ Limit' >= 2
  BY DEF Limit
<1>6. ASSUME NEW s \in 1 .. NumStages PROVE Cardinality(StageQuestions(s)') <= Limit'
  BY <1>3, <1>4, <1>5
<1>7. Cardinality(StageQuestions(1)') = 1
  BY <1>3, <1>4
<1> QED
  BY <1>2, <1>6, <1>7 DEF BudgetInv

LEMMA CommitBudget ==
    ASSUME TypeInv, LockInv, StageInv, BudgetInv, NEW a \in Answerers, CommitTurn(a)
    PROVE  BudgetInv'
<1>0. TypeOK /\ Len(log) \in Nat /\ session.stage \in Nat /\ session.count \in Nat
  BY DEF TypeInv, TypeOK, Sessions, Report
<1>1. CommitFacts(a) /\ CommitLog(a) /\ CommitSession(a) /\ Extends
  BY CommitEffect DEF CommitLog
<1>2. PICK n \in Nat, s \in Nat, c \in Nat, r \in Nat :
         n = Len(log) /\ s = session.stage /\ c = session.count /\ r = NewStage(turn[a])
  <2>1. NewStage(turn[a]) \in Nat
    BY <1>0, <1>1 DEF CommitFacts, NewStage
  <2> QED
    BY <1>0, <2>1
<1>3. /\ ~IsQuestion(log'[n + 1]) /\ ~IsQuestion(log'[n + 2])
      /\ session.status = "active" /\ s \in 1 .. NumStages /\ s = turn[a].stage
      /\ Limit' = Limit
  <2>1. ~IsQuestion(log'[n + 1]) /\ ~IsQuestion(log'[n + 2])
    BY <1>1, <1>2 DEF CommitLog, AnswerMsg, EvaluationMsg, IsQuestion
  <2>2. session.status = "active" /\ s \in 1 .. NumStages /\ s = turn[a].stage
    BY <1>1, <1>2 DEF CommitFacts
  <2>3. Limit' = Limit
    BY <1>1 DEF CommitSession, Limit
  <2> QED
    BY <2>1, <2>2, <2>3
<1>4. c + 1 = Cardinality(StageQuestions(s))
  BY <1>2, <1>3 DEF BudgetInv
<1>5. CASE ~Asks(turn[a])
  <2>1. Len(log') = n + 2 /\ session'.status # "active"
    BY <1>1, <1>2, <1>5 DEF CommitLog, CommitSession, CommitFacts, Asks
  <2>2. \A i : i \in 1 .. Len(log') <=> i \in 1 .. n \/ i = n + 1 \/ i = n + 2
    BY <2>1
  <2>3. ASSUME NEW p PROVE StageQuestions(p)' = StageQuestions(p)
    <3>1. \A i \in 1 .. n : log'[i] = log[i]
      BY <1>1, <1>2 DEF Extends
    <3>2. ASSUME NEW i PROVE i \in StageQuestions(p)' <=> i \in StageQuestions(p)
      <4>1. CASE i \in 1 .. n
        BY <1>2, <2>2, <3>1, <4>1 DEF StageQuestions, IsQuestion
      <4>2. CASE i \notin 1 .. n
        BY <1>2, <1>3, <2>2, <4>2 DEF StageQuestions
      <4> QED
        BY <4>1, <4>2
    <3> QED
      BY <3>2 DEF StageQuestions
  <2> QED
    BY <1>3, <2>1, <2>3 DEF BudgetInv
<1>6. CASE Asks(turn[a])
  <2>1. Len(log') = n + 3 /\ IsQuestion(log'[n + 3]) /\ log'[n + 3].stage = r
    BY <1>1, <1>2, <1>6 DEF CommitLog
  <2>2. \A i : i \in 1 .. Len(log') <=> i \in 1 .. n \/ i = n + 1 \/ i = n + 2 \/ i = n + 3
    BY <2>1
  <2>3. \A i \in 1 .. n : log'[i] = log[i]
    BY <1>1, <1>2 DEF Extends
  <2>4. ASSUME NEW p, p # r PROVE StageQuestions(p)' = StageQuestions(p)
    <3>1. ASSUME NEW i PROVE i \in StageQuestions(p)' <=> i \in StageQuestions(p)
      <4>1. CASE i \in 1 .. n
        BY <1>2, <2>2, <2>3, <4>1 DEF StageQuestions, IsQuestion
      <4>2. CASE i = n + 3
        BY <1>2, <2>1, <2>4, <4>2 DEF StageQuestions
      <4>3. CASE i \notin 1 .. n /\ i # n + 3
        BY <1>2, <1>3, <2>2, <4>3 DEF StageQuestions
      <4> QED
        BY <4>1, <4>2, <4>3
    <3> QED
      BY <3>1 DEF StageQuestions
  <2>5. StageQuestions(r)' = StageQuestions(r) \cup {n + 3}
    <3>1. ASSUME NEW i PROVE i \in StageQuestions(r)' <=> i \in StageQuestions(r) \/ i = n + 3
      <4>1. CASE i \in 1 .. n
        BY <1>2, <2>2, <2>3, <4>1 DEF StageQuestions, IsQuestion
      <4>2. CASE i = n + 3
        BY <2>1, <2>2, <4>2 DEF StageQuestions
      <4>3. CASE i \notin 1 .. n /\ i # n + 3
        BY <1>2, <1>3, <2>2, <4>3 DEF StageQuestions
      <4> QED
        BY <4>1, <4>2, <4>3
    <3> QED
      BY <3>1
  <2>6. Cardinality(StageQuestions(r)') = Cardinality(StageQuestions(r)) + 1
    <3>1. n + 3 \notin StageQuestions(r)
      BY <1>2 DEF StageQuestions
    <3>2. IsFiniteSet(StageQuestions(r))
      BY <1>0, StageQuestionsFinite
    <3> QED
      BY <2>5, <3>1, <3>2, FS_AddElement
  <2>7. CASE turn[a].move # "advance"
    <3>1. r = s /\ session'.stage = s /\ session'.count = c + 1 /\ c + 1 < Limit
      BY <1>1, <1>2, <1>3, <2>7 DEF CommitSession, CommitFacts, NewStage
    <3>2. Cardinality(StageQuestions(s)') = c + 2
      BY <1>4, <2>6, <3>1
    <3>3. ASSUME NEW p \in 1 .. NumStages PROVE Cardinality(StageQuestions(p)') <= Limit'
      BY <1>3, <2>4, <3>1, <3>2, LimitIsNat DEF BudgetInv
    <3> QED
      BY <3>1, <3>2, <3>3 DEF BudgetInv
  <2>8. CASE turn[a].move = "advance"
    <3>1. r = s + 1 /\ session'.stage = r /\ session'.count = 0
      BY <1>1, <1>2, <1>3, <2>8 DEF CommitSession, CommitFacts, NewStage
    <3>2. StageQuestions(r) = {}
      <4>1. ASSUME NEW i \in 1 .. n PROVE log[i].stage # r
        <5>1. log[i].stage <= s /\ log[i].stage \in 1 .. NumStages
          BY <1>0, <1>2, <1>3, StageIsNat DEF StageInv, Reached
        <5> QED
          BY <3>1, <5>1
      <4> QED
        BY <1>2, <4>1 DEF StageQuestions
    <3>3. Cardinality(StageQuestions(r)') = 1
      BY <2>6, <3>2, FS_EmptySet
    <3>4. ASSUME NEW p \in 1 .. NumStages PROVE Cardinality(StageQuestions(p)') <= Limit'
      BY <1>3, <2>4, <3>3, LimitIsNat DEF BudgetInv
    <3> QED
      BY <3>1, <3>3, <3>4 DEF BudgetInv
  <2> QED
    BY <2>7, <2>8
<1> QED
  BY <1>5, <1>6

LEMMA BudgetStep == TypeInv /\ LockInv /\ StageInv /\ BudgetInv /\ [Next]_vars => BudgetInv'
<1> SUFFICES ASSUME TypeInv, LockInv, StageInv, BudgetInv, [Next]_vars PROVE BudgetInv'
  OBVIOUS
<1>0. TypeOK /\ Len(log) \in Nat
  BY DEF TypeInv, TypeOK
<1>1. ASSUME NEW h \in Hinters, RecordHint(h) PROVE BudgetInv'
  <2>1. RecordFacts(h)
    BY <1>1, RecordEffect
  <2>2. /\ Len(log') = Len(log) + 1 /\ ~IsQuestion(log'[Len(log) + 1]) /\ session' = session
        /\ \A i \in 1 .. Len(log) : log'[i] = log[i]
    BY <2>1 DEF RecordFacts, HintMsg, IsQuestion, Extends
  <2>3. \A i : i \in 1 .. Len(log') <=> i \in 1 .. Len(log) \/ i = Len(log) + 1
    BY <1>0, <2>2
  <2>4. ASSUME NEW p PROVE StageQuestions(p)' = StageQuestions(p)
    BY <2>2, <2>3 DEF StageQuestions, IsQuestion
  <2>5. StageQuestions(session.stage)' = StageQuestions(session.stage)
    BY <2>2, <2>3 DEF StageQuestions, IsQuestion
  <2> QED
    BY <2>2, <2>4, <2>5 DEF BudgetInv, Limit
<1>2. CASE ~Writes
  <2>1. SameTurn
    BY <1>0, <1>2, NotWriting
  <2> QED
    BY <2>1 DEF BudgetInv, Limit, StageQuestions, IsQuestion, SameTurn
<1> QED
  BY <1>1, <1>2, StartBudget, CommitBudget DEF Writes

(* When the agent may probe again *)

ProbeEarned(i) ==
    \A j \in 1 .. i - 2 :
        /\ log[j].kind = "evaluation"
        /\ log[j].stage = log[i].stage
        /\ \A k \in j + 1 .. i - 2 : log[k].kind # "evaluation"
        => log[i - 1].score > log[j].score

LEMMA ProbesStep ==
    TypeInv /\ LockInv /\ ProbesOnlyAfterImprovement /\ [Next]_vars => ProbesOnlyAfterImprovement'
<1> SUFFICES ASSUME TypeInv, LockInv, ProbesOnlyAfterImprovement, [Next]_vars
             PROVE  ProbesOnlyAfterImprovement'
  OBVIOUS
<1>0. TypeOK /\ Len(log) \in Nat
  BY DEF TypeInv, TypeOK
<1>1. ASSUME NEW a \in Answerers, NEW mode \in Modes, Start(a, mode)
      PROVE  ProbesOnlyAfterImprovement'
  BY <1>1, StartAnswers DEF ProbesOnlyAfterImprovement, QuestionMsg
<1>2. ASSUME Extends, NEW i \in 1 .. Len(log), IsQuestion(log'[i]), log'[i].move = "probe"
      PROVE  ProbeEarned(i)'
  <2>1. \A j \in 1 .. i : log'[j] = log[j]
    BY <1>0, <1>2 DEF Extends
  <2>2. ProbeEarned(i)
    BY <1>2, <2>1 DEF ProbesOnlyAfterImprovement, IsQuestion, ProbeEarned
  <2>3. ASSUME NEW j \in 1 .. i - 2 PROVE
           /\ log'[j].kind = "evaluation"
           /\ log'[j].stage = log'[i].stage
           /\ \A k \in j + 1 .. i - 2 : log'[k].kind # "evaluation"
           => log'[i - 1].score > log'[j].score
    <3>1. i - 1 \in 1 .. i /\ j \in 1 .. i /\ \A k \in j + 1 .. i - 2 : k \in 1 .. i
      OBVIOUS
    <3> QED
      BY <2>1, <2>2, <3>1 DEF ProbeEarned
  <2> QED
    BY <2>3 DEF ProbeEarned
<1>3. ASSUME NEW a \in Answerers, CommitTurn(a) PROVE ProbesOnlyAfterImprovement'
  <2>1. CommitFacts(a) /\ CommitLog(a) /\ Extends
    BY <1>3, CommitEffect DEF CommitLog
  <2>2. PICK n \in Nat : n = Len(log)
    BY <1>0
  <2>3. /\ ~IsQuestion(log'[n + 1]) /\ ~IsQuestion(log'[n + 2]) /\ log'[n + 1].kind = "answer"
        /\ Len(log') \in {n + 2, n + 3}
        /\ log'[n + 2].score = Penalised(turn[a].raw, turn[a].hints)
    BY <2>1, <2>2 DEF CommitLog, AnswerMsg, EvaluationMsg, IsQuestion
  <2>4. ASSUME Len(log') = n + 3, log'[n + 3].move = "probe" PROVE ProbeEarned(n + 3)'
    <3>1. turn[a].move = "probe" /\ log'[n + 3].stage = turn[a].stage /\ ~ProbeStalled(a)
      BY <2>1, <2>2, <2>4 DEF CommitLog, CommitFacts, NewStage
    <3>2. ASSUME NEW j \in 1 .. n + 1, log'[j].kind = "evaluation",
                 log'[j].stage = log'[n + 3].stage,
                 \A k \in j + 1 .. n + 1 : log'[k].kind # "evaluation"
          PROVE  log'[n + 2].score > log'[j].score
      <4>1. j \in 1 .. n /\ log'[j] = log[j]
        <5>1. j # n + 1
          BY <2>3, <3>2
        <5> QED
          BY <2>1, <2>2, <5>1 DEF Extends
      <4>2. j \in Evaluations(log, turn[a].stage)
        BY <2>2, <3>1, <3>2, <4>1 DEF Evaluations
      <4>3. \A k \in Evaluations(log, turn[a].stage) : k <= j
        <5>1. \A k \in 1 .. n : log'[k] = log[k]
          BY <2>1, <2>2 DEF Extends
        <5> QED
          BY <2>2, <3>2, <5>1 DEF Evaluations
      <4>4. ~(Penalised(turn[a].raw, turn[a].hints) <= log[j].score)
        BY <3>1, <4>2, <4>3 DEF ProbeStalled
      <4>5. log[j].score \in Nat
        <5>1. log[j] \in Messages
          BY <1>0, <2>2, <4>1 DEF TypeOK
        <5> QED
          BY <3>2, <4>1, <5>1 DEF Messages
      <4>6. Penalised(turn[a].raw, turn[a].hints) \in Nat
        BY <2>1, PenalisedIsPositive DEF CommitFacts, TurnRecords
      <4> QED
        BY <2>3, <4>1, <4>4, <4>5, <4>6
    <3>3. n + 3 - 2 = n + 1 /\ n + 3 - 1 = n + 2
      OBVIOUS
    <3> QED
      BY <3>2, <3>3 DEF ProbeEarned
  <2>5. \A i \in 1 .. Len(log') : i \in 1 .. Len(log) \/ i = n + 1 \/ i = n + 2 \/ (i = n + 3 /\ Len(log') = n + 3)
    BY <2>2, <2>3
  <2> QED
    BY <1>2, <2>1, <2>3, <2>4, <2>5 DEF ProbesOnlyAfterImprovement, ProbeEarned
<1>4. ASSUME NEW h \in Hinters, RecordHint(h) PROVE ProbesOnlyAfterImprovement'
  <2>1. RecordFacts(h)
    BY <1>4, RecordEffect
  <2>2. ~IsQuestion(log'[Len(log) + 1]) /\ Len(log') = Len(log) + 1 /\ Extends
    BY <2>1 DEF RecordFacts, HintMsg, IsQuestion
  <2>3. \A i \in 1 .. Len(log') : i \in 1 .. Len(log) \/ i = Len(log) + 1
    BY <1>0, <2>2
  <2> QED
    BY <1>2, <2>2, <2>3 DEF ProbesOnlyAfterImprovement, ProbeEarned
<1>5. CASE ~Writes
  <2>1. log' = log
    BY <1>0, <1>5, NotWriting DEF SameTurn
  <2>2. ASSUME NEW i \in 1 .. Len(log'), IsQuestion(log'[i]), log'[i].move = "probe"
        PROVE  ProbeEarned(i)'
    BY <1>0, <1>2, <2>1, <2>2 DEF Extends
  <2> QED
    BY <2>2 DEF ProbesOnlyAfterImprovement, ProbeEarned
<1> QED
  BY <1>1, <1>3, <1>4, <1>5 DEF Writes

------------------------------------------------------------------------------
(* The theorems *)

TranscriptInv ==
    /\ AnswersOpenQuestion /\ ChargedInv /\ HintLadder
    /\ StageInv /\ Finished /\ BudgetInv /\ ProbesOnlyAfterImprovement

SafetyInv == TypeInv /\ LockInv /\ TranscriptInv

LEMMA SafetyInit == Init => SafetyInv
<1> SUFFICES ASSUME Init PROVE SafetyInv
  OBVIOUS
<1>1. log = <<>> /\ session.status = "none" /\ 1 .. Len(log) = {}
  BY DEF Init, NoSession
<1>2. BudgetInv
  <2>1. ASSUME NEW s PROVE StageQuestions(s) = {}
    BY <1>1 DEF StageQuestions
  <2>2. Cardinality({}) = 0
    BY FS_EmptySet
  <2>3. ASSUME NEW s PROVE Cardinality(StageQuestions(s)) <= Limit
    BY <2>1, <2>2, LimitIsNat
  <2> QED
    BY <1>1, <2>3 DEF BudgetInv
<1>3. TranscriptInv
  BY <1>1, <1>2 DEF TranscriptInv, AnswersOpenQuestion, ChargedInv, HintLadder, StageInv,
     StagesInOrder, Reached, Finished, ProbesOnlyAfterImprovement
<1> QED
  BY <1>3, InitTypeInv, LockInvInit DEF SafetyInv

LEMMA SafetyStep == SafetyInv /\ [Next]_vars => SafetyInv'
BY NextTypeInv, LockInvStep, AnswersStep, ChargedStep, LadderStep, StageStep, FinishedStep,
   BudgetStep, ProbesStep DEF SafetyInv, TranscriptInv

\* The transcript's invariants hold together whatever the handlers' interleaving: each
\* rests on the others and on what a claim of the row guarantees (claimTurn).
THEOREM Safe == Spec => []SafetyInv
BY SafetyInit, SafetyStep, PTL DEF Spec

\* Of answers racing each other, each recorded one stands under the question it was graded
\* for, which was open, with its evaluation behind it (claimTurn in commitTurn).
THEOREM AnswersTheirQuestion == Spec => []AnswersOpenQuestion
<1>1. SafetyInv => AnswersOpenQuestion
  BY DEF SafetyInv, TranscriptInv
<1> QED
  BY <1>1, Safe, PTL

\* No hint given while an answer is graded is missed or charged twice (hintsNow in
\* commitTurn).
THEOREM HintsAreCharged == Spec => []HintsCharged
<1>1. SafetyInv => HintsCharged
  BY DEF SafetyInv, TranscriptInv, ChargedInv, ChargedAt, HintsCharged
<1> QED
  BY <1>1, Safe, PTL

\* Racing hint requests climb the open question's ladder one rung at a time and stop at
\* its last (giveHint).
THEOREM LadderClimbed == Spec => []HintLadder
<1>1. SafetyInv => HintLadder
  BY DEF SafetyInv, TranscriptInv
<1> QED
  BY <1>1, Safe, PTL

\* The stages are gone through in order, none skipped, whichever answers race.
THEOREM StagesOrdered == Spec => []StagesInOrder
<1>1. SafetyInv => StagesInOrder
  BY DEF SafetyInv, TranscriptInv, StageInv
<1> QED
  BY <1>1, Safe, PTL

\* No mix of challenges, follow-ups, probes, pivots and fallbacks, and no race, overruns
\* a stage's questions (roomInStage).
THEOREM BudgetKept == Spec => []QuestionBudget
<1>1. SafetyInv => QuestionBudget
  BY DEF SafetyInv, TranscriptInv, BudgetInv, QuestionBudget, Limit
<1> QED
  BY <1>1, Safe, PTL

\* A probe follows a probe only after an improvement, though it was decided before other
\* requests could write (consultAgent).
THEOREM ProbesEarned == Spec => []ProbesOnlyAfterImprovement
<1>1. SafetyInv => ProbesOnlyAfterImprovement
  BY DEF SafetyInv, TranscriptInv
<1> QED
  BY <1>1, Safe, PTL

\* An active interview waits on a question, a completed one ends with its last grade:
\* nothing is half recorded (commitTurn).
THEOREM NothingHalfRecorded == Spec => []AwaitsAnswer
<1>1. SafetyInv => AwaitsAnswer
  BY DEF SafetyInv, TranscriptInv, LockInv, Awaiting, OpenAt, Finished, AwaitsAnswer
<1> QED
  BY <1>1, Safe, PTL

------------------------------------------------------------------------------
(* The handlers implement InterviewTurns *)

LEMMA CompletedStays ==
    ASSUME TypeInv, LockInv, [Next]_vars, session.status = "completed"
    PROVE  session'.status = "completed" /\ log' = log
<1>1. ~Writes
  BY CommitEffect, RecordEffect DEF Writes, Start, CommitFacts, RecordFacts
<1> QED
  BY <1>1, NotWriting DEF SameTurn, TypeInv

\* A viewer gets past its first query only in a completed interview.
LEMMA ViewerSteps ==
    ASSUME TypeOK, [Next]_vars, NEW v \in Viewers, phase'[v] \in {"loaded", "ready"}
    PROVE  phase[v] \in {"loaded", "ready"} \/ session.status = "completed"
<1>1. v \in Handlers /\ v \notin Turns
  BY DEF Handlers
<1>2. ASSUME NEW h \in Handlers, NEW from, NEW to, Step(h, from, to),
             h # v \/ to \in {"settle", "idle"}
      PROVE  phase'[v] = phase[v]
  BY <1>1, <1>2, StepMoves
<1>3. ASSUME NEW h \in Turns, Load(h) \/ (h \in Answerers /\ Answer(h)) \/ (h \in Hinters /\ GiveHint(h))
      PROVE  phase'[v] = phase[v]
  <2>1. \E from, to : Step(h, from, to)
    BY <1>3 DEF Load, LoadSession, FindQuestion, CountHints, Answer, Evaluate, DecideChallenge,
         DecideByRule, ConsultAgent, AskQuestion, ClaimTurn, CommitTurn, GiveHint,
         RefuseHint, WriteHint, LockTurn, RecordHint, Decided, Over
  <2>2. h \in Handlers /\ h # v
    BY <1>1 DEF Handlers, Turns
  <2> QED
    BY <1>2, <2>1, <2>2
<1>4. ASSUME NEW a \in Answerers, NEW mode \in Modes, Start(a, mode) PROVE phase'[v] = phase[v]
  BY <1>1, <1>2, <1>4 DEF Start, Handlers, Turns
<1>5. ASSUME NEW u \in Viewers, ViewReport(u), u # v PROVE phase'[v] = phase[v]
  <2>1. u \in Handlers /\ (phase' = phase \/ \E from, to : Step(u, from, to))
    BY <1>5 DEF Handlers, ViewReport, LoadReport, WriteReport, StoreReport, ServeWinner
  <2> QED
    BY <1>2, <1>5, <2>1
<1>6. CASE ViewReport(v)
  BY <1>1, <1>6, StepMoves DEF ViewReport, LoadReport, WriteReport, StoreReport, ServeWinner
<1>7. ASSUME NEW h \in Handlers, Fail(h) \/ Rollback(h) \/ End(h) PROVE phase'[v] = phase[v]
  <2>1. \E from, to : Step(h, from, to) /\ to \in {"settle", "idle"}
    BY <1>7 DEF Fail, Rollback, End, Settle, Over
  <2> QED
    BY <1>2, <2>1
<1>8. CASE UNCHANGED vars
  BY <1>8 DEF vars
<1> QED
  BY <1>3, <1>4, <1>5, <1>6, <1>7, <1>8 DEF Next, Turns

\* Before the interview there is nothing; after it, it is at the report, and only then is
\* a viewer past its first query.
EndsInv ==
    /\ session.status = "none" => session.stage = 0 /\ log = <<>>
    /\ session.status = "completed" => session.stage = Report
    /\ \A v \in Viewers : phase[v] \in {"loaded", "ready"} => session.status = "completed"

LEMMA EndsInit == Init => EndsInv
BY DEF Init, NoSession, EndsInv, Handlers

LEMMA EndsStep == TypeInv /\ LockInv /\ EndsInv /\ [Next]_vars => EndsInv'
<1> SUFFICES ASSUME TypeInv, LockInv, EndsInv, [Next]_vars PROVE EndsInv'
  OBVIOUS
<1>0. TypeOK
  BY DEF TypeInv
<1>1. \A v \in Viewers : phase'[v] \in {"loaded", "ready"} => session'.status = "completed"
  BY <1>0, ViewerSteps, CompletedStays DEF EndsInv
<1>2. /\ session'.status = "none" => session'.stage = 0 /\ log' = <<>>
      /\ session'.status = "completed" => session'.stage = Report
  <2>1. ASSUME NEW a \in Answerers, NEW mode \in Modes, Start(a, mode) PROVE session'.status = "active"
    BY <2>1 DEF Start, NoSession
  <2>2. ASSUME NEW a \in Answerers, CommitTurn(a)
        PROVE  /\ session'.status # "none"
               /\ session'.status = "completed" => session'.stage = Report
    <3>1. CommitFacts(a) /\ CommitSession(a)
      BY <2>2, CommitEffect
    <3> QED
      BY <3>1 DEF CommitFacts, CommitSession, Report
  <2>3. ASSUME NEW h \in Hinters, RecordHint(h) PROVE session'.status = "active"
    BY <2>3, RecordEffect DEF RecordFacts
  <2>4. CASE ~Writes
    BY <1>0, <2>4, NotWriting DEF SameTurn, EndsInv
  <2> QED
    BY <2>1, <2>2, <2>3, <2>4 DEF Writes
<1> QED
  BY <1>1, <1>2 DEF EndsInv

\* What the mapping shows of the state.
LEMMA OpenQuestionIs ==
    ASSUME NEW q, OpenAt(q), Len(log) \in Nat
    PROVE  OpenQuestion = q
<1>1. q \in 1 .. Len(log) /\ IsOpen(q)
  BY DEF OpenAt
<1>2. ASSUME NEW p \in 1 .. Len(log), IsOpen(p) PROVE p = q
  BY <1>1, <1>2 DEF IsOpen, IsQuestion
<1> QED
  BY <1>1, <1>2 DEF OpenQuestion

LEMMA OpenQuestionIsNext ==
    ASSUME NEW q, OpenAt(q)', Len(log') \in Nat
    PROVE  OpenQuestion' = q
<1>1. q \in 1 .. Len(log') /\ IsOpen(q)'
  BY DEF OpenAt
<1>2. ASSUME NEW p \in 1 .. Len(log'), IsOpen(p)' PROVE p = q
  BY <1>1, <1>2 DEF IsOpen, IsQuestion
<1> QED
  BY <1>1, <1>2 DEF OpenQuestion

Asked == IF Active THEN session.count + 1 ELSE 0
Question == IF Active THEN OpenQuestion ELSE 0
Hints == IF Active THEN Len(log) - OpenQuestion ELSE 0
Grades ==
    {[question |-> log[i].to, stage |-> log[i].stage, hints |-> log[i].hints,
      score |-> log[i].score] : i \in Graded}

LEMMA ChargedIsPenalised ==
    ASSUME NEW raw \in RawScores, NEW h \in Nat
    PROVE  Promise!Charged(raw, h) = Penalised(raw, h)
BY DEF Promise!Charged, Penalised

LEMMA GradesSame == log' = log => Grades' = Grades
BY DEF Grades, Graded

\* A step that leaves the transcript, the row's turn and its report shows nothing.
LEMMA Stutters ==
    ASSUME SameTurn, session'.report = session.report
    PROVE  UNCHANGED Promise!vars
<1>1. OpenQuestion' = OpenQuestion /\ Active' = Active
  BY DEF OpenQuestion, IsOpen, IsQuestion, Active, SameTurn
<1> QED
  BY <1>1 DEF Promise!vars, SameTurn, Graded

LEMMA StartPromises ==
    ASSUME TypeInv, ReportInv, EndsInv, NEW a \in Answerers, NEW mode \in Modes, Start(a, mode)
    PROVE  Promise!Start
<1>1. /\ session.status = "none" /\ session.stage = 0 /\ log = <<>> /\ session.report = NoReport
      /\ session'.status = "active" /\ session'.stage = 1 /\ session'.count = 0
      /\ session'.report = NoReport
  BY DEF Start, NoSession, EndsInv, ReportInv
<1>2. Len(log') = 1 /\ log'[1] = QuestionMsg("question", 1, "open")
  BY StartAnswers
<1>3. OpenAt(1)'
  BY <1>1, <1>2 DEF OpenAt, IsOpen, IsQuestion, QuestionMsg
<1>4. OpenQuestion' = 1
  BY <1>2, <1>3, OpenQuestionIsNext
<1>5. Grades = {} /\ Grades' = {}
  <2>1. 1 .. Len(log) = {}
    BY <1>1
  <2>2. \A i \in 1 .. Len(log') : i = 1
    BY <1>2
  <2>3. Graded = {} /\ Graded' = {}
    BY <1>2, <2>1, <2>2 DEF Graded, QuestionMsg
  <2> QED
    BY <2>3 DEF Grades
<1>6. ~Active /\ Active'
  BY <1>1 DEF Active
<1> QED
  BY <1>1, <1>2, <1>4, <1>5, <1>6 DEF Promise!Start, Promise!Ask, Grades

LEMMA RecordPromises ==
    ASSUME TypeInv, LockInv, NEW h \in Hinters, RecordHint(h)
    PROVE  Promise!Hint
<1>1. TypeOK /\ Len(log) \in Nat /\ RecordFacts(h) /\ LockInv'
  BY RecordEffect, RecordLockInv DEF TypeInv, TypeOK
<1>2. PICK n \in Nat, q \in Nat : n = Len(log) /\ q = turn[h].question
  BY <1>1 DEF RecordFacts, OpenAt
<1>3. /\ session' = session /\ session.status = "active" /\ session.stage \in 1 .. NumStages
      /\ OpenAt(q) /\ n - q < MaxHints /\ Len(log') = n + 1 /\ q \in 1 .. n
      /\ log'[n + 1].kind = "hint" /\ \A i \in 1 .. n : log'[i] = log[i]
  BY <1>1, <1>2 DEF RecordFacts, HintMsg, Extends, OpenAt
<1>4. OpenQuestion = q
  BY <1>1, <1>3, OpenQuestionIs
<1>5. OpenQuestion' = q
  <2>1. IsOpen(q)' /\ q \in 1 .. Len(log')
    <3>1. IsQuestion(log[q]) /\ \A j \in q + 1 .. n : log[j].kind = "hint"
      BY <1>2, <1>3 DEF OpenAt, IsOpen
    <3>2. IsQuestion(log'[q])
      BY <1>3, <3>1
    <3>3. ASSUME NEW j \in q + 1 .. Len(log') PROVE log'[j].kind = "hint"
      <4>1. CASE j = n + 1
        BY <1>3, <4>1
      <4>2. CASE j # n + 1
        <5>1. j \in q + 1 .. n /\ j \in 1 .. n
          BY <1>2, <1>3, <4>2
        <5> QED
          BY <1>3, <3>1, <5>1
      <4> QED
        BY <4>1, <4>2
    <3>4. q \in 1 .. Len(log')
      BY <1>2, <1>3
    <3> QED
      BY <3>2, <3>3, <3>4 DEF IsOpen, IsQuestion
  <2>2. ASSUME NEW p \in 1 .. Len(log'), IsOpen(p)' PROVE p = q
    BY <1>3, <2>1, <2>2 DEF IsOpen, IsQuestion
  <2> QED
    BY <2>1, <2>2 DEF OpenQuestion
<1>6. Active /\ Active'
  BY <1>3 DEF Active
<1>7. Grades' = Grades
  <2>1. Graded' = Graded
    <3>1. \A i : i \in 1 .. Len(log') <=> i \in 1 .. n \/ i = n + 1
      BY <1>3
    <3> QED
      BY <1>2, <1>3, <3>1 DEF Graded
  <2>2. \A i \in Graded : log'[i] = log[i]
    BY <1>2, <1>3 DEF Graded
  <2> QED
    BY <2>1, <2>2 DEF Grades
<1>8. Asked' = Asked /\ Question' = Question
  BY <1>3, <1>4, <1>5, <1>6 DEF Asked, Question
<1>9. Hints = n - q /\ Hints' = n + 1 - q
  <2>1. Hints = n - q
    BY <1>2, <1>4, <1>6 DEF Hints
  <2>2. Hints' = Len(log') - OpenQuestion'
    BY <1>6 DEF Hints
  <2>3. Hints' = (n + 1) - q
    BY <1>3, <1>5, <2>2
  <2> QED
    BY <2>1, <2>3
<1>10. n - q < MaxHints /\ n + 1 - q = (n - q) + 1
  BY <1>2, <1>3
<1> QED
  BY <1>3, <1>7, <1>8, <1>9, <1>10 DEF Promise!Hint, Asked, Question, Hints, Grades

LEMMA CommitPromises ==
    ASSUME TypeInv, LockInv, NEW a \in Answerers, CommitTurn(a)
    PROVE  Promise!AnswerAndStay \/ Promise!AnswerAndAdvance \/ Promise!AnswerAndFinish
<1>1. /\ TypeOK /\ Len(log) \in Nat /\ session.count \in Nat /\ session.stage \in Nat
      /\ CommitFacts(a) /\ CommitLog(a) /\ CommitSession(a)
  BY CommitEffect DEF TypeInv, TypeOK, Sessions, Report
<1>2. PICK n \in Nat, q \in Nat, s \in Nat, raw \in RawScores, h \in Nat :
         /\ n = Len(log) /\ q = turn[a].question /\ s = session.stage
         /\ raw = turn[a].raw /\ h = turn[a].hints
  BY <1>1 DEF CommitFacts, TurnRecords
<1>3. /\ session.status = "active" /\ s \in 1 .. NumStages /\ s = turn[a].stage
      /\ OpenAt(q) /\ h = n - q /\ q \in 1 .. n /\ \A i \in 1 .. n : log'[i] = log[i]
      /\ log'[n + 1].kind = "answer" /\ log'[n + 2] = EvaluationMsg(s, q, h, raw)
      /\ Len(log') \in {n + 2, n + 3}
      /\ Len(log') = n + 3 => log'[n + 3].kind # "evaluation"
      /\ session'.report = session.report
  <2>1. /\ session.status = "active" /\ s \in 1 .. NumStages /\ s = turn[a].stage
        /\ OpenAt(q) /\ h = n - q /\ q \in 1 .. n /\ session'.report = session.report
    BY <1>1, <1>2 DEF CommitFacts, CommitSession, OpenAt
  <2>2. \A i \in 1 .. n : log'[i] = log[i]
    BY <1>1, <1>2 DEF CommitLog, Extends
  <2>3. log'[n + 1].kind = "answer" /\ log'[n + 2] = EvaluationMsg(s, q, h, raw)
    BY <1>1, <1>2, <2>1 DEF CommitLog, AnswerMsg
  <2>4. /\ Len(log') \in {n + 2, n + 3}
        /\ Len(log') = n + 3 => log'[n + 3].kind # "evaluation"
    <3>1. CASE Asks(turn[a])
      BY <1>1, <1>2, <3>1 DEF CommitLog, IsQuestion
    <3>2. CASE ~Asks(turn[a])
      BY <1>1, <1>2, <3>2 DEF CommitLog
    <3> QED
      BY <3>1, <3>2
  <2> QED
    BY <2>1, <2>2, <2>3, <2>4
<1>4. OpenQuestion = q /\ Active
  BY <1>1, <1>3, OpenQuestionIs DEF Active
<1>5. Grades' = Grades \cup {Promise!Grade(q, s, h, raw)}
  <2>1. \A i : i \in 1 .. Len(log') <=>
           i \in 1 .. n \/ i = n + 1 \/ i = n + 2 \/ (i = n + 3 /\ Len(log') = n + 3)
    <3>1. CASE Len(log') = n + 2
      BY <1>2, <3>1
    <3>2. CASE Len(log') = n + 3
      BY <1>2, <3>2
    <3> QED
      BY <1>3, <3>1, <3>2
  <2>2. Graded' = Graded \cup {n + 2}
    <3>1. ASSUME NEW i PROVE i \in Graded' <=> i \in Graded \/ i = n + 2
      <4>1. CASE i \in 1 .. n
        BY <1>2, <1>3, <2>1, <4>1 DEF Graded
      <4>2. CASE i = n + 2
        BY <1>3, <2>1, <4>2 DEF Graded, EvaluationMsg
      <4>3. CASE i \notin 1 .. n /\ i # n + 2
        BY <1>2, <1>3, <2>1, <4>3 DEF Graded
      <4> QED
        BY <4>1, <4>2, <4>3
    <3> QED
      BY <3>1
  <2>3. \A i \in Graded : log'[i] = log[i]
    BY <1>2, <1>3 DEF Graded
  <2>4. [question |-> log'[n + 2].to, stage |-> log'[n + 2].stage, hints |-> log'[n + 2].hints,
         score |-> log'[n + 2].score] = Promise!Grade(q, s, h, raw)
    <3>1. Promise!Charged(raw, h) = Penalised(raw, h)
      BY ChargedIsPenalised
    <3>2. /\ log'[n + 2].to = q /\ log'[n + 2].stage = s /\ log'[n + 2].hints = h
          /\ log'[n + 2].score = Penalised(raw, h)
      BY <1>3 DEF EvaluationMsg
    <3> QED
      BY <3>1, <3>2 DEF Promise!Grade
  <2> QED
    BY <2>2, <2>3, <2>4 DEF Grades
<1>6. Promise!GradeOpen
  BY <1>2, <1>3, <1>4, <1>5 DEF Promise!GradeOpen, Grades
<1>7. ASSUME Asks(turn[a])
      PROVE  OpenQuestion' = n + 3 /\ Len(log') = n + 3 /\ Active'
  <2>1. Len(log') = n + 3 /\ IsQuestion(log'[n + 3])
    BY <1>1, <1>2, <1>7 DEF CommitLog
  <2>2. IsOpen(n + 3)'
    BY <2>1 DEF IsOpen, IsQuestion
  <2>3. ASSUME NEW p \in 1 .. Len(log'), IsOpen(p)' PROVE p = n + 3
    BY <2>1, <2>3 DEF IsOpen, IsQuestion
  <2>4. OpenQuestion' = n + 3
    BY <2>1, <2>2, <2>3 DEF OpenQuestion
  <2>5. Active'
    BY <1>1, <1>7 DEF CommitSession, CommitFacts, Asks, Active
  <2> QED
    BY <2>1, <2>4, <2>5
<1>8. ASSUME Asks(turn[a]) PROVE Promise!Ask
  <2>1. Question' > Question /\ Hints' = 0
    BY <1>2, <1>3, <1>4, <1>7, <1>8 DEF Question, Hints
  <2> QED
    BY <2>1 DEF Promise!Ask, Question, Hints
<1>9. CASE turn[a].move # "advance"
  <2>1. Asks(turn[a]) /\ session'.stage = s /\ session'.count = session.count + 1
        /\ session.count + 1 < Limit
    BY <1>1, <1>2, <1>9 DEF Asks, CommitSession, CommitFacts
  <2>2. session.count + 1 < MaxStageQuestions
    BY <1>1, <2>1 DEF Limit
  <2> QED
    BY <1>1, <1>2, <1>4, <1>6, <1>7, <1>8, <2>1, <2>2 DEF Promise!AnswerAndStay
<1>10. CASE turn[a].move = "advance" /\ s < NumStages
  <2>1. Asks(turn[a]) /\ session'.stage = s + 1 /\ session'.count = 0
    BY <1>1, <1>2, <1>3, <1>10 DEF Asks, CommitSession
  <2> QED
    BY <1>2, <1>6, <1>7, <1>8, <1>10, <2>1 DEF Promise!AnswerAndAdvance
<1>11. CASE turn[a].move = "advance" /\ ~(s < NumStages)
  <2>1. session'.stage = s + 1 /\ session'.status = "completed" /\ s = NumStages
    BY <1>1, <1>2, <1>3, <1>11 DEF CommitSession
  <2>2. ~Active'
    BY <2>1 DEF Active
  <2> QED
    BY <1>2, <1>6, <2>1, <2>2 DEF Promise!AnswerAndFinish
<1> QED
  BY <1>9, <1>10, <1>11

LEMMA PublishPromises ==
    ASSUME TypeInv, EndsInv, NEW v \in Viewers, StoreReport(v)
    PROVE  Promise!Publish
<1>1. TypeOK /\ v \in Handlers
  BY DEF TypeInv, Handlers
<1>2. phase[v] = "ready" /\ session.report = NoReport
  BY <1>1, StepMoves DEF StoreReport, ReportUnclaimed
<1>3. session.stage = NumStages + 1 /\ session.status = "completed"
  BY <1>2 DEF EndsInv, Report
<1>4. SameTurn /\ session'.report = v
  BY <1>1 DEF StoreReport, SameTurn, TypeOK, Sessions
<1>5. ~Active /\ ~Active'
  BY <1>3, <1>4 DEF Active, SameTurn
<1>6. Grades' = Grades
  BY <1>4, GradesSame DEF SameTurn
<1> QED
  BY <1>2, <1>3, <1>4, <1>5, <1>6 DEF Promise!Publish, SameTurn, Grades

LEMMA OthersReport ==
    ASSUME TypeOK, [Next]_vars, ~Writes, \A v \in Viewers : ~StoreReport(v)
    PROVE  session'.report = session.report
<1>1. ASSUME NEW h \in Handlers, End(h) PROVE session'.report = session.report
  BY <1>1 DEF End, Settle, TypeOK, Sessions
<1> QED
  BY <1>1 DEF Next, vars, Writes, Load, LoadSession, FindQuestion, CountHints, Answer, Evaluate,
     DecideChallenge, DecideByRule, ConsultAgent, AskQuestion, ClaimTurn, GiveHint, RefuseHint,
     WriteHint, LockTurn, ViewReport, LoadReport, WriteReport, ServeWinner, Fail, Rollback

PromiseInv == TypeInv /\ LockInv /\ ReportInv /\ EndsInv

LEMMA PromiseStep == PromiseInv /\ [Next]_vars => [Promise!Next]_Promise!vars
<1> SUFFICES ASSUME PromiseInv, [Next]_vars PROVE [Promise!Next]_Promise!vars
  OBVIOUS
<1>0. TypeInv /\ LockInv /\ ReportInv /\ EndsInv /\ TypeOK
  BY DEF PromiseInv, TypeInv
<1>1. CASE \E a \in Answerers, mode \in Modes : Start(a, mode)
  BY <1>0, <1>1, StartPromises DEF Promise!Next
<1>2. CASE \E a \in Answerers : CommitTurn(a)
  BY <1>0, <1>2, CommitPromises DEF Promise!Next
<1>3. CASE \E h \in Hinters : RecordHint(h)
  BY <1>0, <1>3, RecordPromises DEF Promise!Next
<1>4. CASE \E v \in Viewers : StoreReport(v)
  BY <1>0, <1>4, PublishPromises DEF Promise!Next
<1>5. CASE ~Writes /\ \A v \in Viewers : ~StoreReport(v)
  BY <1>0, <1>5, NotWriting, OthersReport, Stutters
<1> QED
  BY <1>1, <1>2, <1>3, <1>4, <1>5 DEF Writes

LEMMA PromiseInit == Init => Promise!Init
<1> SUFFICES ASSUME Init PROVE Promise!Init
  OBVIOUS
<1>1. session.stage = 0 /\ session.report = NoReport /\ ~Active /\ log = <<>>
  BY DEF Init, NoSession, Active
<1>2. Graded = {}
  BY <1>1 DEF Graded
<1> QED
  BY <1>1, <1>2 DEF Promise!Init

\* The handlers, however they interleave and fail, behave like one turn at a time: every
\* step of theirs is a step of InterviewTurns or shows nothing.
THEOREM TurnsImplemented == Spec => ImplementsTurns
<1>1. Init => PromiseInv
  BY InitTypeInv, LockInvInit, ReportInvInit, EndsInit DEF PromiseInv
<1>2. PromiseInv /\ [Next]_vars => PromiseInv'
  BY NextTypeInv, LockInvStep, ReportInvStep, EndsStep DEF PromiseInv, TypeInv
<1> QED
  BY <1>1, <1>2, PromiseInit, PromiseStep, PTL DEF Spec, ImplementsTurns, Promise!Spec
=============================================================================
