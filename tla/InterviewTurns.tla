--------------------------- MODULE InterviewTurns ---------------------------
(***************************************************************************)
(* What the interview loop promises, with no concurrency in it: one        *)
(* question is open at a time, every hint given on it is charged to its    *)
(* answer, each question is graded once, the stages come in order, and     *)
(* the finished interview gets one report.  Interview.tla, the handlers of *)
(* backend/src/services/interviews.service.ts over the database, is shown  *)
(* to implement this module.                                               *)
(***************************************************************************)
EXTENDS Integers

CONSTANTS
    NumStages,          \* how many interview stages come before the report
    MaxHints,           \* rungs of the hint ladder per question
    MaxStageQuestions,  \* most questions a stage may hold
    RawScores,          \* scores the grader can give
    Reports,            \* reports the model can write
    NoReport            \* no report is stored yet

VARIABLES
    stage,      \* 0 before the interview, then 1 .. NumStages, then the report
    asked,      \* questions asked in the stage so far, the open one included
    question,   \* identifies the open question
    hints,      \* hints given on the open question
    graded,     \* the graded questions
    report      \* the stored report

vars == <<stage, asked, question, hints, graded, report>>

\* A point off per hint, never below one.
Charged(raw, h) == IF h < raw THEN raw - h ELSE 1

Grade(q, s, h, raw) ==
    [question |-> q, stage |-> s, hints |-> h, score |-> Charged(raw, h)]

Init ==
    /\ stage = 0
    /\ asked = 0
    /\ question = 0
    /\ hints = 0
    /\ graded = {}
    /\ report = NoReport

\* A new question opens; question numbers only grow.
Ask ==
    /\ question' > question
    /\ hints' = 0

Start ==
    /\ stage = 0
    /\ stage' = 1
    /\ asked' = 1
    /\ Ask
    /\ UNCHANGED <<graded, report>>

Hint ==
    /\ stage \in 1 .. NumStages
    /\ hints < MaxHints
    /\ hints' = hints + 1
    /\ UNCHANGED <<stage, asked, question, graded, report>>

\* The open question is answered and graded with every hint given on it.
GradeOpen ==
    /\ stage \in 1 .. NumStages
    /\ \E raw \in RawScores :
          graded' = graded \cup {Grade(question, stage, hints, raw)}
    /\ UNCHANGED report

AnswerAndStay ==
    /\ GradeOpen
    /\ asked < MaxStageQuestions
    /\ asked' = asked + 1
    /\ Ask
    /\ UNCHANGED stage

AnswerAndAdvance ==
    /\ GradeOpen
    /\ stage < NumStages
    /\ stage' = stage + 1
    /\ asked' = 1
    /\ Ask

AnswerAndFinish ==
    /\ GradeOpen
    /\ stage = NumStages
    /\ stage' = NumStages + 1
    /\ asked' = 0
    /\ question' = 0
    /\ hints' = 0

Publish ==
    /\ stage = NumStages + 1
    /\ report = NoReport
    /\ report' \in Reports
    /\ UNCHANGED <<stage, asked, question, hints, graded>>

Next ==
    \/ Start
    \/ Hint
    \/ AnswerAndStay
    \/ AnswerAndAdvance
    \/ AnswerAndFinish
    \/ Publish

Spec == Init /\ [][Next]_vars
=============================================================================
