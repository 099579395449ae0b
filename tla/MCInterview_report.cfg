\* One stage under fair scheduling: two hint requests climb the ladder beside an answer,
\* and two viewers open the report.
SPECIFICATION FairSpec
CONSTANTS
    Answerers = {a1}
    Hinters = {h1, h2}
    Viewers = {v1, v2}
    Nobody = Nobody
    NoReport = NoReport
    NumStages = 1
    MaxHints = 2
    MaxStageQuestions = 3
    RawScores = {1}
    Modes = {"fixed"}
    ChallengeEnabled = FALSE
    CostCap = 0
INVARIANTS TypeOK HintLadder OneReport
PROPERTIES ClosedWhenCompleted InterviewCompletes
\* The system may stop when every report has been served.
CHECK_DEADLOCK FALSE
