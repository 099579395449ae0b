\* Agent mode with challenges: two answers race through one stage.
SPECIFICATION Spec
CONSTANTS
    Answerers = {a1, a2}
    Hinters = {}
    Viewers = {}
    Nobody = Nobody
    NoReport = NoReport
    NumStages = 1
    MaxHints = 0
    MaxStageQuestions = 3
    RawScores = {1, 2}
    Modes = {"agent"}
    ChallengeEnabled = TRUE
    CostCap = 6
SYMMETRY Symmetry
INVARIANTS QuestionBudget ProbesOnlyAfterImprovement
\* With no report requests the system stops when the interview is over.
CHECK_DEADLOCK FALSE
