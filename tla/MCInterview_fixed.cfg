\* Fixed mode: two answers and a hint request race through two stages.
SPECIFICATION Spec
CONSTANTS
    Answerers = {a1, a2}
    Hinters = {h1}
    Viewers = {}
    Nobody = Nobody
    NoReport = NoReport
    NumStages = 2
    MaxHints = 1
    MaxStageQuestions = 3
    RawScores = {2}
    Modes = {"fixed"}
    ChallengeEnabled = FALSE
    CostCap = 0
SYMMETRY Symmetry
INVARIANTS AnswersOpenQuestion HintsCharged AwaitsAnswer StagesInOrder
PROPERTY ImplementsTurns
\* With no report requests the system stops when the interview is over.
CHECK_DEADLOCK FALSE
