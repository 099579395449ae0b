\* An answer and a hint request of an agent-mode session near its cost cap.
SPECIFICATION Spec
CONSTANTS
    Answerers = {a1}
    Hinters = {h1}
    Viewers = {}
    Nobody = Nobody
    NoReport = NoReport
    NumStages = 1
    MaxHints = 1
    MaxStageQuestions = 3
    RawScores = {2}
    Modes = {"agent"}
    ChallengeEnabled = FALSE
    CostCap = 3
PROPERTY AgentWithinCap
CHECK_DEADLOCK FALSE
