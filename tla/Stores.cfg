SPECIFICATION Spec
CONSTANTS
    People = {p, q}
    MaxDialogTurns = 3
    Workers = 1
    Attempts = 2
    MaxChunks = 2
    MaxStatements = 2
    MaxBatches = 3
    MaxCrashes = 1
    FactTexts = {a, b}
    JobOrigins = {"before", "document"}
    Connections = {w1, w2}
    JobSize = 2
    MaxJobs = 2
    MaxCommands = 1
    MaxFacts = 3
    MaxMishaps = 1
    RecallFacts = 3
    Candidates = 3
    MaxEntityFrequency = 3
    MaxTokens = 2
    PruneAbove = 1
    MaxUsers = 3
    MaxSessionMishaps = 1
    HardLimit = 7
    SoftLimit = 4
    MinUsers = 2
    MaxOldTurns = 4
SYMMETRY Alike
INVARIANTS TypeOK FactsInOrder     SessionInStep
           AnswersPaired
CHECK_DEADLOCK FALSE
